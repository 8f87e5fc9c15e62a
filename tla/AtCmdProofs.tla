----------------------------- MODULE AtCmdProofs ------------------------------
(* Theorems about AtCmd, for every value of its constants. *)
EXTENDS AtCmd, FiniteSetTheorems, SequenceTheorems, TLAPS

\* There is one activation of xbee_cmd_tick(), which has then seen this second.
OneTick(stack, seen) ==
    /\ \A j, k \in 1 .. Len(stack) :
         stack[j].fn = "tick" /\ stack[k].fn = "tick" => j = k
    /\ \A k \in 1 .. Len(stack) : stack[k].fn = "tick" => seen

IsCallback(a) == a.fn \in {"appcb", "listcb"}

\* A frame handler is called by the main loop; an expiry by the tick.
Placed(stack) ==
    \A k \in 1 .. Len(stack) : IsCallback(stack[k]) =>
      \/ stack[k].by = "response" /\ k = 1
      \/ stack[k].by = "tick" /\ k > 1 /\ stack[k - 1].fn = "tick"

\* While the callback of a request that expired runs, its slot stays its own.
Owns(a, table) ==
    /\ table[a.h.slot].dev # NULL
    /\ table[a.h.slot].seq = a.h.seq
    /\ table[a.h.slot].cb = IF a.fn = "listcb" THEN "list" ELSE "app"

Kept(stack, table) ==
    \A k \in 1 .. Len(stack) :
      IsCallback(stack[k]) /\ stack[k].by = "tick" => Owns(stack[k], table)

\* A create on behalf of the query finds the list context in use.
Asked(stack, base) ==
    \A k \in 1 .. Len(stack) :
      stack[k].fn = "create" /\ stack[k].for = "query" => base # NULL

Shape(stack, seen, base, table) ==
    OneTick(stack, seen) /\ Placed(stack) /\ Kept(stack, table) /\ Asked(stack, base)

\* A request of the list has a context.
ListBased == \A i \in Slots : slot[i].cb = "list" => clc.base # NULL

\* The application holds no request of the list.
AppHolds == \A h \in held : Live(h) => slot[h.slot].cb # "list"

IInv == TypeOK /\ ListBased /\ AppHolds /\ Shape(call, ticked, clc.base, slot)
-----------------------------------------------------------------------------
(* The stack of activations *)

\* A non-empty set of slots has a first one: the loops over the tables that stop
\* at the first match (CHOOSE in the models) stop at a slot of the set.
LEMMA LeastSlot ==
    ASSUME NEW S \in SUBSET Nat, S # {}
    PROVE  /\ (CHOOSE i \in S : \A j \in S : i <= j) \in S
           /\ \A k \in S : (CHOOSE i \in S : \A j \in S : i <= j) <= k
<1> DEFINE T == {0 .. i : i \in S}
           R == StrictSubsetOrdering(Nat)
<1>1. T \subseteq FiniteSubsetsOf(Nat) /\ T # {}
  <2>1. \A i \in S : 0 .. i \subseteq Nat /\ IsFiniteSet(0 .. i)
    BY FS_Interval
  <2> QED
    BY <2>1 DEF FiniteSubsetsOf
<1>2. PICK x \in T : \A y \in T : <<y, x>> \notin R
  <2>1. IsWellFoundedOn(R, FiniteSubsetsOf(Nat))
    BY FS_StrictSubsetOrderingWellFounded
  <2>2. IsWellFoundedOn(R, T)
    BY <1>1, <2>1, IsWellFoundedOnSubset
  <2> QED
    BY <1>1, <2>2, WFMin
<1>3. PICK i \in S : x = 0 .. i
  BY <1>2
<1>4. ASSUME NEW j \in S PROVE i <= j
  <2>1. SUFFICES ASSUME j < i PROVE FALSE
    OBVIOUS
  <2>2. 0 .. j \subseteq 0 .. i /\ i \in 0 .. i /\ i \notin 0 .. j
    BY <2>1
  <2>3. <<0 .. j, 0 .. i>> \in R
    BY <2>2 DEF StrictSubsetOrdering
  <2> QED
    BY <1>2, <1>3, <2>3
<1> QED
  BY <1>4

\* A stack without its top is a stack, and what is left is in place.
LEMMA StackPop ==
    ASSUME NEW S, NEW seq \in Seq(S), seq # <<>>
    PROVE  /\ Len(seq) \in Nat \ {0}
           /\ seq[Len(seq)] \in S
           /\ SubSeq(seq, 1, Len(seq) - 1) \in Seq(S)
           /\ Len(SubSeq(seq, 1, Len(seq) - 1)) = Len(seq) - 1
           /\ \A k \in 1 .. Len(seq) - 1 : SubSeq(seq, 1, Len(seq) - 1)[k] = seq[k]
<1> DEFINE n == Len(seq)
           b == SubSeq(seq, 1, n - 1)
<1>1. n \in Nat \ {0} /\ \A k \in 1 .. n : seq[k] \in S
  BY EmptySeq, LenProperties, ElementOfSeq
<1>2. /\ b \in Seq(S)
      /\ Len(b) = IF 1 <= n - 1 THEN n - 1 - 1 + 1 ELSE 0
      /\ \A k \in 1 .. n - 1 - 1 + 1 : b[k] = seq[1 + k - 1]
  <2>1. \A k \in 1 .. n - 1 : seq[k] \in S
    BY <1>1
  <2>2. n - 1 \in Int
    BY <1>1
  <2> HIDE DEF n
  <2> QED
    BY <2>1, <2>2, SubSeqProperties
<1> HIDE DEF n, b
<1>3. Len(b) = n - 1
  BY <1>1, <1>2
<1>4. ASSUME NEW k \in 1 .. n - 1 PROVE b[k] = seq[k]
  <2>1. k \in 1 .. n - 1 - 1 + 1 /\ 1 + k - 1 = k
    BY <1>1
  <2> QED
    BY <1>2, <2>1
<1> QED
  BY <1>1, <1>2, <1>3, <1>4 DEF n, b

LEMMA PushShape ==
    ASSUME NEW stack \in Seq(Activation), NEW a \in Activation,
           NEW seen, NEW base, NEW table, Shape(stack, seen, base, table),
           a.fn = "tick" => seen /\ \A k \in 1 .. Len(stack) : stack[k].fn # "tick",
           IsCallback(a) =>
             \/ a.by = "response" /\ stack = <<>>
             \/ /\ a.by = "tick" /\ stack # <<>> /\ stack[Len(stack)].fn = "tick"
                /\ Owns(a, table),
           a.fn = "create" /\ a.for = "query" => base # NULL
    PROVE  Append(stack, a) \in Seq(Activation) /\ Shape(Append(stack, a), seen, base, table)
<1> DEFINE n == Len(stack)
           new == Append(stack, a)
<1>1. /\ new \in Seq(Activation) /\ Len(new) = n + 1 /\ n \in Nat
      /\ new[n + 1] = a /\ \A k \in 1 .. n : new[k] = stack[k]
  BY AppendProperties, LenProperties
<1>2. stack = <<>> => n = 0
  OBVIOUS
<1>3. stack # <<>> => n > 0
  BY EmptySeq, LenProperties
<1> HIDE DEF n, new
<1>4. \A k \in 1 .. Len(new) : k \in 1 .. n \/ (k = n + 1 /\ new[k] = a)
  BY <1>1
<1>5. OneTick(new, seen)
  BY <1>1, <1>4 DEF OneTick, Shape, n
<1>6. Placed(new)
  <2> SUFFICES ASSUME NEW k \in 1 .. Len(new), IsCallback(new[k])
               PROVE  \/ new[k].by = "response" /\ k = 1
                      \/ new[k].by = "tick" /\ k > 1 /\ new[k - 1].fn = "tick"
    BY DEF Placed
  <2>1. CASE k \in 1 .. n
    <3>1. k > 1 => k - 1 \in 1 .. n
      BY <2>1, <1>1
    <3> QED
      BY <1>1, <2>1, <3>1 DEF Shape, Placed, n
  <2>2. CASE k = n + 1
    <3>1. new[k] = a
      BY <1>1, <2>2
    <3>2. n > 0 => k > 1 /\ k - 1 \in 1 .. n /\ k - 1 = n
      BY <1>1, <2>2
    <3> QED
      BY <1>1, <1>2, <1>3, <2>2, <3>1, <3>2 DEF n
  <2> QED
    BY <1>4, <2>1, <2>2
<1>7. Kept(new, table)
  BY <1>1, <1>2, <1>4 DEF Kept, Shape, n
<1>8. Asked(new, base)
  BY <1>1, <1>4 DEF Asked, Shape, n
<1> QED
  BY <1>1, <1>5, <1>6, <1>7, <1>8 DEF Shape, new

LEMMA PopShape ==
    ASSUME NEW stack \in Seq(Activation), stack # <<>>,
           NEW seen, NEW base, NEW table, Shape(stack, seen, base, table)
    PROVE  Shape(SubSeq(stack, 1, Len(stack) - 1), seen, base, table)
<1> DEFINE n == Len(stack)
           rest == SubSeq(stack, 1, n - 1)
<1>1. /\ n \in Nat \ {0} /\ rest \in Seq(Activation) /\ Len(rest) = n - 1
      /\ \A k \in 1 .. n - 1 : rest[k] = stack[k]
  BY StackPop
<1> HIDE DEF n, rest
<1>2. \A k \in 1 .. Len(rest) : k \in 1 .. n /\ rest[k] = stack[k]
  BY <1>1
<1>3. OneTick(rest, seen) /\ Kept(rest, table) /\ Asked(rest, base)
  BY <1>2 DEF OneTick, Kept, Asked, Shape, n
<1>4. \A k \in 1 .. Len(rest) : k > 1 => rest[k - 1] = stack[k - 1]
  BY <1>1
<1>5. Placed(rest)
  BY <1>2, <1>4 DEF Placed, Shape, n
<1> QED
  BY <1>3, <1>5 DEF Shape, rest, n

\* The table may change, but for the slots whose requests have just expired.
LEMMA TableShape ==
    ASSUME NEW stack, NEW seen, NEW base, NEW table, Shape(stack, seen, base, table),
           NEW newBase, base # NULL => newBase # NULL,
           NEW newTable,
           \A k \in 1 .. Len(stack) :
             /\ IsCallback(stack[k]) /\ stack[k].by = "tick" /\ Owns(stack[k], table)
             => Owns(stack[k], newTable)
    PROVE  Shape(stack, seen, newBase, newTable)
<1> QED
  BY DEF Shape, Kept, Asked

LEMMA EmptyShape ==
    ASSUME NEW seen, NEW base, NEW table
    PROVE  Shape(<<>>, seen, base, table)
<1>1. Len(<<>>) = 0 /\ 1 .. 0 = {}
  OBVIOUS
<1> QED
  BY <1>1 DEF Shape, OneTick, Placed, Kept, Asked

\* What the top of the stack is, and what is below it.
LEMMA TopTyped ==
    ASSUME TypeOK, call # <<>>
    PROVE  Below \in Seq(Activation) /\ Top \in Activation
<1>1. call \in Seq(Activation)
  BY DEF TypeOK
<1> QED
  BY <1>1, StackPop DEF Below, Top

LEMMA BelowShape ==
    ASSUME IInv, call # <<>>
    PROVE  /\ Below \in Seq(Activation) /\ Top \in Activation
           /\ Shape(Below, ticked, clc.base, slot)
<1>1. call \in Seq(Activation)
  BY DEF IInv, TypeOK
<1>2. Shape(SubSeq(call, 1, Len(call) - 1), ticked, clc.base, slot)
  BY <1>1, PopShape DEF IInv
<1> QED
  BY <1>1, <1>2, StackPop DEF Below, Top

\* Below an activation of the tick there is no other.
LEMMA TickAlone ==
    ASSUME IInv, call # <<>>, Top.fn = "tick"
    PROVE  ticked /\ \A k \in 1 .. Len(Below) : Below[k].fn # "tick"
<1> DEFINE n == Len(call)
<1>1. /\ n \in Nat \ {0} /\ Len(Below) = n - 1
      /\ \A k \in 1 .. n - 1 : Below[k] = call[k]
  BY StackPop DEF IInv, TypeOK, Below
<1>2. n \in 1 .. n /\ \A k \in 1 .. n - 1 : k \in 1 .. n /\ k # n
  BY <1>1
<1> HIDE DEF n
<1> QED
  BY <1>1, <1>2 DEF IInv, Shape, OneTick, Top, n

\* When the callback of an expired request is on top, its slot is its own.
LEMMA TopOwns ==
    ASSUME IInv, call # <<>>, IsCallback(Top), Top.by = "tick"
    PROVE  Owns(Top, slot)
<1>1. Len(call) \in 1 .. Len(call)
  BY StackPop DEF IInv, TypeOK
<1> QED
  BY <1>1 DEF IInv, Shape, Kept, Top

\* A callback of a response that is on top is all there is.
LEMMA ResponseAlone ==
    ASSUME IInv, call # <<>>, IsCallback(Top), Top.by # "tick"
    PROVE  Below = <<>>
<1>1. Len(call) \in 1 .. Len(call) /\ Len(call) \in Nat
  BY StackPop DEF IInv, TypeOK
<1>2. Len(call) = 1
  BY <1>1 DEF IInv, Shape, Placed, Top
<1>3. Below \in Seq(Activation) /\ Len(Below) = 0
  BY <1>2, StackPop DEF IInv, TypeOK, Below
<1> QED
  BY <1>3, EmptySeq
-----------------------------------------------------------------------------
(* Requests, frames and activations *)

LEMMA ConstantTypes ==
    /\ N \in Nat \ {0} /\ SeqMod \in Nat \ {0} /\ FrameMax \in Nat \ {0}
    /\ Len(List) \in Nat \ {0} /\ RefreshIdx \in 1 .. Len(List) /\ 1 \in 1 .. Len(List)
    /\ Timer \subseteq Nat /\ 0 \in Timer
    /\ LocalTimeout \in Timer /\ ReuseTimeout \in Timer /\ RemoteTimeout \in Timer
    /\ \A k \in 1 .. Len(List) : List[k] \in Cmd
    /\ AppCmd \subseteq Cmd
    /\ NULL \notin Dev /\ Slots \subseteq Nat
<1>1. Len(List) \in Nat
  BY AtAssumption, LenProperties
<1>2. /\ LocalTimeout \in Nat /\ ReuseTimeout \in Nat /\ RemoteTimeout \in Nat
  BY AtAssumption
<1>3. RefreshIdx \in 1 .. Len(List) /\ NULL \notin Dev
      /\ N \in Nat \ {0} /\ SeqMod \in Nat \ {0} /\ FrameMax \in Nat \ {0}
  BY AtAssumption
<1>4. Len(List) \in Nat \ {0} /\ 1 \in 1 .. Len(List)
  BY <1>1, <1>3
<1>5. \A k \in 1 .. Len(List) : List[k] \in Cmd
  BY DEF Cmd
<1>6. AppCmd \subseteq Cmd
  BY DEF Cmd
<1>7. /\ Timer \subseteq Nat /\ 0 \in Timer
      /\ LocalTimeout \in Timer /\ ReuseTimeout \in Timer /\ RemoteTimeout \in Timer
  BY <1>2 DEF Timer
<1>8. Slots \subseteq Nat
  BY <1>3 DEF Slots
<1> QED
  BY <1>3, <1>4, <1>5, <1>6, <1>7, <1>8

LEMMA RequestType ==
    ASSUME TypeOK, NEW i \in Slots
    PROVE  /\ slot[i] \in Request /\ slot[i].seq \in 0 .. SeqMod - 1
           /\ slot[i].dev # NULL => slot[i].dev \in Dev
           /\ HandleOf(i) \in Handle
           /\ slot[i].timer \in Timer
<1> QED
  BY DEF TypeOK, Request, Handle, HandleOf

LEMMA BlankType ==
    ASSUME NEW seq \in 0 .. SeqMod - 1
    PROVE  /\ Blank(seq) \in Request /\ Blank(seq).dev = NULL
           /\ Blank(seq).cb = "none" /\ Blank(seq).seq = seq
<1>1. 0 \in 0 .. FrameMax
  BY ConstantTypes
<1> QED
  BY <1>1, ConstantTypes DEF Blank, Request, Callback

LEMMA ReleasedType ==
    ASSUME NEW r \in Request
    PROVE  Released(r) \in Request /\ Released(r).dev = NULL /\ Released(r).cb = "none"
<1>1. (r.seq + 1) % SeqMod \in 0 .. SeqMod - 1
  BY ConstantTypes DEF Request
<1> QED
  BY <1>1, BlankType DEF Released

LEMMA CreatedType ==
    ASSUME TypeOK, NEW i \in Slots, NEW d \in Dev, NEW c \in Cmd
    PROVE  /\ Created(i, d, c) \in Request /\ Created(i, d, c).dev = d
           /\ Created(i, d, c).cb = "none" /\ Created(i, d, c).seq = slot[i].seq
<1> DEFINE b == Blank(slot[i].seq)
<1>1. b \in Request /\ b.cb = "none" /\ b.seq = slot[i].seq
  BY RequestType, BlankType
<1>2. LocalTimeout \in Timer
  BY ConstantTypes
<1> HIDE DEF b
<1>3. Created(i, d, c) = [b EXCEPT !.dev = d, !.timer = LocalTimeout, !.cmd = c]
  BY DEF Created, b
<1> QED
  BY <1>1, <1>2, <1>3 DEF Request

LEMMA SendFrameType ==
    ASSUME TypeOK, NEW r \in Request, r.dev \in Dev
    PROVE  /\ SendFrame(r) \in 0 .. FrameMax
           /\ r.cb # "none" => SendFrame(r) \in 1 .. FrameMax
<1>1. frameId[r.dev] \in 0 .. FrameMax /\ FrameMax \in Nat \ {0}
  BY ConstantTypes DEF TypeOK
<1> QED
  BY <1>1 DEF SendFrame

\* A request that is sent stays in the table, unless it has no callback.
LEMMA SentType ==
    ASSUME TypeOK, NEW r \in Request, r.dev \in Dev, NEW ok
    PROVE  /\ Sent(r, ok) \in Request
           /\ r.cb # "none" => /\ Sent(r, ok).dev = r.dev /\ Sent(r, ok).seq = r.seq
                              /\ Sent(r, ok).cb = r.cb
           /\ Sent(r, ok).cb \in {r.cb, "none"}
<1> DEFINE s == [r EXCEPT !.frame = SendFrame(r)]
<1>1. /\ s \in Request /\ s.dev = r.dev /\ s.seq = r.seq /\ s.cb = r.cb
      /\ s.frame = SendFrame(r)
  BY SendFrameType DEF Request
<1>2. r.cb # "none" => s.frame # 0
  BY <1>1, SendFrameType
<1>3. Released(s) \in Request /\ Released(s).cb = "none"
  BY <1>1, ReleasedType
<1>4. LocalTimeout \in Timer /\ RemoteTimeout \in Timer
  BY ConstantTypes
<1> HIDE DEF s
<1>5. Sent(r, ok) = IF ok /\ s.frame # 0
                    THEN [s EXCEPT !.timer = IF r.remote THEN RemoteTimeout ELSE LocalTimeout]
                    ELSE IF ok /\ ~r.reuse THEN Released(s) ELSE s
  BY DEF Sent, s
<1>6. CASE ok /\ s.frame # 0
  BY <1>1, <1>4, <1>5, <1>6 DEF Request
<1>7. CASE ~(ok /\ s.frame # 0)
  BY <1>1, <1>2, <1>3, <1>5, <1>7
<1> QED
  BY <1>6, <1>7

LEMMA AirborneType ==
    ASSUME TypeOK, NEW i \in Slots, NEW r \in Request, r.dev \in Dev, r.cb # "none",
           NEW others \in SUBSET Response, NEW ok
    PROVE  Airborne(i, r, others, ok) \subseteq Response
<1>1. SendFrame(r) \in 1 .. FrameMax /\ HandleOf(i) \in Handle
  BY SendFrameType, RequestType
<1> QED
  BY <1>1 DEF Airborne, Response, Request

LEMMA TransmitType ==
    ASSUME TypeOK, NEW i \in Slots, NEW r \in Request, r.dev \in Dev, NEW ok,
           Transmit(i, r, ok)
    PROVE  frameId' \in [Dev -> 0 .. FrameMax] /\ air' \subseteq Response
<1>1. CASE r.cb = "none"
  BY <1>1 DEF Transmit, TypeOK
<1>2. CASE r.cb # "none"
  <2>1. air \in SUBSET Response
    BY DEF TypeOK
  <2>2. Airborne(i, r, air, ok) \subseteq Response
    BY <1>2, <2>1, AirborneType
  <2> QED
    BY <1>2, <2>2, SendFrameType DEF Transmit, TypeOK
<1> QED
  BY <1>1, <1>2

LEMMA SpendType ==
    ASSUME TypeOK, NEW ok \in BOOLEAN, Write(ok)
    PROVE  /\ Spend(ok) \in [request : 0 .. MaxRequest, event : 0 .. MaxEvent, fail : 0 .. MaxFail]
           /\ Spend(ok).request = budget.request
<1>1. budget.fail \in 0 .. MaxFail /\ MaxFail \in Nat
  BY AtAssumption DEF TypeOK
<1>2. ~ok => budget.fail - 1 \in 0 .. MaxFail
  BY <1>1 DEF Write
<1> QED
  BY <1>2 DEF Spend, TypeOK

LEMMA TickCallType ==
    ASSUME NEW i \in 0 .. N
    PROVE  TickCall(i) \in Activation /\ TickCall(i).fn = "tick" /\ ~IsCallback(TickCall(i))
<1> QED
  BY DEF TickCall, Activation, IsCallback

LEMMA QueryCallType ==
    ASSUME NEW d \in Dev, NEW r \in BOOLEAN
    PROVE  QueryCall(d, r) \in Activation /\ QueryCall(d, r).fn = "query"
<1> QED
  BY DEF QueryCall, Activation

LEMMA CreateCallType ==
    ASSUME NEW d \in Dev, NEW for \in {"app", "query"}, NEW k \in 1 .. Len(List),
           NEW retry \in BOOLEAN
    PROVE  /\ CreateCall(d, for, k, retry) \in Activation
           /\ CreateCall(d, for, k, retry).fn = "create"
           /\ CreateCall(d, for, k, retry).for = for
<1> QED
  BY DEF CreateCall, Activation

LEMMA CallbackCallType ==
    ASSUME TypeOK, NEW f \in {"appcb", "listcb"}, NEW i \in Slots, NEW from \in Handle,
           NEW by \in {"tick", "response"}
    PROVE  /\ CallbackCall(f, i, from, by) \in Activation
           /\ CallbackCall(f, i, from, by).fn = f /\ CallbackCall(f, i, from, by).by = by
           /\ CallbackCall(f, i, from, by).h = HandleOf(i)
<1> QED
  BY RequestType DEF CallbackCall, Activation

\* The fields of an activation that its function uses.
LEMMA ActivationFields ==
    ASSUME NEW a \in Activation
    PROVE  /\ a.fn \in {"appcb", "listcb", "tick", "create", "query"}
           /\ IsCallback(a) => a.h \in Handle /\ a.by \in {"tick", "response"}
           /\ a.fn = "tick" => a.next \in 0 .. N
           /\ a.fn = "create" =>
                /\ a.dev \in Dev /\ a.for \in {"app", "query"}
                /\ a.start \in 1 .. Len(List)
                /\ [a EXCEPT !.retry = TRUE] \in Activation
                /\ [a EXCEPT !.retry = TRUE].fn = "create"
                /\ [a EXCEPT !.retry = TRUE].for = a.for
           /\ a.fn = "query" => a.dev \in Dev /\ a.refresh \in BOOLEAN
<1>1. a.fn = "create" => a \in [fn : {"create"}, dev : Dev, for : {"app", "query"},
                                start : 1 .. Len(List), retry : BOOLEAN]
  BY DEF Activation
<1> QED
  BY <1>1 DEF Activation, IsCallback

LEMMA FirstSlot ==
    ASSUME NEW S \in SUBSET Slots, S # {}
    PROVE  FirstOf(S) \in S
<1>1. S \in SUBSET Nat
  BY ConstantTypes
<1> QED
  BY <1>1, LeastSlot DEF FirstOf
-----------------------------------------------------------------------------
(* Steps that leave the table alone *)

LEMMA SameTable ==
    ASSUME IInv, UNCHANGED slot, held' \subseteq held,
           clc.base # NULL => clc'.base # NULL
    PROVE  ListBased' /\ AppHolds'
<1> QED
  BY DEF IInv, ListBased, AppHolds, Live, Resolves

LEMMA AppCreateStep ==
    ASSUME IInv, NEW d \in Dev, AppCreate(d)
    PROVE  IInv'
<1> DEFINE a == CreateCall(d, "app", 1, FALSE)
<1>1. call \in Seq(Activation) /\ Shape(call, ticked, clc.base, slot) /\ TypeOK
  BY DEF IInv, TypeOK
<1>2. a \in Activation /\ a.fn = "create" /\ a.for = "app"
  BY CreateCallType, ConstantTypes
<1>3. call' = Append(call, a) /\ UNCHANGED <<slot, flags, clc, frameId, info, ticked, held, air>>
  BY DEF AppCreate
<1> HIDE DEF a
<1>4. call' \in Seq(Activation) /\ Shape(call', ticked', clc'.base, slot')
  BY <1>1, <1>2, <1>3, PushShape DEF IsCallback
<1>5. budget' \in [request : 0 .. MaxRequest, event : 0 .. MaxEvent, fail : 0 .. MaxFail]
  <2>1. budget.request > 0 /\ MaxRequest \in Nat /\ budget.request \in 0 .. MaxRequest
    BY <1>1, AtAssumption DEF AppCreate, TypeOK
  <2>2. budget.request - 1 \in 0 .. MaxRequest
    BY <2>1
  <2> QED
    BY <1>1, <2>2 DEF AppCreate, TypeOK
<1>6. TypeOK'
  BY <1>1, <1>3, <1>4, <1>5 DEF TypeOK
<1> QED
  BY <1>3, <1>4, <1>6, SameTable DEF IInv

LEMMA CmdTickStep ==
    ASSUME IInv, CmdTick
    PROVE  IInv'
<1> DEFINE a == TickCall(0)
<1>1. TypeOK
  BY DEF IInv
<1>2. a \in Activation /\ a.fn = "tick" /\ ~IsCallback(a)
  BY TickCallType, ConstantTypes
<1>3. call' = Append(<<>>, a) /\ UNCHANGED <<slot, flags, clc, frameId, info, held, air, budget>>
      /\ ticked'
  BY DEF CmdTick
<1>4. <<>> \in Seq(Activation) /\ Len(<<>>) = 0
  BY EmptySeq
<1> HIDE DEF a
<1>5. call' \in Seq(Activation) /\ Shape(call', ticked', clc'.base, slot')
  <2>1. Shape(<<>>, ticked', clc'.base, slot')
    BY EmptyShape
  <2>2. \A k \in 1 .. Len(<<>>) : <<>>[k].fn # "tick"
    BY <1>4
  <2> QED
    BY <1>2, <1>3, <1>4, <2>1, <2>2, PushShape
<1>6. TypeOK'
  <2>1. ticked' \in BOOLEAN
    BY DEF CmdTick
  <2> QED
    BY <1>1, <1>3, <1>5, <2>1 DEF TypeOK
<1> QED
  BY <1>3, <1>5, <1>6, SameTable DEF IInv

LEMMA ModemStatusStep ==
    ASSUME IInv, NEW d \in Dev, ModemStatus(d)
    PROVE  IInv'
<1> DEFINE a == QueryCall(d, TRUE)
<1>1. TypeOK
  BY DEF IInv
<1>2. a \in Activation /\ a.fn = "query"
  BY QueryCallType
<1>3. call' = Append(<<>>, a) /\ UNCHANGED <<slot, flags, clc, frameId, info, ticked, held, air>>
  BY DEF ModemStatus
<1>4. <<>> \in Seq(Activation)
  BY EmptySeq
<1> HIDE DEF a
<1>5. call' \in Seq(Activation) /\ Shape(call', ticked', clc'.base, slot')
  BY <1>2, <1>3, <1>4, PushShape, EmptyShape DEF IsCallback
<1>6. budget' \in [request : 0 .. MaxRequest, event : 0 .. MaxEvent, fail : 0 .. MaxFail]
  <2>1. budget.event > 0 /\ MaxEvent \in Nat /\ budget.event \in 0 .. MaxEvent
    BY <1>1, AtAssumption DEF ModemStatus, TypeOK
  <2>2. budget.event - 1 \in 0 .. MaxEvent
    BY <2>1
  <2> QED
    BY <1>1, <2>2 DEF ModemStatus, TypeOK
<1>7. TypeOK'
  BY <1>1, <1>3, <1>5, <1>6 DEF TypeOK
<1> QED
  BY <1>3, <1>5, <1>7, SameTable DEF IInv

\* A call returns and changes nothing.
LEMMA ReturnStep ==
    ASSUME IInv, call # <<>>, call' = Below,
           UNCHANGED <<slot, flags, clc, frameId, info, ticked, held, air, budget>>
    PROVE  IInv'
<1>1. Below \in Seq(Activation) /\ Shape(Below, ticked, clc.base, slot)
  BY BelowShape
<1>2. TypeOK'
  BY <1>1 DEF IInv, TypeOK
<1> QED
  BY <1>1, <1>2, SameTable DEF IInv

LEMMA QueryDeviceStep ==
    ASSUME IInv, QueryDevice
    PROVE  IInv'
<1> DEFINE d == Top.dev
           fs == IF Top.refresh THEN flags[d] \cup {"QUERY_REFRESH"} ELSE flags[d]
           start == IF Top.refresh THEN RefreshIdx ELSE 1
           a == CreateCall(d, "query", start, FALSE)
<1>1. /\ call # <<>> /\ Top.fn = "query" /\ TypeOK
      /\ UNCHANGED <<slot, frameId, info, ticked, held, air, budget>>
  BY DEF QueryDevice, TopIs, IInv
<1>2. /\ Below \in Seq(Activation) /\ Top \in Activation
      /\ Shape(Below, ticked, clc.base, slot)
  BY <1>1, BelowShape
<1>3. d \in Dev /\ start \in 1 .. Len(List)
  BY <1>1, <1>2, ActivationFields, ConstantTypes
<1>4. flags' = [flags EXCEPT ![d] = fs]
  BY DEF QueryDevice
<1>5. flags' \in [Dev -> SUBSET Flag]
  <2>1. fs \in SUBSET Flag
    BY <1>1, <1>3 DEF TypeOK, Flag
  <2> HIDE DEF fs
  <2> QED
    BY <1>1, <1>4, <2>1 DEF TypeOK
<1>6. CASE "QUERY_INPROGRESS" \in fs
  <2>1. call' = Below /\ UNCHANGED clc
    BY <1>6 DEF QueryDevice
  <2>2. TypeOK'
    BY <1>1, <1>2, <1>5, <2>1 DEF TypeOK
  <2> QED
    BY <1>1, <1>2, <2>1, <2>2, SameTable DEF IInv
<1>7. CASE "QUERY_INPROGRESS" \notin fs
  <2>1. /\ clc' = [base |-> d, list |-> start, index |-> 0, status |-> "RUNNING"]
        /\ call' = Append(Below, a)
    BY <1>7 DEF QueryDevice
  <2>2. a \in Activation /\ a.fn = "create"
    BY <1>3, CreateCallType
  <2>3. clc' \in Context /\ clc'.base # NULL
    BY <1>3, <2>1, ConstantTypes DEF Context
  <2> HIDE DEF a, d, start, fs
  <2>4. Shape(Below, ticked, clc'.base, slot)
    BY <1>2, <2>3, TableShape
  <2>5. call' \in Seq(Activation) /\ Shape(call', ticked', clc'.base, slot')
    BY <1>1, <1>2, <2>1, <2>2, <2>3, <2>4, PushShape DEF IsCallback
  <2>6. TypeOK'
    BY <1>1, <1>5, <2>3, <2>5 DEF TypeOK
  <2> QED
    BY <1>1, <2>3, <2>5, <2>6, SameTable DEF IInv
<1> QED
  BY <1>6, <1>7

LEMMA CreateInitsDeviceStep ==
    ASSUME IInv, CreateInitsDevice
    PROVE  IInv'
<1> DEFINE a == QueryCall(Top.dev, FALSE)
<1>1. /\ call # <<>> /\ Top.fn = "create" /\ TypeOK /\ call \in Seq(Activation)
      /\ UNCHANGED <<slot, clc, frameId, info, ticked, held, air, budget>>
  BY DEF CreateInitsDevice, TopIs, IInv, TypeOK
<1>2. Top.dev \in Dev
  BY <1>1, TopTyped, ActivationFields
<1>3. a \in Activation /\ a.fn = "query"
  BY <1>2, QueryCallType
<1>4. call' = call \/ call' = Append(call, a)
  BY DEF CreateInitsDevice
<1>5. flags' \in [Dev -> SUBSET Flag]
  BY <1>1, <1>2 DEF CreateInitsDevice, TypeOK, Flag
<1> HIDE DEF a
<1>6. call' \in Seq(Activation) /\ Shape(call', ticked', clc'.base, slot')
  BY <1>1, <1>3, <1>4, PushShape DEF IInv, IsCallback
<1>7. TypeOK'
  BY <1>1, <1>5, <1>6 DEF TypeOK
<1> QED
  BY <1>1, <1>6, <1>7, SameTable DEF IInv

LEMMA CreateTicksFirstStep ==
    ASSUME IInv, CreateTicksFirst
    PROVE  IInv'
<1> DEFINE a == [Top EXCEPT !.retry = TRUE]
           again == Append(Below, a)
<1>1. /\ call # <<>> /\ Top.fn = "create" /\ TypeOK /\ ticked'
      /\ UNCHANGED <<slot, flags, clc, frameId, info, held, air, budget>>
  BY DEF CreateTicksFirst, Creating, TopIs, IInv
<1>2. /\ Below \in Seq(Activation) /\ Top \in Activation
      /\ Shape(Below, ticked, clc.base, slot)
  BY <1>1, BelowShape
<1>3. a \in Activation /\ a.fn = "create" /\ a.for = Top.for
  BY <1>1, <1>2, ActivationFields
<1>4. Top.for = "query" => clc.base # NULL
  <2>1. Len(call) \in 1 .. Len(call)
    BY <1>1, StackPop DEF TypeOK
  <2> QED
    BY <1>1, <2>1 DEF IInv, Shape, Asked, Top
<1>5. /\ TickCall(0) \in Activation /\ TickCall(0).fn = "tick" /\ ~IsCallback(TickCall(0))
  BY TickCallType, ConstantTypes
<1>6. call' = IF ticked THEN again ELSE Append(again, TickCall(0))
  BY DEF CreateTicksFirst
<1> HIDE DEF a
<1>7. again \in Seq(Activation) /\ Shape(again, ticked, clc.base, slot)
  BY <1>2, <1>3, <1>4, PushShape DEF IsCallback
<1> HIDE DEF again
<1>8. Shape(again, TRUE, clc.base, slot)
  BY <1>7 DEF Shape, OneTick
<1>9. ~ticked => \A k \in 1 .. Len(again) : again[k].fn # "tick"
  BY <1>7 DEF Shape, OneTick
<1>10. call' \in Seq(Activation) /\ Shape(call', TRUE, clc.base, slot)
  BY <1>5, <1>6, <1>7, <1>8, <1>9, PushShape
<1>11. ticked' = TRUE
  BY DEF CreateTicksFirst
<1>12. TypeOK'
  BY <1>1, <1>10, <1>11 DEF TypeOK
<1> QED
  BY <1>1, <1>10, <1>11, <1>12, SameTable DEF IInv
-----------------------------------------------------------------------------
(* Steps that change the table *)

\* The tick that runs, or whose callback runs, has no callback further down.
LEMMA NoOwnerBelow ==
    ASSUME IInv, call # <<>>, Top.fn = "tick" \/ (IsCallback(Top) /\ Top.by = "tick")
    PROVE  \A k \in 1 .. Len(Below) : ~(IsCallback(Below[k]) /\ Below[k].by = "tick")
<1> DEFINE n == Len(call)
<1>1. /\ n \in Nat \ {0} /\ Len(Below) = n - 1
      /\ \A k \in 1 .. n - 1 : Below[k] = call[k]
  BY StackPop DEF IInv, TypeOK, Below
<1> HIDE DEF n
<1> SUFFICES ASSUME NEW k \in 1 .. n - 1, IsCallback(call[k]), call[k].by = "tick"
             PROVE  FALSE
  BY <1>1
<1>2. k \in 1 .. n /\ n \in 1 .. n
  BY <1>1
<1>3. k > 1 /\ call[k - 1].fn = "tick"
  BY <1>2 DEF IInv, Shape, Placed, n
<1>4. k - 1 \in 1 .. n /\ k - 1 # n
  BY <1>1, <1>2, <1>3
<1>5. CASE Top.fn = "tick"
  BY <1>2, <1>3, <1>4, <1>5 DEF IInv, Shape, OneTick, Top, n
<1>6. CASE IsCallback(Top) /\ Top.by = "tick"
  <2>1. n > 1 /\ call[n - 1].fn = "tick"
    BY <1>2, <1>6 DEF IInv, Shape, Placed, Top, n
  <2>2. n - 1 \in 1 .. n /\ n - 1 # k - 1
    BY <1>1, <1>2, <2>1
  <2> QED
    BY <1>3, <1>4, <2>1, <2>2 DEF IInv, Shape, OneTick, n
<1> QED
  BY <1>5, <1>6

\* A slot is written that is nobody's.
LEMMA WriteSlot ==
    ASSUME IInv, NEW i \in Slots, NEW r \in Request, slot' = [slot EXCEPT ![i] = r]
    PROVE  /\ slot' \in [Slots -> Request]
           /\ slot'[i] = r /\ \A j \in Slots : j # i => slot'[j] = slot[j]
<1> QED
  BY DEF IInv, TypeOK

LEMMA KeptElsewhere ==
    ASSUME IInv, NEW stack \in Seq(Activation), Shape(stack, ticked, clc.base, slot),
           NEW i \in Slots, NEW r \in Request, slot' = [slot EXCEPT ![i] = r],
           \A k \in 1 .. Len(stack) :
             IsCallback(stack[k]) /\ stack[k].by = "tick" /\ stack[k].h.slot = i
             => Owns(stack[k], slot')
    PROVE  Shape(stack, ticked, clc.base, slot')
<1> SUFFICES ASSUME NEW k \in 1 .. Len(stack), IsCallback(stack[k]), stack[k].by = "tick",
                    Owns(stack[k], slot), stack[k].h.slot # i
             PROVE  Owns(stack[k], slot')
  BY TableShape
<1>1. stack[k] \in Activation
  BY ElementOfSeq
<1>2. stack[k].h.slot \in Slots
  BY <1>1, ActivationFields DEF Handle
<1> QED
  BY <1>2, WriteSlot DEF Owns

\* A slot that is released is held by nobody and is not the list's.
LEMMA ReleaseTable ==
    ASSUME IInv, NEW i \in Slots, slot' = [slot EXCEPT ![i] = Released(@)],
           held' \subseteq held, UNCHANGED clc
    PROVE  slot' \in [Slots -> Request] /\ ListBased' /\ AppHolds'
<1>1. slot[i] \in Request
  BY RequestType DEF IInv
<1>2. /\ Released(slot[i]) \in Request /\ Released(slot[i]).dev = NULL
      /\ Released(slot[i]).cb = "none"
  BY <1>1, ReleasedType
<1>3. /\ slot' \in [Slots -> Request] /\ slot'[i].dev = NULL /\ slot'[i].cb = "none"
      /\ \A j \in Slots : j # i => slot'[j] = slot[j]
  BY <1>2, WriteSlot
<1>4. ListBased'
  BY <1>3 DEF IInv, ListBased
<1>5. ASSUME NEW h \in held', Live(h)' PROVE slot'[h.slot].cb # "list"
  <2>1. h \in held /\ h.slot \in Slots
    BY DEF IInv, TypeOK, Handle
  <2>2. h.slot # i /\ Live(h)
    BY <1>3, <1>5, <2>1 DEF Live, Resolves
  <2> QED
    BY <1>3, <2>1, <2>2 DEF IInv, AppHolds
<1>6. AppHolds'
  BY <1>5 DEF AppHolds
<1> QED
  BY <1>3, <1>4, <1>6

\* The tick releases a slot and goes on in the stack `rest', which owns no slot.
LEMMA TickReleasesStep ==
    ASSUME IInv, NEW i \in Slots, slot[i].dev \in Dev, NEW rest \in Seq(Activation),
           Shape(rest, ticked, clc.base, slot),
           \A k \in 1 .. Len(rest) : ~(IsCallback(rest[k]) /\ rest[k].by = "tick"),
           TickReleases(i, rest), held' \subseteq held,
           UNCHANGED <<flags, clc, frameId, info, ticked, air, budget>>
    PROVE  IInv'
<1>1. /\ slot' \in [Slots -> Request] /\ ListBased' /\ AppHolds'
      /\ slot' = [slot EXCEPT ![i] = Released(slot[i])] /\ Released(slot[i]) \in Request
  <2>1. Released(slot[i]) \in Request
    BY RequestType, ReleasedType DEF IInv
  <2> QED
    BY <2>1, ReleaseTable DEF TickReleases
<1>2. Shape(rest, ticked, clc.base, slot')
  BY <1>1, KeptElsewhere
<1> DEFINE a == QueryCall(slot[i].dev, TRUE)
<1>3. a \in Activation /\ a.fn = "query"
  BY QueryCallType
<1>4. call' = rest \/ call' = Append(rest, a)
  BY DEF TickReleases
<1> HIDE DEF a
<1>5. call' \in Seq(Activation) /\ Shape(call', ticked, clc.base, slot')
  BY <1>2, <1>3, <1>4, PushShape DEF IsCallback
<1>6. TypeOK'
  BY <1>1, <1>5 DEF IInv, TypeOK
<1> QED
  BY <1>1, <1>5, <1>6 DEF IInv

\* A callback of a response returns: its slot is released.
LEMMA ResponseReleases ==
    ASSUME IInv, call # <<>>, IsCallback(Top), Top.by # "tick",
           slot' = [slot EXCEPT ![Top.h.slot] = Released(@)], call' = Below,
           held' \subseteq held,
           UNCHANGED <<flags, clc, frameId, info, ticked, air, budget>>
    PROVE  IInv'
<1>1. Top \in Activation /\ TypeOK
  BY TopTyped DEF IInv
<1>2. Top.h.slot \in Slots
  BY <1>1, ActivationFields DEF Handle
<1>3. slot' \in [Slots -> Request] /\ ListBased' /\ AppHolds'
  BY <1>2, ReleaseTable
<1>4. call' = <<>>
  BY ResponseAlone
<1>5. Shape(call', ticked', clc'.base, slot') /\ call' \in Seq(Activation)
  BY <1>4, EmptyShape, EmptySeq
<1>6. TypeOK'
  BY <1>1, <1>3, <1>5 DEF TypeOK
<1> QED
  BY <1>3, <1>5, <1>6 DEF IInv

\* A callback of an expired request returns: the slot is still its own.
LEMMA ExpiryReleases ==
    ASSUME IInv, call # <<>>, IsCallback(Top), Top.by = "tick",
           TickReleases(Top.h.slot, Below), held' \subseteq held,
           UNCHANGED <<flags, clc, frameId, info, ticked, air, budget>>
    PROVE  IInv'
<1>1. /\ Below \in Seq(Activation) /\ Top \in Activation
      /\ Shape(Below, ticked, clc.base, slot)
  BY BelowShape
<1>2. Top.h.slot \in Slots
  BY <1>1, ActivationFields DEF Handle
<1>3. slot[Top.h.slot].dev \in Dev
  BY <1>2, TopOwns, RequestType DEF Owns, IInv
<1> QED
  BY <1>1, <1>2, <1>3, NoOwnerBelow, TickReleasesStep

LEMMA ListReturnsStep ==
    ASSUME IInv, ListReturns
    PROVE  IInv'
<1>1. call # <<>> /\ IsCallback(Top) /\ UNCHANGED <<flags, clc, frameId, info, ticked, held, air, budget>>
  BY DEF ListReturns, TopIs, IsCallback
<1>2. CASE Top.by = "tick"
  <2>1. TickReleases(Top.h.slot, Below)
    BY <1>2 DEF ListReturns
  <2> QED
    BY <1>1, <1>2, <2>1, ExpiryReleases
<1>3. CASE Top.by # "tick"
  <2>1. slot' = [slot EXCEPT ![Top.h.slot] = Released(@)] /\ call' = Below
    BY <1>3 DEF ListReturns
  <2> QED
    BY <1>1, <1>3, <2>1, ResponseReleases
<1> QED
  BY <1>2, <1>3

LEMMA AppReturnsDoneStep ==
    ASSUME IInv, AppReturnsDone
    PROVE  IInv'
<1>1. /\ call # <<>> /\ IsCallback(Top) /\ held' \subseteq held
      /\ UNCHANGED <<flags, clc, frameId, info, ticked, air, budget>>
  BY DEF AppReturnsDone, TopIs, IsCallback
<1>2. CASE Top.by = "tick"
  <2>1. TickReleases(Top.h.slot, Below)
    BY <1>2 DEF AppReturnsDone
  <2> QED
    BY <1>1, <1>2, <2>1, ExpiryReleases
<1>3. CASE Top.by # "tick"
  <2>1. slot' = [slot EXCEPT ![Top.h.slot] = Released(@)] /\ call' = Below
    BY <1>3 DEF AppReturnsDone
  <2> QED
    BY <1>1, <1>3, <2>1, ResponseReleases
<1> QED
  BY <1>2, <1>3
-----------------------------------------------------------------------------
(* The application's calls *)

LEMMA AppReturnsReuseStep ==
    ASSUME IInv, AppReturnsReuse
    PROVE  IInv'
<1>1. /\ call # <<>> /\ IsCallback(Top) /\ call' = Below
      /\ UNCHANGED <<flags, clc, frameId, info, ticked, held, air, budget>>
  BY DEF AppReturnsReuse, TopIs, IsCallback
<1>2. CASE Top.by = "tick"
  BY <1>1, <1>2, ReturnStep DEF AppReturnsReuse
<1>3. CASE Top.by # "tick"
  <2> DEFINE i == Top.h.slot
             r == [slot[i] EXCEPT !.timer = ReuseTimeout]
  <2>1. Top \in Activation
    BY <1>1, TopTyped DEF IInv
  <2>2. i \in Slots
    BY <1>1, <2>1, ActivationFields DEF Handle
  <2>3. r \in Request /\ r.cb = slot[i].cb /\ r.dev = slot[i].dev /\ r.seq = slot[i].seq
    <3>1. slot[i] \in Request /\ ReuseTimeout \in Timer
      BY <2>2, RequestType, ConstantTypes DEF IInv
    <3> HIDE DEF i
    <3> QED
      BY <3>1 DEF Request
  <2>4. slot' = [slot EXCEPT ![i] = r]
    BY <1>3 DEF AppReturnsReuse
  <2> HIDE DEF i, r
  <2>5. slot' \in [Slots -> Request]
        /\ \A j \in Slots : /\ slot'[j].cb = slot[j].cb /\ slot'[j].dev = slot[j].dev
                            /\ slot'[j].seq = slot[j].seq
    BY <2>2, <2>3, <2>4, WriteSlot
  <2>6. ListBased'
    BY <1>1, <2>5 DEF IInv, ListBased
  <2>7. \A h \in held : h.slot \in Slots
    BY DEF IInv, TypeOK, Handle
  <2>8. AppHolds'
    BY <1>1, <2>5, <2>7 DEF IInv, AppHolds, Live, Resolves
  <2>9. call' = <<>>
    BY <1>1, <1>3, ResponseAlone
  <2>10. Shape(call', ticked', clc'.base, slot') /\ call' \in Seq(Activation)
    BY <2>9, EmptyShape, EmptySeq
  <2>11. TypeOK'
    BY <1>1, <2>5, <2>10 DEF IInv, TypeOK
  <2> QED
    BY <2>6, <2>8, <2>10, <2>11 DEF IInv
<1> QED
  BY <1>2, <1>3

LEMMA AppFindsStaleStep ==
    ASSUME IInv, NEW h \in held, AppFindsStale(h)
    PROVE  IInv'
<1>1. held' \subseteq held /\ UNCHANGED <<slot, flags, clc, frameId, info, ticked, call, air, budget>>
  BY DEF AppFindsStale
<1>2. TypeOK'
  BY <1>1 DEF IInv, TypeOK
<1>3. ListBased' /\ AppHolds'
  BY <1>1, SameTable
<1> QED
  BY <1>1, <1>2, <1>3 DEF IInv

\* A request the application holds is not one that the tick or the list waits
\* with, unless its own callback runs.
LEMMA HeldOwner ==
    ASSUME IInv, NEW h \in held, Live(h), NEW k \in 1 .. Len(call),
           IsCallback(call[k]), call[k].by = "tick", call[k].h.slot = h.slot
    PROVE  /\ call[k].fn = "appcb" /\ call[k].h = h /\ InCallback(h)
           /\ Owns(call[k], slot)
<1>1. Owns(call[k], slot)
  BY DEF IInv, Shape, Kept
<1>2. slot[h.slot].cb # "list"
  BY DEF IInv, AppHolds
<1>3. call[k].fn = "appcb"
  BY <1>1, <1>2 DEF Owns, IsCallback
<1>4. call[k] \in Activation
  BY ElementOfSeq DEF IInv, TypeOK
<1>5. call[k].h \in Handle /\ h \in Handle
  BY <1>4, ActivationFields DEF IInv, TypeOK
<1>6. call[k].h.seq = h.seq
  BY <1>1 DEF Owns, Live, Resolves
<1>7. call[k].h = h
  BY <1>5, <1>6 DEF Handle
<1> QED
  BY <1>1, <1>3, <1>7 DEF InCallback

LEMMA AppReleaseStep ==
    ASSUME IInv, NEW h \in held, AppRelease(h)
    PROVE  IInv'
<1>1. /\ Live(h) /\ ~InCallback(h) /\ held' \subseteq held
      /\ slot' = [slot EXCEPT ![h.slot] = Released(slot[h.slot])]
      /\ UNCHANGED <<flags, clc, frameId, info, ticked, call, air, budget>>
  BY DEF AppRelease
<1>2. h.slot \in Slots
  BY DEF IInv, TypeOK, Handle
<1>3. slot' \in [Slots -> Request] /\ ListBased' /\ AppHolds'
  BY <1>1, <1>2, ReleaseTable
<1>4. Released(slot[h.slot]) \in Request
  BY <1>2, RequestType, ReleasedType DEF IInv
<1>5. Shape(call, ticked, clc.base, slot')
  <2>1. \A k \in 1 .. Len(call) :
          ~(IsCallback(call[k]) /\ call[k].by = "tick" /\ call[k].h.slot = h.slot)
    BY <1>1, HeldOwner
  <2> QED
    BY <1>1, <1>2, <1>4, <2>1, KeptElsewhere DEF IInv, TypeOK
<1>6. TypeOK'
  BY <1>1, <1>3 DEF IInv, TypeOK
<1> QED
  BY <1>1, <1>3, <1>5, <1>6 DEF IInv

LEMMA AppSendStep ==
    ASSUME IInv, NEW h \in held, NEW remote \in BOOLEAN, NEW reuse \in BOOLEAN,
           NEW cb \in {"none", "app"}, AppSend(h, remote, reuse, cb)
    PROVE  IInv'
<1> DEFINE i == h.slot
           r == [slot[i] EXCEPT !.remote = remote, !.reuse = reuse, !.cb = cb]
<1>1. /\ Live(h)
      /\ InCallback(h) => cb = "app"
      /\ slot[i].frame = 0 \/ budget.request > 0
      /\ UNCHANGED <<flags, clc, info, ticked, call>>
  BY DEF AppSend
<1>2. PICK ok \in BOOLEAN :
        /\ Write(ok)
        /\ slot' = [slot EXCEPT ![i] = Sent(r, ok)]
        /\ Transmit(i, r, ok)
        /\ budget' = IF slot[i].frame = 0 THEN Spend(ok)
                     ELSE [Spend(ok) EXCEPT !.request = @ - 1]
        /\ held' = IF ok /\ cb = "none" /\ ~reuse THEN held \ {h} ELSE held
  BY DEF AppSend
<1>3. TypeOK /\ i \in Slots
  BY DEF IInv, TypeOK, Handle
<1>4. /\ r \in Request /\ r.dev = slot[i].dev /\ r.dev \in Dev /\ r.seq = slot[i].seq
      /\ r.cb = cb
  <2>1. slot[i] \in Request /\ slot[i].dev \in Dev /\ cb \in Callback
    BY <1>1, <1>3, RequestType DEF Callback, Live
  <2> HIDE DEF i
  <2> QED
    BY <2>1 DEF Request
<1> HIDE DEF i, r
<1>5. /\ Sent(r, ok) \in Request
      /\ cb = "app" => /\ Sent(r, ok).dev = r.dev /\ Sent(r, ok).seq = r.seq
                       /\ Sent(r, ok).cb = "app"
      /\ Sent(r, ok).cb # "list"
  BY <1>3, <1>4, SentType
<1>6. /\ slot' \in [Slots -> Request] /\ slot'[i] = Sent(r, ok)
      /\ \A j \in Slots : j # i => slot'[j] = slot[j]
  BY <1>2, <1>3, <1>5, WriteSlot
<1>7. budget' \in [request : 0 .. MaxRequest, event : 0 .. MaxEvent, fail : 0 .. MaxFail]
  <2>1. /\ Spend(ok) \in [request : 0 .. MaxRequest, event : 0 .. MaxEvent, fail : 0 .. MaxFail]
        /\ Spend(ok).request = budget.request
    BY <1>2, <1>3, SpendType
  <2>2. CASE slot[i].frame = 0
    BY <1>2, <2>1, <2>2
  <2>3. CASE slot[i].frame # 0
    <3>1. budget.request \in 0 .. MaxRequest /\ MaxRequest \in Nat /\ budget.request > 0
      BY <1>1, <1>3, <2>3, AtAssumption DEF TypeOK
    <3>2. budget.request - 1 \in 0 .. MaxRequest
      BY <3>1
    <3> QED
      BY <1>2, <2>1, <2>3, <3>2
  <2> QED
    BY <2>2, <2>3
<1>8. frameId' \in [Dev -> 0 .. FrameMax] /\ air' \subseteq Response
  BY <1>2, <1>3, <1>4, TransmitType
<1>9. held' \subseteq held
  BY <1>2
<1>10. TypeOK'
  BY <1>1, <1>3, <1>6, <1>7, <1>8, <1>9 DEF TypeOK
<1>11. ListBased'
  BY <1>1, <1>5, <1>6 DEF IInv, ListBased
<1>12. AppHolds'
  <2> SUFFICES ASSUME NEW g \in held', Live(g)' PROVE slot'[g.slot].cb # "list"
    BY DEF AppHolds
  <2>1. g \in held /\ g.slot \in Slots
    BY <1>3, <1>9 DEF TypeOK, Handle
  <2>2. CASE g.slot = i
    BY <1>5, <1>6, <2>2
  <2>3. CASE g.slot # i
    BY <1>6, <2>1, <2>3 DEF IInv, AppHolds, Live, Resolves
  <2> QED
    BY <2>2, <2>3
<1>13. Shape(call, ticked, clc.base, slot')
  <2>1. ASSUME NEW k \in 1 .. Len(call), IsCallback(call[k]), call[k].by = "tick",
               call[k].h.slot = i
        PROVE  Owns(call[k], slot')
    <3>1. call[k].fn = "appcb" /\ InCallback(h) /\ Owns(call[k], slot)
      BY <1>1, <2>1, HeldOwner DEF i
    <3>2. cb = "app"
      BY <1>1, <3>1
    <3> QED
      BY <1>4, <1>5, <1>6, <2>1, <3>1, <3>2 DEF Owns
  <2> QED
    BY <1>2, <1>3, <1>5, <2>1, KeptElsewhere DEF IInv, TypeOK
<1> QED
  BY <1>1, <1>10, <1>11, <1>12, <1>13 DEF IInv
-----------------------------------------------------------------------------
(* A create finds a free slot *)

LEMMA FreeSlotOwner ==
    ASSUME IInv, NEW stack \in Seq(Activation), Shape(stack, ticked, clc.base, slot),
           NEW i \in Slots, slot[i].dev = NULL, NEW r \in Request,
           slot' = [slot EXCEPT ![i] = r]
    PROVE  Shape(stack, ticked, clc.base, slot')
<1>1. \A k \in 1 .. Len(stack) :
        ~(IsCallback(stack[k]) /\ stack[k].by = "tick" /\ stack[k].h.slot = i)
  BY DEF Shape, Kept, Owns
<1> QED
  BY <1>1, KeptElsewhere

\* The slot a create takes is given up by whoever held it a long time ago, or
\* becomes the application's.
LEMMA TakeSlot ==
    ASSUME IInv, NEW i \in Slots, slot[i].dev = NULL, NEW r \in Request,
           slot' = [slot EXCEPT ![i] = r], r.seq = slot[i].seq, UNCHANGED clc,
           r.cb = "list" => clc.base # NULL,
           held' \subseteq held \cup {HandleOf(i)},
           r.cb = "list" => held' \subseteq held \ {HandleOf(i)}
    PROVE  slot' \in [Slots -> Request] /\ held' \subseteq Handle /\ ListBased' /\ AppHolds'
<1>1. /\ slot' \in [Slots -> Request] /\ slot'[i] = r
      /\ \A j \in Slots : j # i => slot'[j] = slot[j]
  BY WriteSlot
<1>2. held \subseteq Handle /\ HandleOf(i) \in Handle
  BY RequestType DEF IInv, TypeOK
<1>3. ListBased'
  BY <1>1 DEF IInv, ListBased
<1>4. ASSUME NEW h \in held', Live(h)' PROVE slot'[h.slot].cb # "list"
  <2>1. h \in Handle
    BY <1>2
  <2>2. CASE h.slot = i
    <3>1. h.seq = slot[i].seq
      BY <1>1, <1>4, <2>2 DEF Live, Resolves
    <3>2. h = HandleOf(i)
      BY <2>1, <2>2, <3>1 DEF Handle, HandleOf
    <3> QED
      BY <1>1, <2>2, <3>2
  <2>3. CASE h.slot # i
    <3>1. h \in held /\ h.slot \in Slots
      BY <2>1, <2>3 DEF HandleOf, Handle
    <3> QED
      BY <1>1, <1>4, <2>3, <3>1 DEF IInv, AppHolds, Live, Resolves
  <2> QED
    BY <2>2, <2>3
<1>5. AppHolds'
  BY <1>4 DEF AppHolds
<1> QED
  BY <1>1, <1>2, <1>3, <1>5

LEMMA ExecuteListStep ==
    ASSUME IInv, call # <<>>, Top.fn = "create", Top.for = "query", call' = Below,
           UNCHANGED <<clc, info, ticked>>,
           NEW i \in Slots, slot[i].dev = NULL,
           NEW ok \in BOOLEAN, ExecuteList(Top.dev, i, Top.start, ok)
    PROVE  IInv'
<1> DEFINE d == Top.dev
           r == [Created(i, d, List[Top.start]) EXCEPT !.cb = "list"]
<1>1. /\ TypeOK /\ Below \in Seq(Activation) /\ Top \in Activation
      /\ Shape(Below, ticked, clc.base, slot)
  BY BelowShape DEF IInv
<1>2. d \in Dev /\ List[Top.start] \in Cmd
  BY <1>1, ActivationFields, ConstantTypes
<1>3. clc.base # NULL
  <2>1. Len(call) \in 1 .. Len(call)
    BY <1>1, StackPop DEF TypeOK
  <2> QED
    BY <2>1 DEF IInv, Shape, Asked, Top
<1>4. /\ r \in Request /\ r.dev = d /\ r.cb = "list" /\ r.seq = slot[i].seq
  <2> DEFINE c == Created(i, d, List[Top.start])
  <2>1. c \in Request /\ c.dev = d /\ c.seq = slot[i].seq
    BY <1>1, <1>2, CreatedType
  <2> HIDE DEF c
  <2>2. r = [c EXCEPT !.cb = "list"]
    BY DEF c
  <2> QED
    BY <2>1, <2>2 DEF Request, Callback
<1>5. /\ Write(ok) /\ slot' = [slot EXCEPT ![i] = Sent(r, ok)]
      /\ Transmit(i, r, ok) /\ budget' = Spend(ok)
      /\ held' = held \ {HandleOf(i)}
  BY DEF ExecuteList
<1>6. flags' \in [Dev -> SUBSET Flag]
  <2>1. flags[d] \in SUBSET Flag
    BY <1>1, <1>2 DEF TypeOK
  <2> HIDE DEF d
  <2>2. (flags[d] \cup {"QUERY_BEGIN", "QUERY_INPROGRESS"})
           \ {"QUERY_ERROR", "QUERY_DONE", "QUERY_REFRESH"} \in SUBSET Flag
    BY <2>1 DEF Flag
  <2> QED
    BY <1>1, <2>2 DEF ExecuteList, TypeOK, d
<1> HIDE DEF r, d
<1>7. Sent(r, ok) \in Request /\ Sent(r, ok).seq = slot[i].seq
  BY <1>1, <1>2, <1>4, SentType
<1>8. slot' \in [Slots -> Request] /\ held' \subseteq Handle /\ ListBased' /\ AppHolds'
  BY <1>3, <1>5, <1>7, TakeSlot
<1>9. frameId' \in [Dev -> 0 .. FrameMax] /\ air' \subseteq Response
  BY <1>1, <1>2, <1>4, <1>5, TransmitType
<1>10. budget' \in [request : 0 .. MaxRequest, event : 0 .. MaxEvent, fail : 0 .. MaxFail]
  BY <1>1, <1>5, SpendType
<1>11. Shape(Below, ticked, clc.base, slot')
  BY <1>1, <1>5, <1>7, FreeSlotOwner
<1>12. TypeOK'
  BY <1>1, <1>6, <1>8, <1>9, <1>10 DEF TypeOK
<1> QED
  BY <1>8, <1>11, <1>12 DEF IInv

LEMMA CreateInFreeSlotStep ==
    ASSUME IInv, CreateInFreeSlot
    PROVE  IInv'
<1> DEFINE i == FirstOf(FreeSlots)
<1>1. /\ call # <<>> /\ Top.fn = "create" /\ FreeSlots # {} /\ call' = Below
      /\ UNCHANGED <<clc, info, ticked>>
  BY DEF CreateInFreeSlot, Creating, TopIs
<1>2. i \in Slots /\ slot[i].dev = NULL
  <2>1. FreeSlots \in SUBSET Slots
    BY DEF FreeSlots
  <2>2. FirstOf(FreeSlots) \in FreeSlots
    BY <1>1, <2>1, FirstSlot
  <2> QED
    BY <2>2 DEF FreeSlots
<1>3. CASE Top.for = "query"
  <2>1. PICK ok \in BOOLEAN : ExecuteList(Top.dev, i, Top.start, ok)
    BY <1>3 DEF CreateInFreeSlot
  <2> HIDE DEF i
  <2> QED
    BY <1>1, <1>2, <1>3, <2>1, ExecuteListStep
<1>4. CASE Top.for # "query"
  <2>1. PICK c \in AppCmd :
          /\ slot' = [slot EXCEPT ![i] = Created(i, Top.dev, c)]
          /\ held' = held \cup {HandleOf(i)}
          /\ UNCHANGED <<flags, frameId, air, budget>>
    BY <1>4 DEF CreateInFreeSlot
  <2> HIDE DEF i
  <2>2. /\ TypeOK /\ Below \in Seq(Activation) /\ Top \in Activation
        /\ Shape(Below, ticked, clc.base, slot)
    BY <1>1, BelowShape DEF IInv
  <2>3. Top.dev \in Dev /\ c \in Cmd
    BY <1>1, <2>2, ActivationFields, ConstantTypes
  <2>4. /\ Created(i, Top.dev, c) \in Request /\ Created(i, Top.dev, c).cb = "none"
        /\ Created(i, Top.dev, c).seq = slot[i].seq
    BY <1>2, <2>2, <2>3, CreatedType
  <2>5. slot' \in [Slots -> Request] /\ held' \subseteq Handle /\ ListBased' /\ AppHolds'
    BY <1>1, <1>2, <2>1, <2>4, TakeSlot
  <2>6. Shape(Below, ticked, clc.base, slot')
    BY <1>2, <2>1, <2>2, <2>4, FreeSlotOwner
  <2>7. TypeOK'
    BY <1>1, <2>1, <2>2, <2>5 DEF TypeOK
  <2> QED
    BY <1>1, <2>5, <2>6, <2>7 DEF IInv
<1> QED
  BY <1>3, <1>4
-----------------------------------------------------------------------------
(* The list, and the tick *)

\* A request of the list has a context to store through.
LEMMA ListBase ==
    ASSUME IInv, NEW i \in Slots, slot[i].cb = "list"
    PROVE  clc.base \in Dev
<1> QED
  BY DEF IInv, ListBased, TypeOK, Context

\* The list callback is called, and above it the query if a refresh is due.
LEMMA EndQueryCalls ==
    ASSUME TypeOK, clc.base \in Dev, NEW rest \in Seq(Activation), NEW a \in Activation,
           NEW failed \in BOOLEAN, EndQuery(rest, a, failed)
    PROVE  /\ \E missing \in BOOLEAN :
                flags' = [flags EXCEPT ![clc.base] = QueryEnded(clc.base, failed, missing)]
           /\ \/ call' = Append(rest, a)
              \/ call' = Append(Append(rest, a), QueryCall(clc.base, TRUE))
<1> DEFINE d == clc.base
           q == QueryCall(d, TRUE)
<1>1. PICK missing \in BOOLEAN :
        LET fs == QueryEnded(d, failed, missing)
        IN  /\ flags' = [flags EXCEPT ![d] = fs]
            /\ call' = rest \o (IF "QUERY_REFRESH" \in fs THEN <<a, q>> ELSE <<a>>)
  BY DEF EndQuery
<1>2. q \in Activation
  BY QueryCallType
<1> HIDE DEF d, q
<1>3. call' = Append(rest, a) \/ call' = Append(Append(rest, a), q)
  <2>1. Append(rest, a) = rest \o <<a>>
    BY AppendIsConcat
  <2>2. Append(Append(rest, a), q) = (rest \o <<a>>) \o <<q>>
    BY <1>2, <2>1, AppendIsConcat
  <2>3. <<a>> \in Seq(Activation) /\ <<q>> \in Seq(Activation) /\ <<a>> \o <<q>> = <<a, q>>
    <3>1. <<a>> \in Seq(Activation)
      OBVIOUS
    <3>2. <<q>> \in Seq(Activation)
      BY <1>2
    <3>3. <<a>> \o <<q>> = <<a, q>>
      <4> DEFINE s == <<a>> \o <<q>>
      <4>1. /\ s \in Seq(Activation) /\ Len(s) = 2
            /\ \A k \in 1 .. 2 : s[k] = IF k <= 1 THEN <<a>>[k] ELSE <<q>>[k - 1]
        BY <3>1, <3>2, ConcatProperties
      <4>2. s[1] = a /\ s[2] = q
        BY <4>1
      <4>3. <<a, q>> \in Seq(Activation)
        BY <1>2
      <4> HIDE DEF s
      <4>4. \A k \in 1 .. Len(s) : s[k] = <<a, q>>[k]
        BY <4>1, <4>2
      <4> QED
        BY <4>1, <4>3, <4>4, SeqEqual DEF s
    <3> QED
      BY <3>1, <3>2, <3>3
  <2>4. (rest \o <<a>>) \o <<q>> = rest \o <<a, q>>
    BY <2>3, ConcatAssociative
  <2> QED
    BY <1>1, <2>1, <2>2, <2>4
<1> QED
  BY <1>1, <1>3 DEF d, q

LEMMA EndQueryShape ==
    ASSUME TypeOK, clc.base \in Dev, NEW rest \in Seq(Activation), NEW a \in Activation,
           Append(rest, a) \in Seq(Activation),
           Shape(Append(rest, a), ticked, clc.base, slot),
           NEW failed \in BOOLEAN, EndQuery(rest, a, failed)
    PROVE  /\ flags' \in [Dev -> SUBSET Flag]
           /\ call' \in Seq(Activation) /\ Shape(call', ticked, clc.base, slot)
<1> DEFINE d == clc.base
           q == QueryCall(d, TRUE)
<1>1. PICK missing \in BOOLEAN : flags' = [flags EXCEPT ![d] = QueryEnded(d, failed, missing)]
  BY EndQueryCalls
<1>2. q \in Activation /\ q.fn = "query"
  BY QueryCallType
<1>3. flags[d] \in SUBSET Flag
  BY DEF TypeOK
<1>4. QueryEnded(d, failed, missing) \in SUBSET Flag
  BY <1>3 DEF QueryEnded, Flag
<1> HIDE DEF d, q
<1>5. flags' \in [Dev -> SUBSET Flag]
  BY <1>1, <1>4 DEF TypeOK, d
<1>6. call' = Append(rest, a) \/ call' = Append(Append(rest, a), q)
  BY EndQueryCalls DEF d, q
<1>7. call' \in Seq(Activation) /\ Shape(call', ticked, clc.base, slot)
  BY <1>2, <1>6, PushShape DEF IsCallback
<1> QED
  BY <1>5, <1>7

LEMMA TickEndsStep ==
    ASSUME IInv, TickEnds
    PROVE  IInv'
<1> QED
  BY ReturnStep DEF TickEnds, TopIs

LEMMA TickExpiresStep ==
    ASSUME IInv, TickExpires
    PROVE  IInv'
<1> DEFINE i == FirstOf(Expired)
           rest == Append(Below, TickCall(i + 1))
<1>1. /\ call # <<>> /\ Top.fn = "tick" /\ Expired # {} /\ TypeOK
      /\ UNCHANGED <<frameId, info, ticked, held, air, budget>>
  BY DEF TickExpires, TopIs, IInv
<1>2. i \in Slots /\ slot[i].dev # NULL
  <2>1. Expired \in SUBSET Slots
    BY DEF Expired
  <2>2. FirstOf(Expired) \in Expired
    BY <1>1, <2>1, FirstSlot
  <2> QED
    BY <2>2 DEF Expired
<1> HIDE DEF i
<1>3. slot[i].dev \in Dev /\ HandleOf(i) \in Handle
  BY <1>1, <1>2, RequestType
<1>4. /\ Below \in Seq(Activation) /\ Shape(Below, ticked, clc.base, slot)
      /\ ticked /\ \A k \in 1 .. Len(Below) : Below[k].fn # "tick"
      /\ \A k \in 1 .. Len(Below) : ~(IsCallback(Below[k]) /\ Below[k].by = "tick")
  BY <1>1, BelowShape, TickAlone, NoOwnerBelow
<1>5. i + 1 \in 0 .. N
  BY <1>2, ConstantTypes DEF Slots
<1>6. /\ TickCall(i + 1) \in Activation /\ TickCall(i + 1).fn = "tick"
      /\ ~IsCallback(TickCall(i + 1))
  BY <1>5, TickCallType
<1>7. /\ rest \in Seq(Activation) /\ Shape(rest, ticked, clc.base, slot)
      /\ rest # <<>> /\ rest[Len(rest)].fn = "tick"
      /\ \A k \in 1 .. Len(rest) : ~(IsCallback(rest[k]) /\ rest[k].by = "tick")
  <2> DEFINE t == TickCall(i + 1)
  <2>1. /\ rest # <<>> /\ Len(rest) = Len(Below) + 1 /\ rest[Len(Below) + 1] = t
        /\ \A k \in 1 .. Len(Below) : rest[k] = Below[k]
    BY <1>4, <1>6, AppendProperties
  <2>2. rest \in Seq(Activation) /\ Shape(rest, ticked, clc.base, slot)
    BY <1>4, <1>6, PushShape DEF IsCallback
  <2>3. Len(Below) \in Nat
    BY <1>4, LenProperties
  <2> HIDE DEF rest, t
  <2>4. ASSUME NEW k \in 1 .. Len(rest) PROVE ~(IsCallback(rest[k]) /\ rest[k].by = "tick")
    <3>1. k \in 1 .. Len(Below) \/ rest[k] = t
      BY <2>1, <2>3
    <3> QED
      BY <1>4, <1>6, <2>1, <3>1 DEF t
  <2> QED
    BY <1>6, <2>1, <2>2, <2>4 DEF t
<1>8. \/ /\ slot[i].cb = "none"
         /\ TickReleases(i, rest)
         /\ UNCHANGED <<flags, clc>>
      \/ /\ slot[i].cb = "app"
         /\ TellApp(i, rest)
         /\ UNCHANGED <<flags, clc>>
      \/ /\ slot[i].cb = "list"
         /\ clc' = [clc EXCEPT !.status = "TIMEOUT"]
         /\ EndQuery(rest, CallbackCall("listcb", i, HandleOf(i), "tick"), TRUE)
         /\ UNCHANGED slot
  BY DEF TickExpires, i
<1> HIDE DEF rest
<1>9. CASE /\ slot[i].cb = "none" /\ TickReleases(i, rest)
           /\ UNCHANGED <<flags, clc>>
  BY <1>1, <1>2, <1>3, <1>7, <1>9, TickReleasesStep
<1>10. CASE /\ slot[i].cb = "app" /\ TellApp(i, rest)
            /\ UNCHANGED <<flags, clc>>
  <2> DEFINE a == CallbackCall("appcb", i, HandleOf(i), "tick")
  <2>1. /\ a \in Activation /\ a.fn = "appcb" /\ a.by = "tick" /\ a.h = HandleOf(i)
    BY <1>1, <1>2, <1>3, CallbackCallType
  <2>2. Owns(a, slot)
    BY <1>2, <1>10, <2>1 DEF Owns, HandleOf
  <2>3. call' = Append(rest, a) /\ UNCHANGED slot
    BY <1>10 DEF TellApp
  <2> HIDE DEF a
  <2>4. call' \in Seq(Activation) /\ Shape(call', ticked, clc.base, slot)
    BY <1>7, <2>1, <2>2, <2>3, PushShape
  <2>5. TypeOK'
    BY <1>1, <1>10, <2>3, <2>4 DEF TypeOK
  <2> QED
    BY <1>1, <1>10, <2>3, <2>4, <2>5, SameTable DEF IInv
<1>11. CASE /\ slot[i].cb = "list" /\ clc' = [clc EXCEPT !.status = "TIMEOUT"]
            /\ EndQuery(rest, CallbackCall("listcb", i, HandleOf(i), "tick"), TRUE)
            /\ UNCHANGED slot
  <2> DEFINE a == CallbackCall("listcb", i, HandleOf(i), "tick")
  <2>1. /\ a \in Activation /\ a.fn = "listcb" /\ a.by = "tick" /\ a.h = HandleOf(i)
    BY <1>1, <1>2, <1>3, CallbackCallType
  <2>2. Owns(a, slot)
    BY <1>2, <1>11, <2>1 DEF Owns, HandleOf
  <2>3. EndQuery(rest, a, TRUE)
    BY <1>11
  <2>4. clc.base \in Dev
    BY <1>2, <1>11, ListBase
  <2> HIDE DEF a
  <2>5. Append(rest, a) \in Seq(Activation) /\ Shape(Append(rest, a), ticked, clc.base, slot)
    BY <1>7, <2>1, <2>2, PushShape
  <2>6. /\ flags' \in [Dev -> SUBSET Flag]
        /\ call' \in Seq(Activation) /\ Shape(call', ticked, clc.base, slot)
    BY <1>1, <2>1, <2>3, <2>4, <2>5, <1>7, EndQueryShape
  <2>7. clc' \in Context /\ clc'.base = clc.base
    BY <1>1, <1>11 DEF TypeOK, Context
  <2>8. TypeOK'
    BY <1>1, <1>11, <2>6, <2>7 DEF TypeOK
  <2> QED
    BY <1>1, <1>11, <2>6, <2>7, <2>8, SameTable DEF IInv
<1> QED
  BY <1>8, <1>9, <1>10, <1>11
-----------------------------------------------------------------------------
(* Responses *)

LEMMA MatchedSlot ==
    ASSUME IInv, NEW a \in air, Matches(a) # {}
    PROVE  /\ FirstOf(Matches(a)) \in Slots /\ a \in Response
           /\ slot[FirstOf(Matches(a))].dev = a.dev
<1>1. Matches(a) \in SUBSET Slots
  BY DEF Matches
<1>2. FirstOf(Matches(a)) \in Matches(a)
  BY <1>1, FirstSlot
<1> QED
  BY <1>2 DEF Matches, IInv, TypeOK

\* A handler that calls a callback from the main loop.
LEMMA CalledFirst ==
    ASSUME NEW a \in Activation, IsCallback(a), a.by = "response", NEW base, NEW table, NEW seen
    PROVE  /\ Append(<<>>, a) = <<a>> /\ <<a>> \in Seq(Activation)
           /\ Shape(<<a>>, seen, base, table)
<1>1. <<>> \in Seq(Activation) /\ Append(<<>>, a) = <<a>>
  BY EmptySeq
<1>2. Shape(<<>>, seen, base, table)
  BY EmptyShape
<1> QED
  BY <1>1, <1>2, PushShape DEF IsCallback

LEMMA ResponseUnmatchedStep ==
    ASSUME IInv, NEW a \in air, ResponseUnmatched(a) \/ Lose(a)
    PROVE  IInv'
<1>1. /\ air' \subseteq air
      /\ UNCHANGED <<slot, flags, clc, frameId, info, ticked, call, held, budget>>
  BY DEF ResponseUnmatched, Lose
<1>2. TypeOK'
  BY <1>1 DEF IInv, TypeOK
<1> QED
  BY <1>1, <1>2, SameTable DEF IInv

LEMMA ResponseToAppStep ==
    ASSUME IInv, NEW a \in air, ResponseToApp(a)
    PROVE  IInv'
<1> DEFINE i == FirstOf(Matches(a))
           c == CallbackCall("appcb", i, a.from, "response")
<1>1. /\ Matches(a) # {} /\ call' = <<c>> /\ Consume(a) /\ TypeOK
      /\ UNCHANGED <<slot, flags, clc, frameId, info, ticked, held>>
  BY DEF ResponseToApp, IInv
<1>2. i \in Slots /\ a.from \in Handle
  BY <1>1, MatchedSlot DEF Response
<1>3. c \in Activation /\ c.fn = "appcb" /\ c.by = "response"
  BY <1>1, <1>2, CallbackCallType
<1> HIDE DEF c, i
<1>4. call' \in Seq(Activation) /\ Shape(call', ticked, clc.base, slot)
  BY <1>1, <1>3, CalledFirst DEF IsCallback
<1>5. /\ air' \subseteq air
      /\ budget' \in [request : 0 .. MaxRequest, event : 0 .. MaxEvent, fail : 0 .. MaxFail]
  <2>1. budget.event > 0 => budget.event - 1 \in 0 .. MaxEvent
    BY <1>1, AtAssumption DEF TypeOK
  <2> QED
    BY <1>1, <2>1 DEF Consume, TypeOK
<1>6. TypeOK'
  BY <1>1, <1>4, <1>5 DEF TypeOK
<1> QED
  BY <1>1, <1>4, <1>6, SameTable DEF IInv

LEMMA StoreType ==
    ASSUME TypeOK, NEW a \in Response, clc.base \in Dev, Store(a)
    PROVE  info' \in [Dev -> SUBSET Dev]
<1> QED
  BY DEF TypeOK, Store, Response

LEMMA ResponseAdvancesListStep ==
    ASSUME IInv, NEW a \in air, ResponseAdvancesList(a)
    PROVE  IInv'
<1> DEFINE i == FirstOf(Matches(a))
           r == [slot[i] EXCEPT !.cmd = List[Current + 1]]
<1>1. /\ call = <<>> /\ Matches(a) # {} /\ TypeOK
      /\ slot[i].cb = "list" /\ Current < Len(List)
      /\ Store(a)
      /\ clc' = [clc EXCEPT !.index = @ + 1]
      /\ UNCHANGED <<flags, ticked, call, held>>
  BY DEF ResponseAdvancesList, Idle, IInv
<1>2. PICK ok \in BOOLEAN :
        /\ Write(ok)
        /\ budget' = Spend(ok)
        /\ slot' = [slot EXCEPT ![i] = [Sent(r, ok) EXCEPT !.timer = ReuseTimeout]]
        /\ frameId' = [frameId EXCEPT ![a.dev] = SendFrame(r)]
        /\ air' = Airborne(i, r, air \ {a}, ok)
  BY DEF ResponseAdvancesList
<1>3. i \in Slots /\ a \in Response /\ slot[i].dev = a.dev /\ a.dev \in Dev
  BY <1>1, MatchedSlot DEF Response
<1>4. clc.base \in Dev
  BY <1>1, <1>3, ListBase
<1>5. clc' \in Context /\ clc'.base = clc.base /\ Current + 1 \in 1 .. Len(List)
  <2>1. clc.list \in 1 .. Len(List) /\ clc.index \in 0 .. Len(List) /\ Len(List) \in Nat
    BY <1>1, ConstantTypes DEF TypeOK, Context
  <2>2. clc.index + 1 \in 0 .. Len(List) /\ clc.list + clc.index + 1 \in 1 .. Len(List)
    BY <1>1, <2>1 DEF Current
  <2> QED
    BY <1>1, <2>2 DEF TypeOK, Context, Current
<1>6. /\ r \in Request /\ r.dev = a.dev /\ r.cb = "list" /\ r.seq = slot[i].seq
  <2>1. List[Current + 1] \in Cmd /\ slot[i] \in Request
    BY <1>1, <1>3, <1>5, RequestType, ConstantTypes
  <2> HIDE DEF i
  <2> QED
    BY <1>1, <1>3, <2>1 DEF Request
<1> HIDE DEF r, i
<1> DEFINE s == [Sent(r, ok) EXCEPT !.timer = ReuseTimeout]
<1>7. s \in Request /\ s.cb = "list" /\ s.seq = slot[i].seq /\ s.dev = slot[i].dev
  <2>1. /\ Sent(r, ok) \in Request /\ Sent(r, ok).dev = r.dev /\ Sent(r, ok).seq = r.seq
        /\ Sent(r, ok).cb = r.cb
    BY <1>1, <1>3, <1>6, SentType
  <2> QED
    BY <1>3, <1>6, <2>1, ConstantTypes DEF Request
<1> HIDE DEF s
<1>8. /\ slot' \in [Slots -> Request] /\ slot'[i] = s
      /\ \A j \in Slots : j # i => slot'[j] = slot[j]
  BY <1>2, <1>3, <1>7, WriteSlot DEF s
<1>9. frameId' \in [Dev -> 0 .. FrameMax] /\ air' \subseteq Response
  <2>1. air \ {a} \in SUBSET Response
    BY <1>1 DEF TypeOK
  <2>2. Airborne(i, r, air \ {a}, ok) \subseteq Response
    BY <1>1, <1>3, <1>6, <2>1, AirborneType
  <2>3. SendFrame(r) \in 0 .. FrameMax
    BY <1>1, <1>3, <1>6, SendFrameType
  <2> QED
    BY <1>1, <1>2, <2>2, <2>3 DEF TypeOK
<1>10. budget' \in [request : 0 .. MaxRequest, event : 0 .. MaxEvent, fail : 0 .. MaxFail]
  BY <1>1, <1>2, SpendType
<1>11. info' \in [Dev -> SUBSET Dev]
  BY <1>1, <1>3, <1>4, StoreType
<1>12. TypeOK'
  BY <1>1, <1>5, <1>8, <1>9, <1>10, <1>11 DEF TypeOK
<1>13. ListBased'
  BY <1>4, <1>5, ConstantTypes DEF ListBased
<1>14. AppHolds'
  <2> SUFFICES ASSUME NEW h \in held', Live(h)' PROVE slot'[h.slot].cb # "list"
    BY DEF AppHolds
  <2>1. h \in held /\ h.slot \in Slots
    BY <1>1 DEF TypeOK, Handle
  <2>2. CASE h.slot = i
    BY <1>1, <1>7, <1>8, <2>1, <2>2 DEF IInv, AppHolds, Live, Resolves
  <2>3. CASE h.slot # i
    BY <1>8, <2>1, <2>3 DEF IInv, AppHolds, Live, Resolves
  <2> QED
    BY <2>2, <2>3
<1>15. Shape(call', ticked', clc'.base, slot')
  BY <1>1, EmptyShape
<1> QED
  BY <1>12, <1>13, <1>14, <1>15 DEF IInv

LEMMA ResponseEndsListStep ==
    ASSUME IInv, NEW a \in air, ResponseEndsList(a)
    PROVE  IInv'
<1> DEFINE i == FirstOf(Matches(a))
           c == CallbackCall("listcb", i, a.from, "response")
<1>1. /\ Matches(a) # {} /\ TypeOK /\ slot[i].cb = "list" /\ air' \subseteq air
      /\ UNCHANGED <<slot, frameId, ticked, held, budget>>
  BY DEF ResponseEndsList, IInv
<1>2. \/ /\ Current = Len(List)
         /\ Store(a)
         /\ clc' = [clc EXCEPT !.index = @ + 1, !.status = "DONE"]
         /\ EndQuery(<<>>, c, FALSE)
      \/ /\ clc' = [clc EXCEPT !.status = "ERROR"]
         /\ EndQuery(<<>>, c, TRUE)
         /\ UNCHANGED info
      \/ /\ clc' = [clc EXCEPT !.status = "ERROR"]
         /\ call' = <<c>>
         /\ UNCHANGED <<flags, info>>
  BY DEF ResponseEndsList
<1>3. i \in Slots /\ a \in Response /\ a.from \in Handle
  BY <1>1, MatchedSlot DEF Response
<1>4. clc.base \in Dev
  BY <1>1, <1>3, ListBase
<1>5. c \in Activation /\ c.fn = "listcb" /\ c.by = "response"
  BY <1>1, <1>3, CallbackCallType
<1> HIDE DEF c, i
<1>6. /\ <<>> \in Seq(Activation)
      /\ Append(<<>>, c) = <<c>> /\ <<c>> \in Seq(Activation)
      /\ Shape(<<c>>, ticked, clc.base, slot)
  BY <1>5, CalledFirst, EmptySeq DEF IsCallback
<1>7. \A failed \in BOOLEAN : EndQuery(<<>>, c, failed) =>
        /\ flags' \in [Dev -> SUBSET Flag]
        /\ call' \in Seq(Activation) /\ Shape(call', ticked, clc.base, slot)
  BY <1>1, <1>4, <1>5, <1>6, EndQueryShape
<1>8. /\ flags' \in [Dev -> SUBSET Flag]
      /\ call' \in Seq(Activation) /\ Shape(call', ticked, clc.base, slot)
  BY <1>1, <1>2, <1>6, <1>7 DEF TypeOK
<1>9. info' \in [Dev -> SUBSET Dev]
  BY <1>1, <1>2, <1>3, <1>4, StoreType DEF TypeOK
<1>10. clc' \in Context /\ clc'.base = clc.base
  <2>1. clc.list \in 1 .. Len(List) /\ clc.index \in 0 .. Len(List) /\ Len(List) \in Nat
    BY <1>1, ConstantTypes DEF TypeOK, Context
  <2>2. Current = Len(List) => clc.index + 1 \in 0 .. Len(List)
    BY <2>1 DEF Current
  <2> QED
    BY <1>1, <1>2, <2>2 DEF TypeOK, Context
<1>11. TypeOK'
  BY <1>1, <1>8, <1>9, <1>10 DEF TypeOK
<1> QED
  BY <1>1, <1>8, <1>10, <1>11, SameTable DEF IInv

LEMMA SecondStep ==
    ASSUME IInv, Second
    PROVE  IInv'
<1>1. /\ call = <<>> /\ TypeOK /\ ticked' = FALSE
      /\ slot' = [i \in Slots |-> IF slot[i].timer = 0 THEN slot[i]
                                  ELSE [slot[i] EXCEPT !.timer = @ - 1]]
      /\ UNCHANGED <<flags, clc, frameId, info, call, held, air, budget>>
  BY DEF Second, Idle, IInv
<1>2. ASSUME NEW i \in Slots
      PROVE  /\ slot'[i] \in Request /\ slot'[i].cb = slot[i].cb
             /\ slot'[i].dev = slot[i].dev /\ slot'[i].seq = slot[i].seq
  <2>1. slot[i] \in Request /\ slot[i].timer \in Timer
    BY <1>1, RequestType
  <2>2. slot[i].timer # 0 => slot[i].timer - 1 \in Timer
    <3>1. LocalTimeout \in Nat /\ ReuseTimeout \in Nat /\ RemoteTimeout \in Nat
      BY AtAssumption
    <3> QED
      BY <2>1, <3>1 DEF Timer
  <2>3. slot[i].timer # 0 => [slot[i] EXCEPT !.timer = @ - 1] \in Request
    BY <2>1, <2>2 DEF Request
  <2>4. slot'[i] = IF slot[i].timer = 0 THEN slot[i] ELSE [slot[i] EXCEPT !.timer = @ - 1]
    BY <1>1
  <2>5. CASE slot[i].timer = 0
    BY <2>1, <2>4, <2>5
  <2>6. CASE slot[i].timer # 0
    BY <2>1, <2>3, <2>4, <2>6 DEF Request
  <2> QED
    BY <2>5, <2>6
<1>3. slot' \in [Slots -> Request]
  BY <1>1, <1>2
<1>4. TypeOK'
  BY <1>1, <1>3 DEF TypeOK
<1>5. ListBased'
  BY <1>1, <1>2 DEF IInv, ListBased
<1>6. \A h \in held : h.slot \in Slots
  BY <1>1 DEF TypeOK, Handle
<1>7. AppHolds'
  BY <1>1, <1>2, <1>6 DEF IInv, AppHolds, Live, Resolves
<1>8. Shape(call', ticked', clc'.base, slot')
  BY <1>1, EmptyShape
<1> QED
  BY <1>4, <1>5, <1>7, <1>8 DEF IInv
-----------------------------------------------------------------------------
(* The invariant holds, and what it implies. *)

LEMMA InitIInv == Init => IInv
<1> SUFFICES ASSUME Init PROVE IInv
  OBVIOUS
<1>1. 0 \in 0 .. SeqMod - 1
  BY ConstantTypes
<1>2. Blank(0) \in Request /\ Blank(0).cb = "none"
  BY <1>1, BlankType
<1>3. [base |-> NULL, list |-> 1, index |-> 0, status |-> "DONE"] \in Context
  BY ConstantTypes DEF Context
<1>4. <<>> \in Seq(Activation)
  BY EmptySeq
<1>5. MaxRequest \in Nat /\ MaxEvent \in Nat /\ MaxFail \in Nat /\ FrameMax \in Nat
  BY AtAssumption
<1>6. TypeOK
  BY <1>2, <1>3, <1>4, <1>5 DEF Init, TypeOK
<1>7. ListBased /\ AppHolds
  BY <1>2 DEF Init, ListBased, AppHolds
<1>8. Shape(call, ticked, clc.base, slot)
  BY EmptyShape DEF Init
<1> QED
  BY <1>6, <1>7, <1>8 DEF IInv

LEMMA StepIInv == IInv /\ [Next]_vars => IInv'
<1> SUFFICES ASSUME IInv, [Next]_vars PROVE IInv'
  OBVIOUS
<1>1. CASE Library
  <2>1. CreateFails => call # <<>> /\ call' = Below
                       /\ UNCHANGED <<slot, flags, clc, frameId, info, ticked, held, air, budget>>
    BY DEF CreateFails, Creating, TopIs
  <2> QED
    BY <1>1, <2>1, QueryDeviceStep, CreateInitsDeviceStep, CreateInFreeSlotStep,
       CreateTicksFirstStep, ReturnStep, TickEndsStep, TickExpiresStep, ListReturnsStep
       DEF Library
<1>2. CASE App
  BY <1>2, AppCreateStep, AppSendStep, AppFindsStaleStep, AppReleaseStep,
     AppReturnsDoneStep, AppReturnsReuseStep DEF App
<1>3. CASE CmdTick
  BY <1>3, CmdTickStep
<1>4. CASE Environment
  BY <1>4, ModemStatusStep, ResponseUnmatchedStep, ResponseToAppStep,
     ResponseAdvancesListStep, ResponseEndsListStep, SecondStep DEF Environment, Respond
<1>5. CASE UNCHANGED vars
  <2>1. UNCHANGED <<slot, flags, clc, frameId, info, ticked, call, held, air, budget>>
    BY <1>5 DEF vars
  <2>2. TypeOK'
    BY <2>1 DEF IInv, TypeOK
  <2> QED
    BY <2>1, <2>2, SameTable DEF IInv
<1> QED
  BY <1>1, <1>2, <1>3, <1>4, <1>5 DEF Next

\* The tick is on the stack at most once, and a callback is either the first
\* activation or right above the tick.
LEMMA ShapeBounds == IInv => NestingBounded
<1> SUFFICES ASSUME IInv PROVE NestingBounded
  OBVIOUS
<1> DEFINE T == {k \in 1 .. Len(call) : call[k].fn = "tick"}
<1>1. T \subseteq Nat /\ \A j, k \in T : j = k
  BY DEF IInv, Shape, OneTick
<1>2. PICK t \in Nat : T \subseteq {t}
  <2>1. CASE T = {}
    BY <2>1
  <2>2. CASE T # {}
    BY <1>1, <2>2
  <2> QED
    BY <2>1, <2>2
<1>3. Cardinality(T) <= 1
  <2>1. IsFiniteSet({t}) /\ Cardinality({t}) = 1
    BY FS_Singleton
  <2>2. Cardinality(T) <= Cardinality({t})
    BY <1>2, <2>1, FS_Subset
  <2> QED
    BY <2>1, <2>2
<1>4. Callbacks \subseteq {1, t + 1}
  <2> SUFFICES ASSUME NEW k \in Callbacks PROVE k \in {1, t + 1}
    OBVIOUS
  <2>1. k \in 1 .. Len(call) /\ IsCallback(call[k])
    BY DEF Callbacks, IsCallback
  <2>2. CASE k = 1
    BY <2>2
  <2>3. CASE k # 1
    <3>1. k > 1 /\ call[k - 1].fn = "tick"
      BY <2>1, <2>3 DEF IInv, Shape, Placed
    <3>2. k - 1 \in 1 .. Len(call)
      BY <2>1, <3>1, ConstantTypes, LenProperties DEF IInv, TypeOK
    <3>3. k - 1 = t
      BY <1>2, <3>1, <3>2
    <3> QED
      BY <2>1, <3>3
  <2> QED
    BY <2>2, <2>3
<1>5. Cardinality(Callbacks) <= 2
  <2>1. /\ IsFiniteSet({1}) /\ Cardinality({1}) = 1
        /\ IsFiniteSet({1, t + 1}) /\ Cardinality({1, t + 1}) <= 2
    <3>1. IsFiniteSet({1}) /\ Cardinality({1}) = 1
      BY FS_Singleton
    <3>2. /\ IsFiniteSet({1} \cup {t + 1})
          /\ Cardinality({1} \cup {t + 1}) = IF t + 1 \in {1} THEN Cardinality({1})
                                             ELSE Cardinality({1}) + 1
      BY <3>1, FS_AddElement
    <3>3. {1} \cup {t + 1} = {1, t + 1}
      OBVIOUS
    <3> QED
      BY <3>1, <3>2, <3>3
  <2>2. /\ Cardinality(Callbacks) <= Cardinality({1, t + 1})
        /\ Cardinality(Callbacks) \in Nat /\ Cardinality({1, t + 1}) \in Nat
    BY <1>4, <2>1, FS_Subset, FS_CardinalityType
  <2> QED
    BY <2>1, <2>2
<1> QED
  BY <1>3, <1>5 DEF NestingBounded

\* The request table, the query flags and the list context stay what
\* xbee_atcmd.c declares them to be, whatever callbacks do.
THEOREM TypeCorrect == Spec => []TypeOK
<1>1. IInv => TypeOK
  BY DEF IInv
<1> QED
  BY InitIInv, StepIInv, <1>1, PTL DEF Spec

\* xbee_cmd_tick() is not entered again from a callback it runs, and callbacks
\* nest at most two deep, for tables, lists and timeouts of any size.
THEOREM NestingBoundedHolds == Spec => []NestingBounded
<1> QED
  BY InitIInv, StepIInv, ShapeBounds, PTL DEF Spec

\* While the callback of a request that expired runs, its slot is not given away:
\* what xbee_cmd_tick() releases afterwards is that request.  (CallbackKeepsSlot
\* says the same of the callbacks of responses too, and is not true of a full table.)
ExpiryKeepsSlot == \A k \in Callbacks : call[k].by = "tick" => Live(call[k].h)

THEOREM ExpiryKeepsSlotHolds == Spec => []ExpiryKeepsSlot
<1>1. IInv => ExpiryKeepsSlot
  BY DEF IInv, Shape, Kept, Owns, IsCallback, Callbacks, ExpiryKeepsSlot, Live, Resolves
<1> QED
  BY InitIInv, StepIInv, <1>1, PTL DEF Spec
-----------------------------------------------------------------------------
(* A table with room: one module, every write accepted, no modem status before *)
(* the device is set up, and room for two requests more than the application   *)
(* holds, the one of the query that runs and the one of a query that has ended *)
(* and whose callback has not returned.                                        *)

Roomy ==
    /\ \A d, e \in Dev : d = e
    /\ MaxFail = 0 /\ ~EarlyStatus
    /\ N >= AppMax + 2

\* xbee_cmd_query_device(), or the create it waits for; a create of the application.
Asking(a) == a.fn = "query" \/ (a.fn = "create" /\ a.for = "query")
AppCreates(a) == a.fn = "create" /\ a.for = "app"

\* What b may be called above a: no create finds the table full, so that the tick
\* is called by the main loop only, and neither a callback of the list nor a create
\* of the application calls anything but the query.
CalledAbove(a, b) ==
    /\ b.fn # "tick" /\ ~Asking(a)
    /\ AppCreates(a) \/ a.fn = "listcb" => Asking(b)
    /\ IsCallback(a) => ~IsCallback(b)

Layout(stack) ==
    \A j, k \in 1 .. Len(stack) : j < k => CalledAbove(stack[j], stack[k])

Members(stack) == {stack[k] : k \in 1 .. Len(stack)}

\* The requests of the list but for one whose callback has ended the query.
Ends(i, acts) == \E a \in acts : a.fn = "listcb" /\ a.h.slot = i
Open(table, acts) == {i \in Slots : table[i].cb = "list" /\ ~Ends(i, acts)}

\* Callbacks own their slots, and every request but the list's is held.
Placing(acts, table, handles) ==
    /\ \A a \in acts : IsCallback(a) => Owns(a, table)
    /\ \A i \in Slots :
         /\ table[i].dev = NULL => table[i].cb = "none"
         /\ table[i].dev # NULL /\ table[i].cb # "list"
            => [slot |-> i, seq |-> table[i].seq] \in handles

Holding(acts, handles) ==
    /\ IsFiniteSet(handles) /\ Cardinality(handles) <= AppMax
    /\ (\E a \in acts : AppCreates(a)) => Cardinality(handles) < AppMax

\* The query in progress has one request, which waits for the register the list
\* context is at; a query that is being made has none yet.
Querying(acts, open, table, fl, ctx) ==
    \A d \in Dev :
      /\ fl[d] # {} => "CMD_INIT" \in fl[d]
      /\ "QUERY_INPROGRESS" \in fl[d] <=> open # {}
      /\ \A i, j \in open : i = j
      /\ \A i \in open :
           /\ ctx.base = d /\ ctx.list + ctx.index \in 1 .. Len(List)
           /\ table[i].cmd = List[ctx.list + ctx.index]
      /\ \A a \in acts : Asking(a) =>
           /\ "CMD_INIT" \in fl[d]
           /\ a.fn = "create" =>
                /\ open = {} /\ ctx.base = d
                /\ ctx.list = a.start /\ ctx.index = 0

RoomAt(stack, table, handles, fl, ctx) ==
    /\ Layout(stack)
    /\ Placing(Members(stack), table, handles)
    /\ Holding(Members(stack), handles)
    /\ Querying(Members(stack), Open(table, Members(stack)), table, fl, ctx)

RoomInv == RoomAt(call, slot, held, flags, clc)
-----------------------------------------------------------------------------
(* The stack of a table with room *)

\* What is on the stack when an activation is called.
LEMMA MembersPush ==
    ASSUME NEW stack \in Seq(Activation), NEW a \in Activation
    PROVE  Members(Append(stack, a)) = Members(stack) \cup {a}
<1> DEFINE n == Len(stack)
           new == Append(stack, a)
<1>1. /\ Len(new) = n + 1 /\ n \in Nat
      /\ new[n + 1] = a /\ \A k \in 1 .. n : new[k] = stack[k]
  BY AppendProperties, LenProperties
<1> HIDE DEF new
<1>2. \A k \in 1 .. Len(new) : k \in 1 .. n \/ k = n + 1
  BY <1>1
<1>3. n + 1 \in 1 .. Len(new) /\ \A k \in 1 .. n : k \in 1 .. Len(new)
  BY <1>1
<1>4. Members(new) \subseteq Members(stack) \cup {a}
  BY <1>1, <1>2 DEF Members
<1>5. Members(stack) \cup {a} \subseteq Members(new)
  BY <1>1, <1>3 DEF Members
<1> QED
  BY <1>4, <1>5 DEF new

LEMMA MembersNone == Members(<<>>) = {} /\ Layout(<<>>)
<1>1. Len(<<>>) = 0 /\ 1 .. 0 = {}
  OBVIOUS
<1> QED
  BY <1>1 DEF Members, Layout

\* The stack is its top and what is below.
LEMMA MembersTop ==
    ASSUME TypeOK, call # <<>>
    PROVE  /\ Members(call) = Members(Below) \cup {Top}
           /\ Layout(call) => /\ Layout(Below)
                              /\ \A a \in Members(Below) : CalledAbove(a, Top)
<1> DEFINE n == Len(call)
<1>1. /\ n \in Nat \ {0} /\ Len(Below) = n - 1
      /\ \A k \in 1 .. n - 1 : Below[k] = call[k]
  BY StackPop DEF TypeOK, Below
<1>2. Top = call[n]
  BY DEF Top
<1> HIDE DEF n
<1>3. \A k \in 1 .. n : k \in 1 .. n - 1 \/ k = n
  BY <1>1
<1>4. n \in 1 .. n /\ \A k \in 1 .. n - 1 : k \in 1 .. n /\ k < n
  BY <1>1
<1>5. Members(call) \subseteq Members(Below) \cup {Top}
  BY <1>1, <1>2, <1>3 DEF Members, n
<1>6. Members(Below) \cup {Top} \subseteq Members(call)
  BY <1>1, <1>2, <1>4 DEF Members, n
<1>7. ASSUME Layout(call)
      PROVE  Layout(Below) /\ \A a \in Members(Below) : CalledAbove(a, Top)
  <2>1. Layout(Below)
    BY <1>1, <1>4, <1>7 DEF Layout, n
  <2>2. \A k \in 1 .. n - 1 : CalledAbove(call[k], call[n])
    BY <1>4, <1>7 DEF Layout, n
  <2>3. \A a \in Members(Below) : \E k \in 1 .. n - 1 : a = call[k]
    BY <1>1 DEF Members
  <2> QED
    BY <1>2, <2>1, <2>2, <2>3
<1> QED
  BY <1>5, <1>6, <1>7

LEMMA LayoutPush ==
    ASSUME NEW stack \in Seq(Activation), NEW a \in Activation, Layout(stack),
           \A b \in Members(stack) : CalledAbove(b, a)
    PROVE  Layout(Append(stack, a))
<1> DEFINE n == Len(stack)
           new == Append(stack, a)
<1>1. /\ Len(new) = n + 1 /\ n \in Nat
      /\ new[n + 1] = a /\ \A k \in 1 .. n : new[k] = stack[k]
  BY AppendProperties, LenProperties
<1>2. \A k \in 1 .. n : CalledAbove(stack[k], a)
  BY DEF Members
<1> HIDE DEF new, n
<1>3. SUFFICES ASSUME NEW j \in 1 .. Len(new), NEW k \in 1 .. Len(new), j < k
               PROVE  CalledAbove(new[j], new[k])
  BY DEF Layout, new
<1>4. j \in 1 .. n /\ (k \in 1 .. n \/ k = n + 1)
  BY <1>1, <1>3
<1>5. new[j] = stack[j]
  BY <1>1, <1>4
<1>6. CASE k \in 1 .. n
  BY <1>1, <1>3, <1>4, <1>5, <1>6 DEF Layout, n
<1>7. CASE k = n + 1
  BY <1>1, <1>2, <1>4, <1>5, <1>7
<1> QED
  BY <1>4, <1>6, <1>7

\* Only the main loop calls the tick: nothing is below it.
LEMMA TickFirst ==
    ASSUME TypeOK, Layout(call), call # <<>>, Top.fn = "tick"
    PROVE  Members(Below) = {} /\ Layout(Below)
<1>1. \A a \in Members(Below) : CalledAbove(a, Top)
  BY MembersTop
<1> QED
  BY <1>1, MembersTop DEF CalledAbove

\* The members of a stack are activations.
LEMMA MembersType ==
    ASSUME TypeOK
    PROVE  Members(call) \subseteq Activation
<1> QED
  BY ElementOfSeq DEF TypeOK, Members

\* The set of open requests, when an activation is called or returns.
LEMMA OpenPush ==
    ASSUME NEW table, NEW acts, NEW a
    PROVE  /\ a.fn # "listcb" => Open(table, acts \cup {a}) = Open(table, acts)
           /\ a.fn = "listcb" => Open(table, acts \cup {a}) = Open(table, acts) \ {a.h.slot}
<1>1. \A i : Ends(i, acts \cup {a}) <=> Ends(i, acts) \/ (a.fn = "listcb" /\ a.h.slot = i)
  BY DEF Ends
<1> QED
  BY <1>1 DEF Open

\* A call returns that is no callback of the list.
LEMMA RoomReturn ==
    ASSUME TypeOK, call # <<>>, Top.fn # "listcb", RoomInv
    PROVE  RoomAt(Below, slot, held, flags, clc)
<1> DEFINE M == Members(call)
           B == Members(Below)
           O == Open(slot, B)
<1>1. M = B \cup {Top} /\ Layout(Below)
  BY MembersTop DEF RoomInv, RoomAt
<1>2. Open(slot, M) = O
  BY <1>1, OpenPush
<1>3. /\ Placing(M, slot, held) /\ Holding(M, held)
      /\ Querying(M, O, slot, flags, clc)
  BY <1>2 DEF RoomInv, RoomAt
<1> HIDE DEF M, B, O
<1>4. Placing(B, slot, held)
  BY <1>1, <1>3 DEF Placing
<1>5. Holding(B, held)
  BY <1>1, <1>3 DEF Holding
<1>6. Querying(B, O, slot, flags, clc)
  BY <1>1, <1>3 DEF Querying
<1> QED
  BY <1>1, <1>4, <1>5, <1>6 DEF RoomAt, B, O

\* The query of a device is called: above a callback of the list, a create, or the tick.
LEMMA RoomQuery ==
    ASSUME NEW stack \in Seq(Activation), NEW d \in Dev, NEW refresh \in BOOLEAN,
           NEW table, NEW handles, NEW fl, NEW ctx, RoomAt(stack, table, handles, fl, ctx),
           \A b \in Members(stack) : ~Asking(b),
           \A e \in Dev : "CMD_INIT" \in fl[e]
    PROVE  RoomAt(Append(stack, QueryCall(d, refresh)), table, handles, fl, ctx)
<1> DEFINE a == QueryCall(d, refresh)
           M == Members(stack)
           O == Open(table, M)
<1>1. a \in Activation /\ a.fn = "query"
  BY QueryCallType
<1> HIDE DEF a
<1>2. Members(Append(stack, a)) = M \cup {a}
  BY <1>1, MembersPush
<1>3. Layout(Append(stack, a))
  <2>1. \A b \in Members(stack) : CalledAbove(b, a)
    BY <1>1 DEF CalledAbove, Asking, IsCallback
  <2> QED
    BY <1>1, <2>1, LayoutPush DEF RoomAt
<1>4. Open(table, M \cup {a}) = O
  BY <1>1, OpenPush
<1>5. Placing(M, table, handles) /\ Holding(M, handles) /\ Querying(M, O, table, fl, ctx)
  BY DEF RoomAt
<1> HIDE DEF M, O
<1>6. Placing(M \cup {a}, table, handles)
  BY <1>1, <1>5 DEF Placing, IsCallback
<1>7. Holding(M \cup {a}, handles)
  BY <1>1, <1>5 DEF Holding, AppCreates
<1>8. Querying(M \cup {a}, O, table, fl, ctx)
  BY <1>1, <1>5 DEF Querying
<1> QED
  BY <1>2, <1>3, <1>4, <1>6, <1>7, <1>8 DEF RoomAt, M, a

\* Where the application runs no call of it is under way.
LEMMA AppAlone ==
    ASSUME TypeOK, Layout(call), AppRuns
    PROVE  \A b \in Members(call) : ~Asking(b) /\ ~AppCreates(b) /\ b.fn # "listcb"
<1>1. CASE call = <<>>
  BY <1>1, MembersNone
<1>2. CASE call # <<>>
  <2>1. Top.fn = "appcb"
    BY <1>2 DEF AppRuns, Idle, TopIs
  <2>2. /\ Members(call) = Members(Below) \cup {Top}
        /\ \A a \in Members(Below) : CalledAbove(a, Top)
    BY <1>2, MembersTop
  <2> QED
    BY <2>1, <2>2 DEF CalledAbove, Asking, AppCreates
<1> QED
  BY <1>1, <1>2

LEMMA AppCreateRoom ==
    ASSUME IInv, RoomInv, Roomy, NEW d \in Dev, AppCreate(d)
    PROVE  RoomInv'
<1> DEFINE a == CreateCall(d, "app", 1, FALSE)
           M == Members(call)
           O == Open(slot, M)
<1>1. /\ TypeOK /\ call \in Seq(Activation) /\ AppRuns /\ Cardinality(held) < AppMax
      /\ call' = Append(call, a) /\ UNCHANGED <<slot, flags, clc, held>>
  BY DEF AppCreate, IInv, TypeOK
<1>2. a \in Activation /\ a.fn = "create" /\ a.for = "app"
  BY CreateCallType, ConstantTypes
<1> HIDE DEF a
<1>3. \A b \in M : ~Asking(b) /\ ~AppCreates(b) /\ b.fn # "listcb"
  BY <1>1, AppAlone DEF RoomInv, RoomAt
<1>4. Members(call') = M \cup {a} /\ Layout(call')
  <2>1. \A b \in M : CalledAbove(b, a)
    BY <1>2, <1>3 DEF CalledAbove, IsCallback
  <2> QED
    BY <1>1, <1>2, <2>1, MembersPush, LayoutPush DEF RoomInv, RoomAt
<1>5. Open(slot, M \cup {a}) = O
  BY <1>2, OpenPush
<1>6. Placing(M, slot, held) /\ Holding(M, held) /\ Querying(M, O, slot, flags, clc)
  BY DEF RoomInv, RoomAt
<1> HIDE DEF M, O
<1>7. Placing(M \cup {a}, slot, held)
  BY <1>2, <1>6 DEF Placing, IsCallback
<1>8. Holding(M \cup {a}, held)
  BY <1>1, <1>6 DEF Holding
<1>9. Querying(M \cup {a}, O, slot, flags, clc)
  BY <1>2, <1>6 DEF Querying, Asking
<1> QED
  BY <1>1, <1>4, <1>5, <1>7, <1>8, <1>9 DEF RoomInv, RoomAt

\* The main loop runs with no activation.
LEMMA IdleRoom ==
    ASSUME RoomInv, call = <<>>
    PROVE  RoomAt(<<>>, slot, held, flags, clc)
<1> QED
  BY DEF RoomInv

LEMMA CmdTickRoom ==
    ASSUME IInv, RoomInv, Roomy, CmdTick
    PROVE  RoomInv'
<1> DEFINE a == TickCall(0)
           O == Open(slot, {})
<1>1. /\ call = <<>> /\ call' = Append(<<>>, a) /\ UNCHANGED <<slot, flags, clc, held>>
  BY DEF CmdTick, Idle
<1>2. a \in Activation /\ a.fn = "tick"
  BY TickCallType, ConstantTypes
<1> HIDE DEF a
<1>3. <<>> \in Seq(Activation) /\ Members(<<>>) = {} /\ Layout(<<>>)
  BY EmptySeq, MembersNone
<1>4. Members(call') = {a} /\ Layout(call')
  BY <1>1, <1>2, <1>3, MembersPush, LayoutPush
<1>5. Open(slot, {a}) = O
  <2>1. {a} = {} \cup {a} OBVIOUS
  <2> QED
    BY <1>2, <2>1, OpenPush
<1>6. Placing({}, slot, held) /\ Holding({}, held) /\ Querying({}, O, slot, flags, clc)
  BY <1>1, <1>3 DEF RoomInv, RoomAt
<1> HIDE DEF O
<1>7. Placing({a}, slot, held)
  BY <1>2, <1>6 DEF Placing, IsCallback
<1>8. Holding({a}, held)
  BY <1>2, <1>6 DEF Holding, AppCreates
<1>9. Querying({a}, O, slot, flags, clc)
  BY <1>2, <1>6 DEF Querying, Asking
<1> QED
  BY <1>1, <1>4, <1>5, <1>7, <1>8, <1>9 DEF RoomInv, RoomAt

LEMMA ModemStatusRoom ==
    ASSUME IInv, RoomInv, Roomy, NEW d \in Dev, ModemStatus(d)
    PROVE  RoomInv'
<1>1. /\ call = <<>> /\ call' = <<QueryCall(d, TRUE)>> /\ "CMD_INIT" \in flags[d]
      /\ UNCHANGED <<slot, flags, clc, held>>
  BY DEF ModemStatus, Idle, Roomy
<1>2. <<QueryCall(d, TRUE)>> = Append(<<>>, QueryCall(d, TRUE))
  OBVIOUS
<1>3. <<>> \in Seq(Activation) /\ Members(<<>>) = {}
  BY EmptySeq, MembersNone
<1>4. \A e \in Dev : "CMD_INIT" \in flags[e]
  BY <1>1 DEF Roomy
<1>5. RoomAt(<<>>, slot, held, flags, clc)
  BY <1>1 DEF RoomInv
<1>6. RoomAt(Append(<<>>, QueryCall(d, TRUE)), slot, held, flags, clc)
  BY <1>3, <1>4, <1>5, RoomQuery
<1> QED
  BY <1>1, <1>2, <1>6 DEF RoomInv

LEMMA QueryDeviceRoom ==
    ASSUME IInv, RoomInv, Roomy, QueryDevice
    PROVE  RoomInv'
<1> DEFINE d == Top.dev
           fs == IF Top.refresh THEN flags[d] \cup {"QUERY_REFRESH"} ELSE flags[d]
           start == IF Top.refresh THEN RefreshIdx ELSE 1
           a == CreateCall(d, "query", start, FALSE)
           B == Members(Below)
           O == Open(slot, B)
<1>1. /\ call # <<>> /\ Top.fn = "query" /\ TypeOK
      /\ flags' = [flags EXCEPT ![d] = fs] /\ UNCHANGED <<slot, held>>
  BY DEF QueryDevice, TopIs, IInv
<1>2. /\ Below \in Seq(Activation) /\ Top \in Activation
      /\ Members(call) = B \cup {Top}
      /\ \A b \in B : CalledAbove(b, Top)
  BY <1>1, TopTyped, MembersTop DEF RoomInv, RoomAt
<1>3. d \in Dev /\ start \in 1 .. Len(List) /\ \A e \in Dev : e = d
  <2>1. d \in Dev
    BY <1>1, <1>2, ActivationFields
  <2>2. start \in 1 .. Len(List)
    BY ConstantTypes
  <2> QED
    BY <2>1, <2>2 DEF Roomy
<1>4. "CMD_INIT" \in flags[d]
  BY <1>1, <1>2, <1>3 DEF RoomInv, RoomAt, Querying, Asking
<1>5. /\ Layout(Below) /\ Placing(B, slot, held) /\ Holding(B, held)
      /\ Querying(B, O, slot, flags, clc)
  BY <1>1, RoomReturn DEF RoomAt
<1>6. \A e \in Dev : /\ "CMD_INIT" \in flags'[e]
                     /\ "QUERY_INPROGRESS" \in flags'[e] <=> "QUERY_INPROGRESS" \in flags[e]
                     /\ "QUERY_INPROGRESS" \in fs <=> "QUERY_INPROGRESS" \in flags[e]
  BY <1>1, <1>3, <1>4 DEF TypeOK
<1>7. CASE "QUERY_INPROGRESS" \in fs
  <2>1. call' = Below /\ UNCHANGED clc
    BY <1>7 DEF QueryDevice
  <2> HIDE DEF B, O, fs, start, d, a
  <2>2. Querying(B, O, slot, flags', clc)
    BY <1>5, <1>6 DEF Querying
  <2> QED
    BY <1>1, <1>5, <2>1, <2>2 DEF RoomInv, RoomAt, B, O
<1>8. CASE "QUERY_INPROGRESS" \notin fs
  <2>1. /\ clc' = [base |-> d, list |-> start, index |-> 0, status |-> "RUNNING"]
        /\ call' = Append(Below, a)
    BY <1>8 DEF QueryDevice
  <2>2. a \in Activation /\ a.fn = "create" /\ a.for = "query" /\ a.start = start
    BY <1>3, CreateCallType DEF CreateCall
  <2>3. O = {}
    BY <1>3, <1>5, <1>6, <1>8 DEF Querying
  <2>4. clc'.base = d /\ clc'.list = start /\ clc'.index = 0
    BY <2>1
  <2>5. \A b \in B : ~Asking(b)
    BY <1>2 DEF CalledAbove
  <2> HIDE DEF B, O, fs, start, d, a
  <2>6. Members(call') = B \cup {a} /\ Layout(call')
    <3>1. \A b \in B : CalledAbove(b, a)
      BY <1>1, <1>2, <2>2 DEF CalledAbove, Asking, IsCallback
    <3> QED
      BY <1>2, <1>5, <2>1, <2>2, <3>1, MembersPush, LayoutPush DEF B
  <2>7. Open(slot, B \cup {a}) = O
    BY <2>2, OpenPush DEF O
  <2>8. Placing(B \cup {a}, slot, held)
    BY <1>5, <2>2 DEF Placing, IsCallback
  <2>9. Holding(B \cup {a}, held)
    BY <1>5, <2>2 DEF Holding, AppCreates
  <2>10. Querying(B \cup {a}, O, slot, flags', clc')
    BY <1>3, <1>5, <1>6, <2>2, <2>3, <2>4, <2>5 DEF Querying
  <2> QED
    BY <1>1, <2>6, <2>7, <2>8, <2>9, <2>10 DEF RoomInv, RoomAt
<1> QED
  BY <1>7, <1>8

LEMMA CreateInitsDeviceRoom ==
    ASSUME IInv, RoomInv, Roomy, CreateInitsDevice
    PROVE  RoomInv'
<1> DEFINE d == Top.dev
           M == Members(call)
           O == Open(slot, M)
<1>1. /\ call # <<>> /\ Top.fn = "create" /\ "CMD_INIT" \notin flags[d] /\ TypeOK
      /\ flags' = [flags EXCEPT ![d] = @ \cup {"CMD_INIT"}]
      /\ call' = IF "QUERY_BEGIN" \in flags[d] THEN call ELSE Append(call, QueryCall(d, FALSE))
      /\ UNCHANGED <<slot, clc, held>> /\ call \in Seq(Activation)
  BY DEF CreateInitsDevice, TopIs, IInv, TypeOK
<1>2. Top \in Activation /\ M = Members(Below) \cup {Top}
      /\ \A b \in Members(Below) : CalledAbove(b, Top)
  BY <1>1, TopTyped, MembersTop DEF RoomInv, RoomAt
<1>3. d \in Dev /\ (\A e \in Dev : e = d) /\ Top.for \in {"app", "query"}
  <2>1. d \in Dev /\ Top.for \in {"app", "query"}
    BY <1>1, <1>2, ActivationFields
  <2> QED
    BY <2>1 DEF Roomy
<1>4. /\ Layout(call) /\ Placing(M, slot, held) /\ Holding(M, held)
      /\ Querying(M, O, slot, flags, clc)
  BY DEF RoomInv, RoomAt
<1>5. flags[d] = {}
  BY <1>1, <1>3, <1>4 DEF Querying
<1>6. ~Asking(Top) /\ \A b \in M : ~Asking(b)
  BY <1>1, <1>2, <1>3, <1>4 DEF Querying, CalledAbove
<1>7. \A e \in Dev : flags'[e] = {"CMD_INIT"}
  BY <1>1, <1>3, <1>5 DEF TypeOK
<1>8. call' = Append(call, QueryCall(d, FALSE))
  BY <1>1, <1>5
<1> HIDE DEF d, M, O
<1>9. Querying(M, O, slot, flags', clc)
  BY <1>3, <1>4, <1>5, <1>6, <1>7 DEF Querying
<1>10. RoomAt(call, slot, held, flags', clc)
  BY <1>4, <1>9 DEF RoomAt, M, O
<1>11. RoomAt(Append(call, QueryCall(d, FALSE)), slot, held, flags', clc)
  BY <1>1, <1>3, <1>6, <1>7, <1>10, RoomQuery DEF M
<1> QED
  BY <1>1, <1>8, <1>11 DEF RoomInv

\* Callbacks do not nest.
LEMMA OneCallback ==
    ASSUME TypeOK, Layout(call), NEW a \in Members(call), NEW b \in Members(call),
           IsCallback(a), IsCallback(b)
    PROVE  a = b
<1>1. Len(call) \in Nat
  BY LenProperties DEF TypeOK
<1>2. PICK j \in 1 .. Len(call), k \in 1 .. Len(call) : a = call[j] /\ b = call[k]
  BY DEF Members
<1>3. j \in Nat /\ k \in Nat
  BY <1>1
<1>4. ~(j < k) /\ ~(k < j)
  BY <1>2 DEF Layout, CalledAbove
<1>5. j = k
  BY <1>3, <1>4
<1> QED
  BY <1>2, <1>5

\* When a create looks for a slot there is at most one request of the list: the
\* one that is open, or the one whose callback asks for another query.
LEMMA OneListed ==
    ASSUME IInv, RoomInv, Roomy, Creating, NEW i \in Slots, NEW j \in Slots,
           slot[i].cb = "list", slot[j].cb = "list"
    PROVE  i = j
<1> DEFINE M == Members(call)
           O == Open(slot, M)
<1>1. /\ TypeOK /\ call # <<>> /\ Top.fn = "create"
      /\ Layout(call) /\ Querying(M, O, slot, flags, clc)
  BY DEF IInv, RoomInv, RoomAt, Creating, TopIs
<1>2. Top \in Activation /\ Top \in M /\ M = Members(Below) \cup {Top}
      /\ \A b \in Members(Below) : CalledAbove(b, Top)
  BY <1>1, TopTyped, MembersTop
<1>3. Top.for \in {"app", "query"} /\ Top.dev \in Dev
  BY <1>1, <1>2, ActivationFields
<1>4. CASE Top.for = "app"
  <2>1. \A b \in M : b.fn # "listcb"
    BY <1>1, <1>2, <1>4 DEF CalledAbove, Asking
  <2>2. i \in O /\ j \in O
    BY <2>1 DEF Open, Ends
  <2> QED
    BY <1>1, <1>3, <2>2 DEF Querying
<1>5. CASE Top.for = "query"
  <2>1. O = {}
    BY <1>1, <1>2, <1>3, <1>5 DEF Querying, Asking
  <2>2. Ends(i, M) /\ Ends(j, M)
    BY <2>1 DEF Open
  <2>3. PICK a \in M : a.fn = "listcb" /\ a.h.slot = i
    BY <2>2 DEF Ends
  <2>4. PICK b \in M : b.fn = "listcb" /\ b.h.slot = j
    BY <2>2 DEF Ends
  <2>5. a = b
    BY <1>1, <2>3, <2>4, OneCallback DEF IsCallback
  <2> QED
    BY <2>3, <2>4, <2>5
<1> QED
  BY <1>3, <1>4, <1>5

\* A create finds a free slot: there are more slots than handles of the
\* application and one request of the list.
LEMMA FindsSlot ==
    ASSUME IInv, RoomInv, Roomy, Creating
    PROVE  FreeSlots # {}
<1>1. SUFFICES ASSUME FreeSlots = {} PROVE FALSE
  OBVIOUS
<1> DEFINE none == [slot |-> -1, seq |-> 0]
           H == held \cup {none}
           f == [i \in Slots |-> IF slot[i].cb = "list" THEN none ELSE HandleOf(i)]
<1>2. /\ held \subseteq Handle /\ Placing(Members(call), slot, held)
      /\ IsFiniteSet(held) /\ Cardinality(held) <= AppMax
  BY DEF IInv, TypeOK, RoomInv, RoomAt, Holding
<1>3. none \notin held
  <2>1. -1 \notin Slots
    BY ConstantTypes DEF Slots
  <2> QED
    BY <1>2, <2>1 DEF Handle
<1>4. \A i \in Slots : slot[i].dev # NULL
  BY <1>1 DEF FreeSlots
<1>5. \A i \in Slots : slot[i].cb # "list" => HandleOf(i) \in held
  BY <1>2, <1>4 DEF Placing, HandleOf
<1>6. f \in [Slots -> H]
  BY <1>5
<1>7. /\ IsFiniteSet(H) /\ Cardinality(H) < Cardinality(Slots) /\ IsFiniteSet(Slots)
  <2>1. IsFiniteSet(H) /\ Cardinality(H) = Cardinality(held) + 1
    BY <1>2, <1>3, FS_AddElement
  <2>2. IsFiniteSet(Slots) /\ Cardinality(Slots) = N
    <3>1. N - 1 \in Int /\ 0 \in Int /\ N \in Nat \ {0}
      BY ConstantTypes
    <3>2. IsFiniteSet(0 .. N - 1) /\ Cardinality(0 .. N - 1) = IF 0 > N - 1 THEN 0 ELSE N - 1 - 0 + 1
      BY <3>1, FS_Interval
    <3>3. Cardinality(0 .. N - 1) = N
      BY <3>1, <3>2
    <3> QED
      BY <3>2, <3>3 DEF Slots
  <2>3. Cardinality(held) \in Nat /\ AppMax \in Nat /\ N \in Nat /\ N >= AppMax + 2
    BY <1>2, FS_CardinalityType, AtAssumption DEF Roomy
  <2> QED
    BY <1>2, <2>1, <2>2, <2>3
<1>8. PICK i \in Slots, j \in Slots : i # j /\ f[i] = f[j]
  <2> HIDE DEF f, H
  <2> QED
    BY <1>6, <1>7, FS_PigeonHole
<1>9. CASE slot[i].cb = "list" /\ slot[j].cb = "list"
  BY <1>8, <1>9, OneListed
<1>10. CASE slot[i].cb # "list" /\ slot[j].cb # "list"
  BY <1>8, <1>10 DEF HandleOf
<1>11. CASE slot[i].cb = "list" /\ slot[j].cb # "list"
  <2>1. HandleOf(j) = none
    BY <1>8, <1>11
  <2> QED
    BY <1>3, <1>5, <1>11, <2>1
<1>12. CASE slot[i].cb # "list" /\ slot[j].cb = "list"
  <2>1. HandleOf(i) = none
    BY <1>8, <1>12
  <2> QED
    BY <1>3, <1>5, <1>12, <2>1
<1> QED
  BY <1>9, <1>10, <1>11, <1>12

LEMMA CreateSucceeds ==
    ASSUME IInv, RoomInv, Roomy, CreateTicksFirst \/ CreateFails
    PROVE  RoomInv'
<1> QED
  BY FindsSlot DEF CreateTicksFirst, CreateFails

\* A free slot is no callback's and not the list's.
LEMMA FreeIsNobodys ==
    ASSUME NEW acts, NEW table, NEW handles, Placing(acts, table, handles),
           NEW i \in Slots, table[i].dev = NULL
    PROVE  /\ table[i].cb = "none" /\ ~Ends(i, acts)
           /\ \A a \in acts : IsCallback(a) => a.h.slot # i
<1> QED
  BY DEF Placing, Owns, Ends, IsCallback

\* A request that keeps a callback keeps its command when it is sent.
LEMMA SentCommand ==
    ASSUME TypeOK, NEW r \in Request, r.dev \in Dev, NEW ok, r.cb # "none"
    PROVE  Sent(r, ok).cmd = r.cmd
<1> DEFINE s == [r EXCEPT !.frame = SendFrame(r)]
<1>1. s.frame = SendFrame(r) /\ s.cmd = r.cmd /\ s \in Request
  BY SendFrameType DEF Request
<1>2. s.frame # 0
  BY <1>1, SendFrameType
<1> HIDE DEF s
<1>3. Sent(r, ok) = IF ok /\ s.frame # 0
                    THEN [s EXCEPT !.timer = IF r.remote THEN RemoteTimeout ELSE LocalTimeout]
                    ELSE IF ok /\ ~r.reuse THEN Released(s) ELSE s
  BY DEF Sent, s
<1>4. [s EXCEPT !.timer = IF r.remote THEN RemoteTimeout ELSE LocalTimeout].cmd = s.cmd
  BY <1>1 DEF Request
<1> QED
  BY <1>1, <1>2, <1>3, <1>4

\* Every write is accepted.
LEMMA Accepted ==
    ASSUME TypeOK, Roomy, NEW ok \in BOOLEAN, Write(ok)
    PROVE  ok
<1>1. budget.fail \in 0 .. MaxFail /\ MaxFail = 0
  BY DEF TypeOK, Roomy
<1>2. budget.fail = 0
  BY <1>1
<1> QED
  BY <1>2 DEF Write

LEMMA ExecuteListRoom ==
    ASSUME IInv, RoomInv, Roomy, call # <<>>, Top.fn = "create", Top.for = "query",
           call' = Below, UNCHANGED clc,
           NEW i \in Slots, slot[i].dev = NULL,
           NEW ok \in BOOLEAN, ExecuteList(Top.dev, i, Top.start, ok)
    PROVE  RoomInv'
<1> DEFINE d == Top.dev
           b == Created(i, d, List[Top.start])
           r == [b EXCEPT !.cb = "list"]
           B == Members(Below)
           O == Open(slot, B)
<1>1. /\ TypeOK /\ Below \in Seq(Activation) /\ Top \in Activation
      /\ Top \in Members(call) /\ \A a \in B : CalledAbove(a, Top)
  BY TopTyped, MembersTop DEF IInv, RoomInv, RoomAt
<1>2. d \in Dev /\ Top.start \in 1 .. Len(List) /\ List[Top.start] \in Cmd
  BY <1>1, ActivationFields, ConstantTypes
<1>3. \A e \in Dev : e = d
  BY <1>2 DEF Roomy
<1>4. /\ Layout(Below) /\ Placing(B, slot, held) /\ Holding(B, held)
      /\ Querying(B, O, slot, flags, clc)
  BY <1>1, RoomReturn DEF RoomAt
<1>5. /\ O = {} /\ "CMD_INIT" \in flags[d]
      /\ clc.base = d /\ clc.list = Top.start /\ clc.index = 0
  <2>1. Querying(Members(call), Open(slot, Members(call)), slot, flags, clc)
    BY DEF RoomInv, RoomAt
  <2>2. Members(call) = B \cup {Top}
    BY <1>1, MembersTop
  <2>3. Open(slot, Members(call)) = O
    BY <2>2, OpenPush
  <2> QED
    BY <1>1, <1>2, <2>1, <2>3 DEF Querying, Asking
<1>6. /\ r \in Request /\ r.dev = d /\ r.cb = "list" /\ r.seq = slot[i].seq
      /\ r.cmd = List[Top.start]
  <2>1. b \in Request /\ b.dev = d /\ b.seq = slot[i].seq
    BY <1>1, <1>2, CreatedType
  <2>2. b.cmd = List[Top.start]
    BY DEF Created, Blank
  <2> HIDE DEF b, d
  <2> QED
    BY <2>1, <2>2 DEF Request, Callback
<1>7. /\ Write(ok) /\ slot' = [slot EXCEPT ![i] = Sent(r, ok)]
      /\ held' = held \ {HandleOf(i)}
      /\ flags' = IF ~ok THEN flags
                  ELSE [flags EXCEPT ![d] =
                          (@ \cup {"QUERY_BEGIN", "QUERY_INPROGRESS"})
                          \ {"QUERY_ERROR", "QUERY_DONE", "QUERY_REFRESH"}]
  BY DEF ExecuteList
<1>8. ok
  BY <1>1, <1>7, Accepted
<1> HIDE DEF d, b, r, B, O
<1>9. /\ Sent(r, ok) \in Request /\ Sent(r, ok).seq = slot[i].seq
      /\ Sent(r, ok).cb = "list" /\ Sent(r, ok).dev = d
      /\ Sent(r, ok).cmd = List[Top.start]
  BY <1>1, <1>2, <1>6, SentType, SentCommand
<1>10. slot'[i] = Sent(r, ok) /\ \A j \in Slots : j # i => slot'[j] = slot[j]
  BY <1>7, <1>9, WriteSlot
<1>11. \A e \in Dev : "CMD_INIT" \in flags'[e] /\ "QUERY_INPROGRESS" \in flags'[e]
  BY <1>1, <1>3, <1>5, <1>7, <1>8 DEF TypeOK
<1>12. /\ slot[i].cb = "none" /\ ~Ends(i, B)
       /\ \A a \in B : IsCallback(a) => a.h.slot # i
  BY <1>4, FreeIsNobodys
<1>13. \A a \in B : IsCallback(a) => a.h.slot \in Slots
  <2>1. \A a \in B : a \in Activation
    BY <1>1, ElementOfSeq DEF B, Members
  <2> QED
    BY <2>1, ActivationFields DEF Handle
<1>14. Open(slot', B) = {i}
  <2>1. i \in Open(slot', B)
    BY <1>9, <1>10, <1>12 DEF Open
  <2>2. \A j \in Open(slot', B) : j = i
    BY <1>5, <1>10 DEF Open, O
  <2> QED
    BY <2>1, <2>2
<1>15. Placing(B, slot', held')
  <2>1. \A a \in B : IsCallback(a) => Owns(a, slot')
    BY <1>4, <1>10, <1>12, <1>13 DEF Placing, Owns
  <2>2. ASSUME NEW j \in Slots
        PROVE  /\ slot'[j].dev = NULL => slot'[j].cb = "none"
               /\ slot'[j].dev # NULL /\ slot'[j].cb # "list"
                  => [slot |-> j, seq |-> slot'[j].seq] \in held'
    <3>1. CASE j = i
      BY <1>2, <1>9, <1>10, <3>1, ConstantTypes
    <3>2. CASE j # i
      <4>1. slot'[j] = slot[j] /\ [slot |-> j, seq |-> slot[j].seq] # HandleOf(i)
        BY <1>10, <3>2 DEF HandleOf
      <4> QED
        BY <1>4, <1>7, <4>1 DEF Placing
    <3> QED
      BY <3>1, <3>2
  <2> QED
    BY <2>1, <2>2 DEF Placing
<1>16. Holding(B, held')
  <2>1. IsFiniteSet(held') /\ Cardinality(held') <= Cardinality(held)
    BY <1>4, <1>7, FS_Subset DEF Holding
  <2>2. Cardinality(held') \in Nat /\ Cardinality(held) \in Nat /\ AppMax \in Nat
    BY <1>4, <2>1, FS_CardinalityType, AtAssumption DEF Holding
  <2> QED
    BY <1>4, <2>1, <2>2 DEF Holding
<1>17. Querying(B, {i}, slot', flags', clc)
  <2>1. \A a \in B : ~Asking(a)
    BY <1>1 DEF CalledAbove
  <2>2. clc.list + clc.index = Top.start
    BY <1>2, <1>5
  <2> QED
    BY <1>2, <1>3, <1>5, <1>9, <1>10, <1>11, <2>1, <2>2 DEF Querying
<1> QED
  BY <1>4, <1>14, <1>15, <1>16, <1>17 DEF RoomInv, RoomAt, B

LEMMA AppCreatesRoom ==
    ASSUME IInv, RoomInv, Roomy, call # <<>>, Top.fn = "create", Top.for # "query",
           call' = Below, UNCHANGED <<clc, flags>>,
           NEW i \in Slots, slot[i].dev = NULL, NEW c \in AppCmd,
           slot' = [slot EXCEPT ![i] = Created(i, Top.dev, c)],
           held' = held \cup {HandleOf(i)}
    PROVE  RoomInv'
<1> DEFINE d == Top.dev
           r == Created(i, d, c)
           B == Members(Below)
           O == Open(slot, B)
<1>1. /\ TypeOK /\ Below \in Seq(Activation) /\ Top \in Activation
      /\ Members(call) = B \cup {Top} /\ \A a \in B : CalledAbove(a, Top)
  BY TopTyped, MembersTop DEF IInv, RoomInv, RoomAt
<1>2. d \in Dev /\ c \in Cmd /\ Top.for = "app"
  BY <1>1, ActivationFields, ConstantTypes
<1>3. /\ Layout(Below) /\ Placing(B, slot, held) /\ Holding(B, held)
      /\ Querying(B, O, slot, flags, clc)
  BY <1>1, RoomReturn DEF RoomAt
<1>4. /\ r \in Request /\ r.dev = d /\ r.cb = "none" /\ r.seq = slot[i].seq
  BY <1>1, <1>2, CreatedType
<1>5. Cardinality(held) < AppMax
  BY <1>1, <1>2 DEF RoomInv, RoomAt, Holding, AppCreates
<1> HIDE DEF d, r, B, O
<1>6. slot'[i] = r /\ \A j \in Slots : j # i => slot'[j] = slot[j]
  BY <1>4, WriteSlot DEF d, r
<1>7. /\ slot[i].cb = "none" /\ ~Ends(i, B)
      /\ \A a \in B : IsCallback(a) => a.h.slot # i
  BY <1>3, FreeIsNobodys
<1>8. \A a \in B : IsCallback(a) => a.h.slot \in Slots
  <2>1. \A a \in B : a \in Activation
    BY <1>1, ElementOfSeq DEF B, Members
  <2> QED
    BY <2>1, ActivationFields DEF Handle
<1>9. Open(slot', B) = O
  BY <1>4, <1>6, <1>7 DEF Open, O
<1>10. Placing(B, slot', held')
  <2>1. \A a \in B : IsCallback(a) => Owns(a, slot')
    BY <1>3, <1>6, <1>7, <1>8 DEF Placing, Owns
  <2>2. ASSUME NEW j \in Slots
        PROVE  /\ slot'[j].dev = NULL => slot'[j].cb = "none"
               /\ slot'[j].dev # NULL /\ slot'[j].cb # "list"
                  => [slot |-> j, seq |-> slot'[j].seq] \in held'
    <3>1. CASE j = i
      BY <1>4, <1>6, <3>1 DEF HandleOf
    <3>2. CASE j # i
      BY <1>3, <1>6, <3>2 DEF Placing
    <3> QED
      BY <3>1, <3>2
  <2> QED
    BY <2>1, <2>2 DEF Placing
<1>11. Holding(B, held')
  <2>1. /\ IsFiniteSet(held') /\ Cardinality(held) \in Nat /\ AppMax \in Nat
        /\ Cardinality(held') <= Cardinality(held) + 1 /\ Cardinality(held') \in Nat
    <3>1. IsFiniteSet(held)
      BY <1>3 DEF Holding
    <3>2. IsFiniteSet(held') /\ (\/ Cardinality(held') = Cardinality(held)
                                 \/ Cardinality(held') = Cardinality(held) + 1)
      BY <3>1, FS_AddElement
    <3> QED
      BY <3>1, <3>2, FS_CardinalityType, AtAssumption
  <2>2. Cardinality(held') <= AppMax
    BY <1>5, <2>1
  <2>3. \A a \in B : ~AppCreates(a)
    BY <1>1, <1>2 DEF CalledAbove, Asking
  <2> QED
    BY <2>1, <2>2, <2>3 DEF Holding
<1>12. Querying(B, O, slot', flags, clc)
  <2>1. \A j \in O : slot'[j].cmd = slot[j].cmd
    BY <1>6, <1>7 DEF O, Open
  <2> QED
    BY <1>3, <2>1 DEF Querying
<1> QED
  BY <1>3, <1>9, <1>10, <1>11, <1>12 DEF RoomInv, RoomAt, B

LEMMA CreateInFreeSlotRoom ==
    ASSUME IInv, RoomInv, Roomy, CreateInFreeSlot
    PROVE  RoomInv'
<1> DEFINE i == FirstOf(FreeSlots)
<1>1. /\ call # <<>> /\ Top.fn = "create" /\ FreeSlots # {} /\ call' = Below
      /\ UNCHANGED clc
  BY DEF CreateInFreeSlot, Creating, TopIs
<1>2. i \in Slots /\ slot[i].dev = NULL
  <2>1. FreeSlots \in SUBSET Slots
    BY DEF FreeSlots
  <2>2. FirstOf(FreeSlots) \in FreeSlots
    BY <1>1, <2>1, FirstSlot
  <2> QED
    BY <2>2 DEF FreeSlots
<1>3. CASE Top.for = "query"
  <2>1. PICK ok \in BOOLEAN : ExecuteList(Top.dev, i, Top.start, ok)
    BY <1>3 DEF CreateInFreeSlot
  <2> HIDE DEF i
  <2> QED
    BY <1>1, <1>2, <1>3, <2>1, ExecuteListRoom
<1>4. CASE Top.for # "query"
  <2>1. PICK c \in AppCmd :
          /\ slot' = [slot EXCEPT ![i] = Created(i, Top.dev, c)]
          /\ held' = held \cup {HandleOf(i)}
          /\ UNCHANGED flags
    BY <1>4 DEF CreateInFreeSlot
  <2> HIDE DEF i
  <2> QED
    BY <1>1, <1>2, <1>4, <2>1, AppCreatesRoom
<1> QED
  BY <1>3, <1>4

\* Fewer handles are fewer than as many as may be held.
LEMMA HoldsFewer ==
    ASSUME NEW acts, NEW handles, NEW fewer \in SUBSET handles, Holding(acts, handles)
    PROVE  Holding(acts, fewer)
<1>1. IsFiniteSet(fewer) /\ Cardinality(fewer) <= Cardinality(handles)
  BY FS_Subset DEF Holding
<1>2. Cardinality(fewer) \in Nat /\ Cardinality(handles) \in Nat /\ AppMax \in Nat
  BY <1>1, FS_CardinalityType, AtAssumption DEF Holding
<1> QED
  BY <1>1, <1>2 DEF Holding

\* A request is released that no callback runs for; its handle may be given up.
LEMMA ReleaseRoom ==
    ASSUME IInv, NEW stack, Members(stack) \subseteq Activation, NEW i \in Slots,
           Layout(stack), Placing(Members(stack), slot, held), Holding(Members(stack), held),
           Querying(Members(stack), Open(slot, Members(stack)) \ {i}, slot, flags, clc),
           \A a \in Members(stack) : IsCallback(a) => a.h.slot # i,
           slot'[i].dev = NULL, slot'[i].cb = "none",
           \A j \in Slots : j # i => slot'[j] = slot[j],
           held' \subseteq held, held \ {HandleOf(i)} \subseteq held'
    PROVE  RoomAt(stack, slot', held', flags, clc)
<1> DEFINE M == Members(stack)
           O == Open(slot, M) \ {i}
<1>1. /\ M \subseteq Activation /\ Layout(stack) /\ Placing(M, slot, held) /\ Holding(M, held)
      /\ Querying(M, O, slot, flags, clc)
      /\ \A a \in M : IsCallback(a) => a.h.slot # i
  OBVIOUS
<1> HIDE DEF M
<1>2. \A a \in M : IsCallback(a) => a.h.slot \in Slots
  BY <1>1, ActivationFields DEF Handle
<1>3. Open(slot', M) = O
  BY DEF Open
<1> HIDE DEF O
<1>4. Placing(M, slot', held')
  <2>1. \A a \in M : IsCallback(a) => Owns(a, slot')
    BY <1>1, <1>2 DEF Placing, Owns
  <2>2. ASSUME NEW j \in Slots
        PROVE  /\ slot'[j].dev = NULL => slot'[j].cb = "none"
               /\ slot'[j].dev # NULL /\ slot'[j].cb # "list"
                  => [slot |-> j, seq |-> slot'[j].seq] \in held'
    <3>1. CASE j = i
      BY <3>1
    <3>2. CASE j # i
      <4>1. slot'[j] = slot[j] /\ [slot |-> j, seq |-> slot[j].seq] # HandleOf(i)
        BY <3>2 DEF HandleOf
      <4> QED
        BY <1>1, <4>1 DEF Placing
    <3> QED
      BY <3>1, <3>2
  <2> QED
    BY <2>1, <2>2 DEF Placing
<1>5. Holding(M, held')
  BY <1>1, HoldsFewer
<1>6. Querying(M, O, slot', flags, clc)
  <2>1. \A j \in O : slot'[j].cmd = slot[j].cmd
    BY DEF O, Open
  <2> QED
    BY <1>1, <2>1 DEF Querying
<1> QED
  BY <1>1, <1>3, <1>4, <1>5, <1>6 DEF RoomAt, M

\* The tick releases a slot and may start the refresh that waits.
LEMMA TickReleasesRoom ==
    ASSUME IInv, Roomy, NEW stack \in Seq(Activation), NEW i \in Slots, slot[i].dev \in Dev,
           RoomAt(stack, slot', held', flags, clc), \A b \in Members(stack) : ~Asking(b),
           TickReleases(i, stack), UNCHANGED <<flags, clc>>
    PROVE  RoomInv'
<1> DEFINE d == slot[i].dev
           M == Members(stack)
           O == Open(slot', M)
<1>1. call' = IF "QUERY_REFRESH" \in flags[d] THEN Append(stack, QueryCall(d, TRUE)) ELSE stack
  BY DEF TickReleases
<1>2. Querying(M, O, slot', flags, clc)
  BY DEF RoomAt
<1> HIDE DEF d, M, O
<1>3. CASE "QUERY_REFRESH" \in flags[d]
  <2>1. \A e \in Dev : "CMD_INIT" \in flags[e]
    BY <1>2, <1>3 DEF Querying, Roomy, d
  <2>2. RoomAt(Append(stack, QueryCall(d, TRUE)), slot', held', flags, clc)
    BY <2>1, RoomQuery DEF d
  <2> QED
    BY <1>1, <1>3, <2>2 DEF RoomInv
<1>4. CASE "QUERY_REFRESH" \notin flags[d]
  BY <1>1, <1>4 DEF RoomInv
<1> QED
  BY <1>3, <1>4

\* A callback returns and its request is released.
LEMMA CallbackReturns ==
    ASSUME IInv, RoomInv, call # <<>>, IsCallback(Top),
           slot' = [slot EXCEPT ![Top.h.slot] = Released(@)],
           held' \subseteq held, held \ {Top.h} \subseteq held'
    PROVE  /\ RoomAt(Below, slot', held', flags, clc) /\ Below \in Seq(Activation)
           /\ \A b \in Members(Below) : ~Asking(b)
           /\ Top.h.slot \in Slots /\ slot[Top.h.slot].dev \in Dev
<1> DEFINE i == Top.h.slot
           M == Members(call)
           B == Members(Below)
<1>1. /\ TypeOK /\ Below \in Seq(Activation) /\ Top \in Activation /\ M = B \cup {Top}
      /\ Layout(Below) /\ \A b \in B : CalledAbove(b, Top)
      /\ M \subseteq Activation
  BY TopTyped, MembersTop, MembersType DEF IInv, RoomInv, RoomAt
<1>2. Top.h \in Handle /\ i \in Slots
  BY <1>1, ActivationFields DEF Handle
<1>3. /\ Placing(M, slot, held) /\ Holding(M, held)
      /\ Querying(M, Open(slot, M), slot, flags, clc)
  BY DEF RoomInv, RoomAt
<1>4. Owns(Top, slot)
  BY <1>1, <1>3 DEF Placing
<1>5. Top.h = HandleOf(i) /\ slot[i].dev \in Dev
  BY <1>1, <1>2, <1>4, RequestType DEF Owns, HandleOf, Handle
<1>6. \A b \in B : ~IsCallback(b) /\ ~Asking(b)
  BY <1>1 DEF CalledAbove
<1>7. Open(slot, M) = Open(slot, B) \ {i}
  <2>1. CASE Top.fn = "listcb"
    <3>1. Open(slot, B \cup {Top}) = Open(slot, B) \ {Top.h.slot}
      BY <2>1, OpenPush
    <3> QED
      BY <1>1, <3>1
  <2>2. CASE Top.fn # "listcb"
    <3>1. slot[i].cb = "app"
      BY <1>4, <2>2 DEF Owns
    <3>2. i \notin Open(slot, B)
      BY <3>1 DEF Open
    <3> QED
      BY <1>1, <2>2, <3>2, OpenPush
  <2> QED
    BY <2>1, <2>2
<1> HIDE DEF i, M, B
<1>8. /\ slot'[i].dev = NULL /\ slot'[i].cb = "none"
      /\ \A j \in Slots : j # i => slot'[j] = slot[j]
  <2>1. Released(slot[i]) \in Request /\ Released(slot[i]).dev = NULL
        /\ Released(slot[i]).cb = "none"
    BY <1>1, <1>2, RequestType, ReleasedType
  <2> QED
    BY <1>2, <2>1, WriteSlot DEF i
<1>9. /\ Placing(B, slot, held) /\ Holding(B, held)
      /\ Querying(B, Open(slot, B) \ {i}, slot, flags, clc)
  <2>1. Placing(B, slot, held)
    BY <1>1, <1>3 DEF Placing
  <2>2. Holding(B, held)
    BY <1>1, <1>3 DEF Holding
  <2>3. Querying(B, Open(slot, M), slot, flags, clc)
    BY <1>1, <1>3 DEF Querying
  <2> QED
    BY <1>7, <2>1, <2>2, <2>3
<1>10. RoomAt(Below, slot', held', flags, clc)
  <2>1. \A b \in B : IsCallback(b) => b.h.slot # i
    BY <1>6
  <2>2. held \ {HandleOf(i)} \subseteq held' /\ B \subseteq Activation
    BY <1>1, <1>5
  <2> QED
    BY <1>1, <1>2, <1>8, <1>9, <2>1, <2>2, ReleaseRoom DEF B
<1> QED
  BY <1>1, <1>2, <1>5, <1>6, <1>10 DEF i, B

LEMMA ListReturnsRoom ==
    ASSUME IInv, RoomInv, Roomy, ListReturns
    PROVE  RoomInv'
<1>1. /\ call # <<>> /\ IsCallback(Top) /\ UNCHANGED <<flags, clc, held>>
      /\ slot' = [slot EXCEPT ![Top.h.slot] = Released(@)]
  BY DEF ListReturns, TopIs, IsCallback, TickReleases
<1>2. /\ RoomAt(Below, slot', held', flags, clc) /\ Below \in Seq(Activation)
      /\ \A b \in Members(Below) : ~Asking(b)
      /\ Top.h.slot \in Slots /\ slot[Top.h.slot].dev \in Dev
  BY <1>1, CallbackReturns
<1>3. CASE Top.by = "tick"
  <2>1. TickReleases(Top.h.slot, Below)
    BY <1>3 DEF ListReturns
  <2> QED
    BY <1>1, <1>2, <2>1, TickReleasesRoom
<1>4. CASE Top.by # "tick"
  <2>1. call' = Below
    BY <1>4 DEF ListReturns
  <2> QED
    BY <1>1, <1>2, <2>1 DEF RoomInv
<1> QED
  BY <1>3, <1>4

LEMMA AppReturnsDoneRoom ==
    ASSUME IInv, RoomInv, Roomy, AppReturnsDone
    PROVE  RoomInv'
<1>1. /\ call # <<>> /\ IsCallback(Top) /\ UNCHANGED <<flags, clc>>
      /\ held' = held \ {Top.h}
      /\ slot' = [slot EXCEPT ![Top.h.slot] = Released(@)]
  BY DEF AppReturnsDone, TopIs, IsCallback, TickReleases
<1>2. /\ RoomAt(Below, slot', held', flags, clc) /\ Below \in Seq(Activation)
      /\ \A b \in Members(Below) : ~Asking(b)
      /\ Top.h.slot \in Slots /\ slot[Top.h.slot].dev \in Dev
  BY <1>1, CallbackReturns
<1>3. CASE Top.by = "tick"
  <2>1. TickReleases(Top.h.slot, Below)
    BY <1>3 DEF AppReturnsDone
  <2> QED
    BY <1>1, <1>2, <2>1, TickReleasesRoom
<1>4. CASE Top.by # "tick"
  <2>1. call' = Below
    BY <1>4 DEF AppReturnsDone
  <2> QED
    BY <1>1, <1>2, <2>1 DEF RoomInv
<1> QED
  BY <1>3, <1>4

\* Timers and frame ids do not matter.
LEMMA SameRequests ==
    ASSUME NEW stack, NEW table, NEW handles, NEW fl, NEW ctx, NEW newTable,
           Members(stack) \subseteq Activation,
           RoomAt(stack, table, handles, fl, ctx),
           \A j \in Slots : /\ newTable[j].cb = table[j].cb /\ newTable[j].dev = table[j].dev
                            /\ newTable[j].seq = table[j].seq /\ newTable[j].cmd = table[j].cmd
    PROVE  RoomAt(stack, newTable, handles, fl, ctx)
<1> DEFINE M == Members(stack)
           O == Open(table, M)
<1>1. /\ Placing(M, table, handles) /\ Holding(M, handles) /\ Querying(M, O, table, fl, ctx)
      /\ Layout(stack) /\ M \subseteq Activation
  BY DEF RoomAt
<1> HIDE DEF M
<1>2. \A a \in M : IsCallback(a) => a.h.slot \in Slots
  BY <1>1, ActivationFields DEF Handle
<1>3. Open(newTable, M) = O /\ \A j \in O : j \in Slots
  BY DEF Open
<1> HIDE DEF O
<1>4. Placing(M, newTable, handles)
  BY <1>1, <1>2 DEF Placing, Owns
<1>5. Querying(M, O, newTable, fl, ctx)
  BY <1>1, <1>3 DEF Querying
<1> QED
  BY <1>1, <1>3, <1>4, <1>5 DEF RoomAt, M

LEMMA AppReturnsReuseRoom ==
    ASSUME IInv, RoomInv, Roomy, AppReturnsReuse
    PROVE  RoomInv'
<1>1. /\ call # <<>> /\ Top.fn = "appcb" /\ call' = Below /\ UNCHANGED <<flags, clc, held>>
      /\ TypeOK
  BY DEF AppReturnsReuse, TopIs, IInv
<1>2. RoomAt(Below, slot, held, flags, clc)
  BY <1>1, RoomReturn
<1>3. \A j \in Slots : /\ slot'[j].cb = slot[j].cb /\ slot'[j].dev = slot[j].dev
                       /\ slot'[j].seq = slot[j].seq /\ slot'[j].cmd = slot[j].cmd
  <2>1. CASE UNCHANGED slot
    BY <2>1
  <2>2. CASE slot' = [slot EXCEPT ![Top.h.slot].timer = ReuseTimeout]
    <3>1. \A j \in Slots : slot[j] \in Request
      BY <1>1, RequestType
    <3> QED
      BY <1>1, <2>2, <3>1 DEF TypeOK, Request
  <2> QED
    BY <2>1, <2>2 DEF AppReturnsReuse
<1>4. Members(Below) \subseteq Activation
  BY <1>1, MembersTop, MembersType
<1>5. RoomAt(Below, slot', held, flags, clc)
  BY <1>2, <1>3, <1>4, SameRequests
<1> QED
  BY <1>1, <1>5 DEF RoomInv

LEMMA TickEndsRoom ==
    ASSUME IInv, RoomInv, Roomy, TickEnds
    PROVE  RoomInv'
<1>1. /\ call # <<>> /\ Top.fn = "tick" /\ call' = Below /\ UNCHANGED <<slot, flags, clc, held>>
      /\ TypeOK
  BY DEF TickEnds, TopIs, IInv
<1> QED
  BY <1>1, RoomReturn DEF RoomInv

LEMMA SecondRoom ==
    ASSUME IInv, RoomInv, Roomy, Second
    PROVE  RoomInv'
<1>1. /\ slot' = [i \in Slots |-> IF slot[i].timer = 0 THEN slot[i]
                                  ELSE [slot[i] EXCEPT !.timer = @ - 1]]
      /\ UNCHANGED <<flags, clc, call, held>> /\ TypeOK
  BY DEF Second, IInv
<1>2. ASSUME NEW j \in Slots
      PROVE  /\ slot'[j].cb = slot[j].cb /\ slot'[j].dev = slot[j].dev
             /\ slot'[j].seq = slot[j].seq /\ slot'[j].cmd = slot[j].cmd
  <2>1. slot[j] \in Request
    BY <1>1, RequestType
  <2>2. slot'[j] = slot[j] \/ slot'[j] = [slot[j] EXCEPT !.timer = @ - 1]
    BY <1>1
  <2> QED
    BY <2>1, <2>2 DEF Request
<1>3. Members(call) \subseteq Activation
  BY <1>1, MembersType
<1>4. RoomAt(call, slot', held, flags, clc)
  BY <1>2, <1>3, SameRequests DEF RoomInv
<1> QED
  BY <1>1, <1>4 DEF RoomInv

LEMMA AppFindsStaleRoom ==
    ASSUME IInv, RoomInv, Roomy, NEW h \in held, AppFindsStale(h)
    PROVE  RoomInv'
<1> DEFINE M == Members(call)
           O == Open(slot, M)
<1>1. held' = held \ {h} /\ ~Live(h) /\ UNCHANGED <<slot, flags, clc, call>>
  BY DEF AppFindsStale
<1>2. /\ Layout(call) /\ Placing(M, slot, held) /\ Holding(M, held)
      /\ Querying(M, O, slot, flags, clc)
  BY DEF RoomInv, RoomAt
<1> HIDE DEF M, O
<1>3. Placing(M, slot, held')
  <2>1. \A i \in Slots : slot[i].dev # NULL => [slot |-> i, seq |-> slot[i].seq] # h
    BY <1>1 DEF Live, Resolves
  <2> QED
    BY <1>1, <1>2, <2>1 DEF Placing
<1>4. Holding(M, held')
  BY <1>1, <1>2, HoldsFewer
<1> QED
  BY <1>1, <1>2, <1>3, <1>4 DEF RoomInv, RoomAt, M, O

\* No callback runs for a live request that the application holds, but its own.
LEMMA HeldCallback ==
    ASSUME IInv, RoomInv, NEW h \in held, Live(h), NEW a \in Members(call),
           IsCallback(a), a.h.slot = h.slot
    PROVE  InCallback(h) /\ a.fn = "appcb" /\ Owns(a, slot)
<1>1. Owns(a, slot)
  BY DEF RoomInv, RoomAt, Placing
<1>2. a.fn = "appcb"
  BY <1>1 DEF Owns, IInv, AppHolds, IsCallback
<1>3. a \in Activation /\ h \in Handle
  <2>1. TypeOK
    BY DEF IInv
  <2> QED
    BY <2>1, MembersType DEF TypeOK
<1>4. a.h \in Handle
  BY <1>3, ActivationFields
<1>5. a.h = h
  <2>1. a.h.seq = h.seq
    BY <1>1 DEF Owns, Live, Resolves
  <2> QED
    BY <1>3, <1>4, <2>1 DEF Handle
<1>6. PICK k \in 1 .. Len(call) : a = call[k]
  BY DEF Members
<1> QED
  BY <1>1, <1>2, <1>5, <1>6 DEF InCallback

LEMMA HeldSlot ==
    ASSUME IInv, NEW h \in held, Live(h)
    PROVE  /\ h.slot \in Slots /\ HandleOf(h.slot) = h /\ slot[h.slot].dev \in Dev
           /\ slot[h.slot].cb # "list" /\ slot[h.slot] \in Request
<1>1. h \in Handle /\ TypeOK
  BY DEF IInv, TypeOK
<1>2. h.slot \in Slots /\ HandleOf(h.slot) = h
  BY <1>1 DEF Live, Resolves, HandleOf, Handle
<1>3. slot[h.slot].dev \in Dev /\ slot[h.slot] \in Request
  BY <1>1, <1>2, RequestType DEF Live
<1> QED
  BY <1>2, <1>3 DEF IInv, AppHolds

LEMMA AppReleaseRoom ==
    ASSUME IInv, RoomInv, Roomy, NEW h \in held, AppRelease(h)
    PROVE  RoomInv'
<1> DEFINE i == h.slot
           M == Members(call)
<1>1. /\ Live(h) /\ ~InCallback(h) /\ held' = held \ {h}
      /\ slot' = [slot EXCEPT ![i] = Released(slot[i])]
      /\ UNCHANGED <<flags, clc, call>> /\ TypeOK
  BY DEF AppRelease, IInv
<1>2. i \in Slots /\ HandleOf(i) = h /\ slot[i].cb # "list" /\ slot[i] \in Request
  BY <1>1, HeldSlot
<1>3. \A a \in M : IsCallback(a) => a.h.slot # i
  BY <1>1, HeldCallback
<1>4. /\ Layout(call) /\ Placing(M, slot, held) /\ Holding(M, held)
      /\ Querying(M, Open(slot, M), slot, flags, clc) /\ M \subseteq Activation
  BY <1>1, MembersType DEF RoomInv, RoomAt
<1>5. Open(slot, M) \ {i} = Open(slot, M)
  BY <1>2 DEF Open
<1> HIDE DEF i
<1>6. /\ slot'[i].dev = NULL /\ slot'[i].cb = "none"
      /\ \A j \in Slots : j # i => slot'[j] = slot[j]
  <2>1. Released(slot[i]) \in Request /\ Released(slot[i]).dev = NULL
        /\ Released(slot[i]).cb = "none"
    BY <1>2, ReleasedType
  <2> QED
    BY <1>1, <1>2, <2>1, WriteSlot
<1>7. RoomAt(call, slot', held', flags, clc)
  BY <1>1, <1>2, <1>3, <1>4, <1>5, <1>6, ReleaseRoom
<1> QED
  BY <1>1, <1>7 DEF RoomInv

\* A request is sent and stays in the table: no callback runs for it, or it keeps one.
LEMMA KeepRoom ==
    ASSUME IInv, RoomInv, NEW h \in held, Live(h), NEW s \in Request,
           slot' = [slot EXCEPT ![h.slot] = s], UNCHANGED <<call, held, flags, clc>>,
           s.dev = slot[h.slot].dev, s.seq = slot[h.slot].seq,
           s.cb \in {"none", "app"}, InCallback(h) => s.cb = "app"
    PROVE  RoomInv'
<1> DEFINE i == h.slot
           M == Members(call)
           O == Open(slot, M)
<1>1. /\ i \in Slots /\ HandleOf(i) = h /\ slot[i].cb # "list" /\ slot[i].dev \in Dev
  BY HeldSlot
<1>2. /\ Layout(call) /\ Placing(M, slot, held) /\ Holding(M, held)
      /\ Querying(M, O, slot, flags, clc) /\ M \subseteq Activation
  BY MembersType DEF RoomInv, RoomAt, IInv
<1>3. \A a \in M : IsCallback(a) /\ a.h.slot = i =>
        a.fn = "appcb" /\ Owns(a, slot) /\ s.cb = "app"
  BY HeldCallback
<1>4. \A a \in M : IsCallback(a) => a.h.slot \in Slots
  BY <1>2, ActivationFields DEF Handle
<1> HIDE DEF i, M
<1>5. slot'[i] = s /\ \A j \in Slots : j # i => slot'[j] = slot[j]
  BY <1>1, WriteSlot DEF i
<1>6. s.dev = slot[i].dev /\ s.seq = slot[i].seq
  BY DEF i
<1>7. Open(slot', M) = O
  BY <1>1, <1>5 DEF Open
<1> HIDE DEF O
<1>8. Placing(M, slot', held)
  <2>1. \A a \in M : IsCallback(a) => Owns(a, slot')
    <3> SUFFICES ASSUME NEW a \in M, IsCallback(a) PROVE Owns(a, slot')
      OBVIOUS
    <3>1. Owns(a, slot)
      BY <1>2 DEF Placing
    <3>2. CASE a.h.slot = i
      BY <1>3, <1>5, <1>6, <3>1, <3>2 DEF Owns
    <3>3. CASE a.h.slot # i
      BY <1>4, <1>5, <3>1, <3>3 DEF Owns
    <3> QED
      BY <3>2, <3>3
  <2>2. ASSUME NEW j \in Slots
        PROVE  /\ slot'[j].dev = NULL => slot'[j].cb = "none"
               /\ slot'[j].dev # NULL /\ slot'[j].cb # "list"
                  => [slot |-> j, seq |-> slot'[j].seq] \in held
    <3>1. CASE j = i
      BY <1>1, <1>5, <1>6, <3>1, ConstantTypes DEF HandleOf
    <3>2. CASE j # i
      BY <1>2, <1>5, <3>2 DEF Placing
    <3> QED
      BY <3>1, <3>2
  <2> QED
    BY <2>1, <2>2 DEF Placing
<1>9. Querying(M, O, slot', flags, clc)
  <2>1. \A j \in O : slot'[j].cmd = slot[j].cmd
    BY <1>1, <1>5 DEF O, Open
  <2> QED
    BY <1>2, <2>1 DEF Querying
<1> QED
  BY <1>2, <1>7, <1>8, <1>9 DEF RoomInv, RoomAt, M

\* What is sent without a callback, for the layer to release, is released.
LEMMA SentReleased ==
    ASSUME NEW r \in Request, r.cb = "none"
    PROVE  /\ ~r.reuse => Sent(r, TRUE) = Released(r)
           /\ r.reuse => /\ Sent(r, TRUE).dev = r.dev /\ Sent(r, TRUE).seq = r.seq
                         /\ Sent(r, TRUE).cb = "none"
<1> DEFINE s == [r EXCEPT !.frame = SendFrame(r)]
<1>1. SendFrame(r) = 0
  BY DEF SendFrame
<1>2. /\ s.frame = 0 /\ s.dev = r.dev /\ s.seq = r.seq /\ s.cb = r.cb /\ s.reuse = r.reuse
  BY <1>1 DEF Request
<1> HIDE DEF s
<1>3. Sent(r, TRUE) = IF s.frame # 0
                      THEN [s EXCEPT !.timer = IF r.remote THEN RemoteTimeout ELSE LocalTimeout]
                      ELSE IF ~r.reuse THEN Released(s) ELSE s
  BY DEF Sent, s
<1>4. Released(s) = Released(r)
  BY <1>2 DEF Released
<1> QED
  BY <1>2, <1>3, <1>4

LEMMA AppSendRoom ==
    ASSUME IInv, RoomInv, Roomy, NEW h \in held, NEW remote \in BOOLEAN, NEW reuse \in BOOLEAN,
           NEW cb \in {"none", "app"}, AppSend(h, remote, reuse, cb)
    PROVE  RoomInv'
<1> DEFINE i == h.slot
           r == [slot[i] EXCEPT !.remote = remote, !.reuse = reuse, !.cb = cb]
           M == Members(call)
<1>1. /\ Live(h) /\ TypeOK /\ (InCallback(h) => cb = "app")
      /\ UNCHANGED <<flags, clc, call>>
  BY DEF AppSend, IInv
<1>2. PICK ok \in BOOLEAN :
        /\ Write(ok)
        /\ slot' = [slot EXCEPT ![i] = Sent(r, ok)]
        /\ held' = IF ok /\ cb = "none" /\ ~reuse THEN held \ {h} ELSE held
  BY DEF AppSend
<1>3. ok = TRUE
  BY <1>1, <1>2, Accepted
<1>4. /\ i \in Slots /\ HandleOf(i) = h /\ slot[i].cb # "list" /\ slot[i].dev \in Dev
      /\ slot[i] \in Request
  BY <1>1, HeldSlot
<1>5. /\ r \in Request /\ r.dev = slot[i].dev /\ r.dev \in Dev /\ r.seq = slot[i].seq
      /\ r.cb = cb /\ r.reuse = reuse
  <2>1. cb \in Callback
    BY DEF Callback
  <2> HIDE DEF i
  <2> QED
    BY <1>4, <2>1 DEF Request
<1> HIDE DEF r
<1>6. Sent(r, ok) \in Request
  BY <1>1, <1>5, SentType
<1>7. CASE cb = "app" \/ reuse
  <2>1. /\ Sent(r, ok).dev = slot[i].dev /\ Sent(r, ok).seq = slot[i].seq
        /\ Sent(r, ok).cb = cb
    <3>1. CASE cb = "app"
      BY <1>1, <1>5, <3>1, SentType
    <3>2. CASE cb = "none"
      BY <1>3, <1>5, <1>7, <3>2, SentReleased
    <3> QED
      BY <3>1, <3>2
  <2>2. held' = held
    BY <1>2, <1>7
  <2> QED
    BY <1>1, <1>2, <1>6, <2>1, <2>2, KeepRoom
<1>8. CASE cb = "none" /\ ~reuse
  <2>1. Sent(r, ok) = Released(r) /\ held' = held \ {h} /\ ~InCallback(h)
    BY <1>1, <1>2, <1>3, <1>5, <1>8, SentReleased
  <2>2. \A a \in M : IsCallback(a) => a.h.slot # i
    BY <1>1, <2>1, HeldCallback
  <2>3. /\ Layout(call) /\ Placing(M, slot, held) /\ Holding(M, held)
        /\ Querying(M, Open(slot, M), slot, flags, clc) /\ M \subseteq Activation
    BY <1>1, MembersType DEF RoomInv, RoomAt
  <2>4. Open(slot, M) \ {i} = Open(slot, M)
    BY <1>4 DEF Open
  <2> HIDE DEF i
  <2>5. /\ slot'[i].dev = NULL /\ slot'[i].cb = "none"
        /\ \A j \in Slots : j # i => slot'[j] = slot[j]
    <3>1. Released(r) \in Request /\ Released(r).dev = NULL /\ Released(r).cb = "none"
      BY <1>5, ReleasedType
    <3> QED
      BY <1>2, <1>4, <2>1, <3>1, WriteSlot
  <2>6. RoomAt(call, slot', held', flags, clc)
    BY <1>4, <2>1, <2>2, <2>3, <2>4, <2>5, ReleaseRoom
  <2> QED
    BY <1>1, <2>6 DEF RoomInv
<1> QED
  BY <1>7, <1>8

\* A callback of the request in slot i is called, above the tick or in the main loop.
LEMMA RoomCallback ==
    ASSUME IInv, NEW stack \in Seq(Activation), NEW fl, NEW ctx, NEW a \in Activation,
           IsCallback(a), Owns(a, slot), Layout(stack),
           \A b \in Members(stack) : b.fn = "tick",
           Placing(Members(stack), slot, held), Holding(Members(stack), held),
           Querying(Members(stack), Open(slot, Members(stack) \cup {a}), slot, fl, ctx)
    PROVE  RoomAt(Append(stack, a), slot, held, fl, ctx)
<1> DEFINE M == Members(stack)
           O == Open(slot, M \cup {a})
<1>1. Members(Append(stack, a)) = M \cup {a}
  BY MembersPush
<1>2. Layout(Append(stack, a))
  <2>1. \A b \in M : CalledAbove(b, a)
    BY DEF CalledAbove, IsCallback, Asking, AppCreates
  <2> QED
    BY <2>1, LayoutPush
<1>3. Placing(M, slot, held) /\ Holding(M, held) /\ Querying(M, O, slot, fl, ctx)
  OBVIOUS
<1> HIDE DEF M, O
<1>4. Placing(M \cup {a}, slot, held)
  BY <1>3 DEF Placing
<1>5. Holding(M \cup {a}, held)
  BY <1>3 DEF Holding, AppCreates, IsCallback
<1>6. Querying(M \cup {a}, O, slot, fl, ctx)
  BY <1>3 DEF Querying, Asking, IsCallback
<1> QED
  BY <1>1, <1>2, <1>4, <1>5, <1>6 DEF RoomAt, M, O

\* The query ends: its request is open no longer, and its callback is called; a
\* refresh that is due follows.
LEMMA EndQueryRoom ==
    ASSUME IInv, Roomy, NEW stack \in Seq(Activation), NEW i \in Slots,
           NEW a \in Activation, a.fn = "listcb", a.h = HandleOf(i),
           RoomAt(stack, slot, held, flags, clc), \A b \in Members(stack) : b.fn = "tick",
           i \in Open(slot, Members(stack)), NEW failed \in BOOLEAN,
           EndQuery(stack, a, failed), UNCHANGED <<slot, held>>
    PROVE  RoomInv'
<1> DEFINE d == clc.base
           q == QueryCall(d, TRUE)
           M == Members(stack)
           O == Open(slot, M \cup {a})
<1>1. TypeOK /\ slot[i].cb = "list"
  BY DEF IInv, Open
<1>2. d \in Dev /\ \A e \in Dev : e = d
  <2>1. d \in Dev
    BY <1>1, ListBase
  <2> QED
    BY <2>1 DEF Roomy
<1>3. /\ \E missing \in BOOLEAN : flags' = [flags EXCEPT ![d] = QueryEnded(d, failed, missing)]
      /\ call' = Append(stack, a) \/ call' = Append(Append(stack, a), q)
  BY <1>1, <1>2, EndQueryCalls
<1>4. /\ Layout(stack) /\ Placing(M, slot, held) /\ Holding(M, held)
      /\ Querying(M, Open(slot, M), slot, flags, clc)
  BY DEF RoomAt
<1>5. O = {}
  <2>1. O = Open(slot, M) \ {i}
    <3>1. O = Open(slot, M) \ {a.h.slot}
      BY OpenPush
    <3>2. a.h.slot = i
      BY DEF HandleOf
    <3> QED
      BY <3>1, <3>2
  <2>2. \A j \in Open(slot, M) : j = i
    BY <1>2, <1>4 DEF Querying
  <2> QED
    BY <2>1, <2>2
<1>6. Owns(a, slot)
  BY <1>1, <1>4 DEF Owns, HandleOf, Placing
<1> HIDE DEF d, q, M
<1>7. \A e \in Dev : "CMD_INIT" \in flags'[e] /\ "QUERY_INPROGRESS" \notin flags'[e]
  <2>1. "CMD_INIT" \in flags[d]
    BY <1>2, <1>4 DEF Querying, M
  <2>2. \A missing \in BOOLEAN : /\ "CMD_INIT" \in QueryEnded(d, failed, missing)
                                 /\ "QUERY_INPROGRESS" \notin QueryEnded(d, failed, missing)
    BY <2>1 DEF QueryEnded
  <2> QED
    BY <1>1, <1>2, <1>3, <2>2 DEF TypeOK
<1> HIDE DEF O
<1>8. Querying(M, O, slot, flags', clc')
  <2>1. \A b \in M : ~Asking(b)
    BY DEF M, Asking
  <2> QED
    BY <1>5, <1>7, <2>1 DEF Querying
<1>9. RoomAt(Append(stack, a), slot, held, flags', clc')
  BY <1>4, <1>6, <1>8, RoomCallback DEF IsCallback, M, O
<1>10. RoomAt(Append(Append(stack, a), q), slot, held, flags', clc')
  <2>1. Append(stack, a) \in Seq(Activation)
    BY AppendProperties
  <2>2. \A b \in Members(Append(stack, a)) : ~Asking(b)
    BY MembersPush DEF Asking
  <2> QED
    BY <1>2, <1>7, <1>9, <2>1, <2>2, RoomQuery DEF q
<1> QED
  BY <1>3, <1>9, <1>10 DEF RoomInv

\* The tick goes on with the next slot.
LEMMA TickRest ==
    ASSUME IInv, RoomInv, call # <<>>, Top.fn = "tick", NEW k \in 0 .. N
    PROVE  LET rest == Append(Below, TickCall(k))
           IN  /\ rest \in Seq(Activation) /\ RoomAt(rest, slot, held, flags, clc)
               /\ \A b \in Members(rest) : b.fn = "tick"
<1> DEFINE t == TickCall(k)
           O == Open(slot, {})
<1>1. TypeOK /\ Below \in Seq(Activation)
  BY TopTyped DEF IInv
<1>2. t \in Activation /\ t.fn = "tick" /\ ~IsCallback(t)
  BY TickCallType
<1>3. Members(Below) = {} /\ RoomAt(Below, slot, held, flags, clc)
  BY <1>1, TickFirst, RoomReturn DEF RoomInv, RoomAt
<1> HIDE DEF t
<1>4. Members(Append(Below, t)) = {t} /\ Layout(Append(Below, t))
  BY <1>1, <1>2, <1>3, MembersPush, LayoutPush DEF RoomAt
<1>5. Open(slot, {t}) = O
  <2>1. {t} = {} \cup {t} OBVIOUS
  <2> QED
    BY <1>2, <2>1, OpenPush
<1>6. Placing({}, slot, held) /\ Holding({}, held) /\ Querying({}, O, slot, flags, clc)
  BY <1>3 DEF RoomAt
<1> HIDE DEF O
<1>7. Placing({t}, slot, held)
  BY <1>2, <1>6 DEF Placing
<1>8. Holding({t}, held)
  BY <1>2, <1>6 DEF Holding, AppCreates
<1>9. Querying({t}, O, slot, flags, clc)
  BY <1>2, <1>6 DEF Querying, Asking
<1>10. Append(Below, t) \in Seq(Activation)
  BY <1>1, <1>2, AppendProperties
<1> QED
  BY <1>2, <1>4, <1>5, <1>7, <1>8, <1>9, <1>10 DEF RoomAt, t

LEMMA TickExpiresRoom ==
    ASSUME IInv, RoomInv, Roomy, TickExpires
    PROVE  RoomInv'
<1> DEFINE i == FirstOf(Expired)
           rest == Append(Below, TickCall(i + 1))
<1>1. /\ call # <<>> /\ Top.fn = "tick" /\ Expired # {} /\ TypeOK
      /\ UNCHANGED held
  BY DEF TickExpires, TopIs, IInv
<1>2. i \in Slots /\ slot[i].dev # NULL
  <2>1. Expired \in SUBSET Slots
    BY DEF Expired
  <2>2. FirstOf(Expired) \in Expired
    BY <1>1, <2>1, FirstSlot
  <2> QED
    BY <2>2 DEF Expired
<1> HIDE DEF i
<1>3. slot[i].dev \in Dev /\ HandleOf(i) \in Handle /\ slot[i] \in Request /\ i + 1 \in 0 .. N
  BY <1>1, <1>2, RequestType, ConstantTypes DEF Slots
<1>4. /\ rest \in Seq(Activation) /\ RoomAt(rest, slot, held, flags, clc)
      /\ \A b \in Members(rest) : b.fn = "tick"
  BY <1>1, <1>3, TickRest
<1>5. \/ /\ slot[i].cb = "none"
         /\ TickReleases(i, rest)
         /\ UNCHANGED <<flags, clc>>
      \/ /\ slot[i].cb = "app"
         /\ TellApp(i, rest)
         /\ UNCHANGED <<flags, clc>>
      \/ /\ slot[i].cb = "list"
         /\ EndQuery(rest, CallbackCall("listcb", i, HandleOf(i), "tick"), TRUE)
         /\ UNCHANGED slot
  BY DEF TickExpires, i
<1> HIDE DEF rest
<1>6. CASE slot[i].cb = "none" /\ TickReleases(i, rest) /\ UNCHANGED <<flags, clc>>
  <2> DEFINE M == Members(rest)
  <2>1. slot' = [slot EXCEPT ![i] = Released(slot[i])]
    BY <1>6 DEF TickReleases
  <2>2. /\ slot'[i].dev = NULL /\ slot'[i].cb = "none"
        /\ \A j \in Slots : j # i => slot'[j] = slot[j]
    <3>1. Released(slot[i]) \in Request /\ Released(slot[i]).dev = NULL
          /\ Released(slot[i]).cb = "none"
      BY <1>3, ReleasedType
    <3> QED
      BY <1>2, <2>1, <3>1, WriteSlot
  <2>3. /\ Layout(rest) /\ Placing(M, slot, held) /\ Holding(M, held)
        /\ Querying(M, Open(slot, M), slot, flags, clc)
    BY <1>4 DEF RoomAt
  <2>4. Open(slot, M) \ {i} = Open(slot, M)
    BY <1>6 DEF Open
  <2>5. M \subseteq Activation
    BY <1>4, ElementOfSeq DEF Members
  <2>6. \A b \in M : ~IsCallback(b) /\ ~Asking(b)
    BY <1>4 DEF IsCallback, Asking
  <2>7. RoomAt(rest, slot', held', flags, clc)
    BY <1>1, <1>2, <2>2, <2>3, <2>4, <2>5, <2>6, ReleaseRoom
  <2> QED
    BY <1>2, <1>3, <1>4, <1>6, <2>6, <2>7, TickReleasesRoom
<1>7. CASE slot[i].cb = "app" /\ TellApp(i, rest) /\ UNCHANGED <<flags, clc>>
  <2> DEFINE a == CallbackCall("appcb", i, HandleOf(i), "tick")
             M == Members(rest)
  <2>1. a \in Activation /\ a.fn = "appcb" /\ a.h = HandleOf(i) /\ IsCallback(a)
    BY <1>1, <1>2, <1>3, CallbackCallType DEF IsCallback
  <2>2. Owns(a, slot)
    BY <1>2, <1>7, <2>1 DEF Owns, HandleOf
  <2>3. call' = Append(rest, a) /\ UNCHANGED slot
    BY <1>7 DEF TellApp
  <2> HIDE DEF a
  <2>4. /\ Layout(rest) /\ Placing(M, slot, held) /\ Holding(M, held)
        /\ Querying(M, Open(slot, M), slot, flags, clc)
    BY <1>4 DEF RoomAt
  <2>5. Open(slot, M \cup {a}) = Open(slot, M)
    BY <2>1, OpenPush
  <2>6. RoomAt(Append(rest, a), slot, held, flags, clc)
    BY <1>4, <2>1, <2>2, <2>4, <2>5, RoomCallback
  <2> QED
    BY <1>1, <1>7, <2>3, <2>6 DEF RoomInv
<1>8. CASE /\ slot[i].cb = "list"
           /\ EndQuery(rest, CallbackCall("listcb", i, HandleOf(i), "tick"), TRUE)
           /\ UNCHANGED slot
  <2> DEFINE a == CallbackCall("listcb", i, HandleOf(i), "tick")
  <2>1. a \in Activation /\ a.fn = "listcb" /\ a.h = HandleOf(i)
    BY <1>1, <1>2, <1>3, CallbackCallType
  <2>2. EndQuery(rest, a, TRUE)
    BY <1>8
  <2> HIDE DEF a
  <2>3. i \in Open(slot, Members(rest))
    BY <1>2, <1>4, <1>8 DEF Open, Ends
  <2> QED
    BY <1>1, <1>2, <1>4, <1>8, <2>1, <2>2, <2>3, EndQueryRoom
<1> QED
  BY <1>5, <1>6, <1>7, <1>8

LEMMA ResponseToAppRoom ==
    ASSUME IInv, RoomInv, Roomy, NEW a \in air, ResponseToApp(a)
    PROVE  RoomInv'
<1> DEFINE i == FirstOf(Matches(a))
           c == CallbackCall("appcb", i, a.from, "response")
<1>1. /\ call = <<>> /\ Matches(a) # {} /\ slot[i].cb = "app" /\ call' = <<c>> /\ TypeOK
      /\ UNCHANGED <<slot, flags, clc, held>>
  BY DEF ResponseToApp, Idle, IInv
<1>2. i \in Slots /\ a.from \in Handle /\ slot[i].dev \in Dev
  BY <1>1, MatchedSlot DEF Response
<1>3. c \in Activation /\ c.fn = "appcb" /\ c.h = HandleOf(i) /\ IsCallback(c)
  BY <1>1, <1>2, CallbackCallType DEF IsCallback
<1>4. Owns(c, slot)
  BY <1>1, <1>2, <1>3, ConstantTypes DEF Owns, HandleOf
<1> HIDE DEF c, i
<1>5. <<>> \in Seq(Activation) /\ Members(<<>>) = {} /\ <<c>> = Append(<<>>, c)
  BY EmptySeq, MembersNone
<1>6. /\ Layout(<<>>) /\ Placing({}, slot, held) /\ Holding({}, held)
      /\ Querying({}, Open(slot, {}), slot, flags, clc)
  BY <1>1, <1>5 DEF RoomInv, RoomAt
<1>7. Open(slot, {} \cup {c}) = Open(slot, {})
  BY <1>3, OpenPush
<1>8. RoomAt(Append(<<>>, c), slot, held, flags, clc)
  BY <1>3, <1>4, <1>5, <1>6, <1>7, RoomCallback
<1> QED
  BY <1>1, <1>5, <1>8 DEF RoomInv

\* The request of the list a response matches is the open one.
LEMMA MatchedOpen ==
    ASSUME IInv, RoomInv, Roomy, call = <<>>, NEW a \in air, Matches(a) # {},
           slot[FirstOf(Matches(a))].cb = "list"
    PROVE  /\ FirstOf(Matches(a)) \in Open(slot, {})
           /\ Current \in 1 .. Len(List) /\ List[Current] = a.cmd
           /\ slot[FirstOf(Matches(a))].cmd = a.cmd
<1> DEFINE i == FirstOf(Matches(a))
<1>1. i \in Slots /\ a.dev \in Dev
  BY MatchedSlot DEF Response
<1>2. slot[i].cmd = a.cmd
  <2>1. Matches(a) \in SUBSET Slots
    BY DEF Matches
  <2>2. FirstOf(Matches(a)) \in Matches(a)
    BY <2>1, FirstSlot
  <2> QED
    BY <2>2 DEF Matches
<1>3. i \in Open(slot, {})
  BY <1>1 DEF Open, Ends
<1>4. Querying({}, Open(slot, {}), slot, flags, clc)
  BY MembersNone DEF RoomInv, RoomAt
<1> HIDE DEF i
<1>5. clc.list + clc.index \in 1 .. Len(List) /\ slot[i].cmd = List[clc.list + clc.index]
  BY <1>1, <1>3, <1>4 DEF Querying
<1> QED
  BY <1>2, <1>3, <1>5 DEF Current, i

LEMMA ResponseAdvancesListRoom ==
    ASSUME IInv, RoomInv, Roomy, NEW a \in air, ResponseAdvancesList(a)
    PROVE  RoomInv'
<1> DEFINE i == FirstOf(Matches(a))
           r == [slot[i] EXCEPT !.cmd = List[Current + 1]]
           O == Open(slot, {})
<1>1. /\ call = <<>> /\ Matches(a) # {} /\ TypeOK
      /\ slot[i].cb = "list" /\ Current < Len(List)
      /\ clc' = [clc EXCEPT !.index = @ + 1]
      /\ UNCHANGED <<flags, call, held>>
  BY DEF ResponseAdvancesList, Idle, IInv
<1>2. PICK ok \in BOOLEAN : slot' = [slot EXCEPT ![i] = [Sent(r, ok) EXCEPT !.timer = ReuseTimeout]]
  BY DEF ResponseAdvancesList
<1>3. i \in O /\ i \in Slots /\ Current \in 1 .. Len(List) /\ slot[i].dev \in Dev
  <2>1. i \in Slots /\ slot[i].dev \in Dev
    BY <1>1, MatchedSlot DEF Response
  <2> QED
    BY <1>1, <2>1, MatchedOpen
<1>4. clc'.base = clc.base /\ clc'.list + clc'.index = Current + 1
      /\ Current + 1 \in 1 .. Len(List)
  <2>1. clc.list \in 1 .. Len(List) /\ clc.index \in 0 .. Len(List) /\ Len(List) \in Nat
    BY <1>1, ConstantTypes DEF TypeOK, Context
  <2>2. clc'.base = clc.base /\ clc'.list = clc.list /\ clc'.index = clc.index + 1
    BY <1>1 DEF TypeOK, Context
  <2> QED
    BY <1>1, <1>3, <2>1, <2>2 DEF Current
<1>5. /\ r \in Request /\ r.dev = slot[i].dev /\ r.cb = "list" /\ r.seq = slot[i].seq
      /\ r.cmd = List[Current + 1]
  <2>1. List[Current + 1] \in Cmd /\ slot[i] \in Request
    BY <1>1, <1>3, <1>4, RequestType, ConstantTypes
  <2> HIDE DEF i
  <2> QED
    BY <1>1, <2>1 DEF Request
<1> HIDE DEF r, i
<1> DEFINE s == [Sent(r, ok) EXCEPT !.timer = ReuseTimeout]
<1>6. /\ s \in Request /\ s.cb = "list" /\ s.seq = slot[i].seq /\ s.dev = slot[i].dev
      /\ s.cmd = List[Current + 1]
  <2>1. /\ Sent(r, ok) \in Request /\ Sent(r, ok).dev = r.dev /\ Sent(r, ok).seq = r.seq
        /\ Sent(r, ok).cb = r.cb /\ Sent(r, ok).cmd = r.cmd
    BY <1>1, <1>3, <1>5, SentType, SentCommand
  <2> QED
    BY <1>5, <2>1, ConstantTypes DEF Request
<1> HIDE DEF s
<1>7. slot'[i] = s /\ \A j \in Slots : j # i => slot'[j] = slot[j]
  BY <1>2, <1>3, <1>6, WriteSlot DEF s
<1>8. /\ Placing({}, slot, held) /\ Holding({}, held) /\ Querying({}, O, slot, flags, clc)
      /\ Layout(<<>>) /\ Members(<<>>) = {}
  BY <1>1, MembersNone DEF RoomInv, RoomAt
<1>9. Open(slot', {}) = O
  BY <1>1, <1>6, <1>7 DEF Open
<1> HIDE DEF O
<1>10. Placing({}, slot', held)
  <2>1. \A j \in Slots : /\ slot'[j].dev = slot[j].dev /\ slot'[j].seq = slot[j].seq
                         /\ slot'[j].cb = slot[j].cb
    BY <1>1, <1>6, <1>7
  <2> QED
    BY <1>8, <2>1 DEF Placing
<1>11. Querying({}, O, slot', flags, clc')
  <2>1. \A e \in Dev : \A j \in O : j = i /\ clc.base = e
    BY <1>3, <1>8 DEF Querying
  <2> QED
    BY <1>4, <1>6, <1>7, <1>8, <2>1 DEF Querying
<1>12. RoomAt(<<>>, slot', held, flags, clc')
  BY <1>8, <1>9, <1>10, <1>11 DEF RoomAt
<1> QED
  BY <1>1, <1>12 DEF RoomInv

LEMMA ResponseEndsListRoom ==
    ASSUME IInv, RoomInv, Roomy, NEW a \in air, ResponseEndsList(a)
    PROVE  RoomInv'
<1> DEFINE i == FirstOf(Matches(a))
           c == CallbackCall("listcb", i, a.from, "response")
<1>1. /\ call = <<>> /\ Matches(a) # {} /\ TypeOK /\ slot[i].cb = "list"
      /\ UNCHANGED <<slot, held>>
  BY DEF ResponseEndsList, Idle, IInv
<1>2. /\ i \in Open(slot, {}) /\ Current \in 1 .. Len(List) /\ List[Current] = a.cmd
  BY <1>1, MatchedOpen
<1>3. i \in Slots /\ a.from \in Handle
  BY <1>1, MatchedSlot DEF Response
<1>4. EndQuery(<<>>, c, FALSE)
  <2>1. ~(Current > Len(List))
    BY <1>2, ConstantTypes
  <2> QED
    BY <1>2, <2>1 DEF ResponseEndsList
<1>5. c \in Activation /\ c.fn = "listcb" /\ c.h = HandleOf(i)
  BY <1>1, <1>3, CallbackCallType
<1> HIDE DEF c, i
<1>6. <<>> \in Seq(Activation) /\ Members(<<>>) = {} /\ RoomAt(<<>>, slot, held, flags, clc)
  BY <1>1, EmptySeq, MembersNone DEF RoomInv
<1> QED
  BY <1>1, <1>2, <1>3, <1>4, <1>5, <1>6, EndQueryRoom

LEMMA ResponseUnmatchedRoom ==
    ASSUME RoomInv, NEW a \in air, ResponseUnmatched(a) \/ Lose(a)
    PROVE  RoomInv'
<1> QED
  BY DEF ResponseUnmatched, Lose, RoomInv

LEMMA InitRoom == Init => RoomInv
<1> SUFFICES ASSUME Init PROVE RoomInv
  OBVIOUS
<1>1. Members(<<>>) = {} /\ Layout(<<>>)
  BY MembersNone
<1>2. 0 \in 0 .. SeqMod - 1
  BY ConstantTypes
<1>3. \A i \in Slots : slot[i].dev = NULL /\ slot[i].cb = "none"
  BY <1>2, BlankType DEF Init
<1>4. Open(slot, {}) = {}
  BY <1>3 DEF Open
<1>5. Placing({}, slot, held)
  BY <1>3 DEF Placing
<1>6. Holding({}, held)
  BY FS_EmptySet, AtAssumption DEF Init, Holding
<1>7. Querying({}, {}, slot, flags, clc)
  BY DEF Init, Querying
<1> QED
  BY <1>1, <1>4, <1>5, <1>6, <1>7 DEF Init, RoomInv, RoomAt

LEMMA StepRoom == Roomy /\ IInv /\ RoomInv /\ [Next]_vars => RoomInv'
<1> SUFFICES ASSUME Roomy, IInv, RoomInv, [Next]_vars PROVE RoomInv'
  OBVIOUS
<1>1. CASE Library
  BY <1>1, QueryDeviceRoom, CreateInitsDeviceRoom, CreateInFreeSlotRoom, CreateSucceeds,
     TickEndsRoom, TickExpiresRoom, ListReturnsRoom DEF Library
<1>2. CASE App
  BY <1>2, AppCreateRoom, AppSendRoom, AppFindsStaleRoom, AppReleaseRoom,
     AppReturnsDoneRoom, AppReturnsReuseRoom DEF App
<1>3. CASE CmdTick
  BY <1>3, CmdTickRoom
<1>4. CASE Environment
  BY <1>4, ModemStatusRoom, ResponseUnmatchedRoom, ResponseToAppRoom,
     ResponseAdvancesListRoom, ResponseEndsListRoom, SecondRoom DEF Environment, Respond
<1>5. CASE UNCHANGED vars
  BY <1>5 DEF vars, RoomInv
<1> QED
  BY <1>1, <1>2, <1>3, <1>4, <1>5 DEF Next

\* In a table with room a slot is not given away while a callback of its request
\* runs, be it called by a response or by an expiry: the request that is released
\* when the callback returns is the one it ran for.
THEOREM CallbackKeepsSlotHolds == ASSUME Roomy PROVE Spec => []CallbackKeepsSlot
<1>1. RoomInv => CallbackKeepsSlot
  BY DEF RoomInv, RoomAt, Placing, Members, CallbackKeepsSlot, Callbacks, IsCallback, Owns,
         Live, Resolves
<1> QED
  BY InitIInv, StepIInv, InitRoom, StepRoom, <1>1, PTL DEF Spec

\* In a table with room a query that is in progress has a request that will end it:
\* the query of the device is never stuck, as it may be in the default table.
THEOREM QueryAliveHolds == ASSUME Roomy PROVE Spec => []QueryAlive
<1>1. ASSUME IInv, RoomInv PROVE QueryAlive
  <2> SUFFICES ASSUME NEW d \in Dev, "QUERY_INPROGRESS" \in flags[d]
               PROVE  \E i \in Slots : slot[i].dev = d /\ slot[i].cb = "list"
    BY DEF QueryAlive
  <2>1. PICK i \in Slots : slot[i].cb = "list"
    BY <1>1 DEF RoomInv, RoomAt, Querying, Open
  <2>2. slot[i].dev # NULL
    BY <1>1, <2>1 DEF RoomInv, RoomAt, Placing
  <2>3. slot[i].dev \in Dev
    BY <1>1, <2>2, RequestType DEF IInv
  <2> QED
    BY <2>1, <2>3 DEF Roomy
<1> QED
  BY InitIInv, StepIInv, InitRoom, StepRoom, <1>1, PTL DEF Spec

\* In a table with room xbee_cmd_create() finds a slot whenever it looks for one: it
\* neither runs xbee_cmd_tick(), and with it other callbacks, nor returns -ENOSPC.
NeverFull == Creating => FreeSlots # {}

THEOREM NeverFullHolds == ASSUME Roomy PROVE Spec => []NeverFull
<1>1. IInv /\ RoomInv => NeverFull
  BY FindsSlot DEF NeverFull
<1> QED
  BY InitIInv, StepIInv, InitRoom, StepRoom, <1>1, PTL DEF Spec
-----------------------------------------------------------------------------
(* Frame ids that have not come round *)

\* What a response is told apart by: no two requests in the table wait for the same
\* answer.  They may when a request has waited while every other frame id was used.
Distinct ==
    \A i, j \in Slots :
      /\ slot[i].dev # NULL /\ slot[i].frame # 0
      /\ slot[i].dev = slot[j].dev /\ slot[i].frame = slot[j].frame
      /\ slot[i].remote = slot[j].remote /\ slot[i].cmd = slot[j].cmd
      => i = j

\* A response matches no request but the one that sent its command.
Latest == \A a \in air : \A i \in Matches(a) : a.from = HandleOf(i)

\* What is on the stack was given its own answer.
OwnAnswers(stack) == \A a \in Members(stack) : IsCallback(a) => a.from = a.h

AnswerInv == Latest /\ OwnAnswers(call)

\* A request that is created, released, or waits for less time is matched by no more.
LEMMA MatchedLess ==
    ASSUME IInv, Latest, air' \subseteq air,
           \A i \in Slots :
             \/ slot'[i].dev = NULL \/ slot'[i].frame = 0
             \/ /\ slot'[i].dev = slot[i].dev /\ slot'[i].seq = slot[i].seq
                /\ slot'[i].frame = slot[i].frame /\ slot'[i].remote = slot[i].remote
                /\ slot'[i].cmd = slot[i].cmd
    PROVE  Latest'
<1> SUFFICES ASSUME NEW a \in air', NEW i \in Slots, slot'[i].dev = a.dev,
                    slot'[i].frame = a.frame, slot'[i].remote = a.remote, slot'[i].cmd = a.cmd
             PROVE  a.from = HandleOf(i)'
  BY DEF Latest, Matches
<1>1. a \in air /\ a.dev \in Dev /\ a.frame \in 1 .. FrameMax
  BY DEF IInv, TypeOK, Response
<1>2. a.dev # NULL /\ a.frame # 0
  BY <1>1, ConstantTypes
<1>3. i \in Matches(a) /\ slot'[i].seq = slot[i].seq
  BY <1>2 DEF Matches
<1> QED
  BY <1>1, <1>3 DEF Latest, HandleOf

\* A request that is sent takes an id of which no other answer is on its way.
LEMMA MatchedSent ==
    ASSUME IInv, Latest, Distinct', NEW i \in Slots, NEW r \in Request, r.dev \in Dev,
           r.cb # "none", r.seq = slot[i].seq, NEW others \in SUBSET air, NEW ok,
           air' = Airborne(i, r, others, ok),
           \A j \in Slots : j # i => slot'[j] = slot[j],
           slot'[i].dev = r.dev, slot'[i].seq = r.seq, slot'[i].frame = SendFrame(r),
           slot'[i].remote = r.remote, slot'[i].cmd = r.cmd
    PROVE  Latest'
<1> SUFFICES ASSUME NEW a \in air', NEW j \in Slots, slot'[j].dev = a.dev,
                    slot'[j].frame = a.frame, slot'[j].remote = a.remote, slot'[j].cmd = a.cmd
             PROVE  a.from = HandleOf(j)'
  BY DEF Latest, Matches
<1>1. SendFrame(r) # 0 /\ r.dev # NULL
  <2>1. SendFrame(r) \in 1 .. FrameMax
    BY SendFrameType DEF IInv
  <2> QED
    BY <2>1, ConstantTypes
<1> DEFINE new == [dev |-> r.dev, frame |-> SendFrame(r), remote |-> r.remote,
                   cmd |-> r.cmd, from |-> HandleOf(i)]
<1>2. a = new \/ (a \in air /\ ~(a.dev = r.dev /\ a.frame = SendFrame(r)))
  BY DEF Airborne
<1>3. CASE a = new
  <2>1. /\ a.dev = r.dev /\ a.frame = SendFrame(r) /\ a.remote = r.remote /\ a.cmd = r.cmd
        /\ a.from = HandleOf(i)
    BY <1>3
  <2>2. i = j
    BY <1>1, <2>1 DEF Distinct
  <2> QED
    BY <2>1, <2>2 DEF HandleOf
<1>4. CASE a \in air /\ ~(a.dev = r.dev /\ a.frame = SendFrame(r))
  <2>1. j # i
    BY <1>4
  <2>2. slot'[j] = slot[j]
    BY <2>1
  <2>3. j \in Matches(a)
    BY <2>2 DEF Matches
  <2> QED
    BY <1>4, <2>2, <2>3 DEF Latest, HandleOf
<1> QED
  BY <1>2, <1>3, <1>4

\* The fields of a request that is sent.
LEMMA SentFields ==
    ASSUME IInv, NEW r \in Request, r.dev \in Dev, NEW ok
    PROVE  /\ r.cb # "none" =>
                /\ Sent(r, ok).dev = r.dev /\ Sent(r, ok).seq = r.seq
                /\ Sent(r, ok).frame = SendFrame(r)
                /\ Sent(r, ok).remote = r.remote /\ Sent(r, ok).cmd = r.cmd
           /\ r.cb = "none" => Sent(r, ok).dev = NULL \/ Sent(r, ok).frame = 0
<1> DEFINE s == [r EXCEPT !.frame = SendFrame(r)]
<1>1. /\ s \in Request /\ s.dev = r.dev /\ s.seq = r.seq /\ s.cb = r.cb
      /\ s.frame = SendFrame(r) /\ s.remote = r.remote /\ s.cmd = r.cmd
  BY SendFrameType DEF Request, IInv
<1>2. r.cb # "none" => s.frame # 0
  BY <1>1, SendFrameType, ConstantTypes DEF IInv
<1>3. r.cb = "none" => s.frame = 0
  BY <1>1 DEF SendFrame
<1>4. Released(s).dev = NULL
  BY <1>1, ReleasedType
<1> HIDE DEF s
<1>5. Sent(r, ok) = IF ok /\ s.frame # 0
                    THEN [s EXCEPT !.timer = IF r.remote THEN RemoteTimeout ELSE LocalTimeout]
                    ELSE IF ok /\ ~r.reuse THEN Released(s) ELSE s
  BY DEF Sent, s
<1>6. CASE ok /\ s.frame # 0
  BY <1>1, <1>3, <1>5, <1>6 DEF Request
<1>7. CASE ~(ok /\ s.frame # 0)
  BY <1>1, <1>2, <1>3, <1>4, <1>5, <1>7
<1> QED
  BY <1>6, <1>7

\* xbee_cmd_send(), by the application and for the list.
LEMMA TransmitAnswers ==
    ASSUME IInv, Latest, Distinct', NEW i \in Slots, NEW r \in Request, r.dev \in Dev,
           r.seq = slot[i].seq, NEW ok,
           slot' = [slot EXCEPT ![i] = Sent(r, ok)], Transmit(i, r, ok)
    PROVE  Latest'
<1>1. slot'[i] = Sent(r, ok) /\ \A j \in Slots : j # i => slot'[j] = slot[j]
  BY DEF IInv, TypeOK
<1>2. CASE r.cb = "none"
  <2>1. air' \subseteq air
    BY <1>2 DEF Transmit
  <2>2. slot'[i].dev = NULL \/ slot'[i].frame = 0
    BY <1>1, <1>2, SentFields
  <2> QED
    BY <1>1, <2>1, <2>2, MatchedLess
<1>3. CASE r.cb # "none"
  <2>1. air' = Airborne(i, r, air, ok)
    BY <1>3 DEF Transmit
  <2>2. /\ slot'[i].dev = r.dev /\ slot'[i].seq = r.seq /\ slot'[i].frame = SendFrame(r)
        /\ slot'[i].remote = r.remote /\ slot'[i].cmd = r.cmd
    BY <1>1, <1>3, SentFields
  <2> QED
    BY <1>1, <1>3, <2>1, <2>2, MatchedSent
<1> QED
  BY <1>2, <1>3

\* The stack is called, and returns.
LEMMA AnswersPush ==
    ASSUME NEW stack \in Seq(Activation), NEW a \in Activation, OwnAnswers(stack),
           IsCallback(a) => a.from = a.h
    PROVE  OwnAnswers(Append(stack, a))
<1> QED
  BY MembersPush DEF OwnAnswers

LEMMA AnswersReturn ==
    ASSUME TypeOK, call # <<>>, OwnAnswers(call)
    PROVE  OwnAnswers(Below)
<1> QED
  BY MembersTop DEF OwnAnswers

LEMMA AnswersNone == OwnAnswers(<<>>)
BY MembersNone DEF OwnAnswers

\* A slot is given back.
LEMMA ReleaseAnswers ==
    ASSUME IInv, Latest, NEW i \in Slots, slot' = [slot EXCEPT ![i] = Released(@)],
           UNCHANGED air
    PROVE  Latest'
<1>1. slot'[i].dev = NULL /\ \A j \in Slots : j # i => slot'[j] = slot[j]
  BY RequestType, ReleasedType DEF IInv, TypeOK
<1> QED
  BY <1>1, MatchedLess

LEMMA TickReleasesAnswers ==
    ASSUME IInv, AnswerInv, NEW i \in Slots, slot[i].dev \in Dev,
           NEW rest \in Seq(Activation), OwnAnswers(rest), TickReleases(i, rest), UNCHANGED air
    PROVE  AnswerInv'
<1>1. Latest'
  BY ReleaseAnswers DEF TickReleases, AnswerInv
<1> DEFINE q == QueryCall(slot[i].dev, TRUE)
<1>2. q \in Activation /\ q.fn = "query"
  BY QueryCallType
<1>3. call' = rest \/ call' = Append(rest, q)
  BY DEF TickReleases
<1> HIDE DEF q
<1>4. OwnAnswers(call')
  BY <1>2, <1>3, AnswersPush DEF IsCallback
<1> QED
  BY <1>1, <1>4 DEF AnswerInv, OwnAnswers

\* A callback that is done: its slot is given back, whoever holds it now.
LEMMA DoneAnswers ==
    ASSUME IInv, AnswerInv, ListReturns \/ AppReturnsDone
    PROVE  AnswerInv'
<1>1. /\ call # <<>> /\ IsCallback(Top) /\ UNCHANGED air
      /\ IF Top.by = "tick" THEN TickReleases(Top.h.slot, Below)
         ELSE slot' = [slot EXCEPT ![Top.h.slot] = Released(@)] /\ call' = Below
  BY DEF ListReturns, AppReturnsDone, TopIs, IsCallback
<1>2. Top \in Activation /\ Below \in Seq(Activation) /\ OwnAnswers(Below) /\ TypeOK
  BY <1>1, BelowShape, AnswersReturn DEF IInv, AnswerInv
<1>3. Top.h.slot \in Slots
  BY <1>1, <1>2, ActivationFields DEF Handle
<1>4. CASE Top.by = "tick"
  <2>1. slot[Top.h.slot].dev \in Dev
    BY <1>1, <1>2, <1>3, <1>4, TopOwns, RequestType DEF Owns
  <2> QED
    BY <1>1, <1>2, <1>3, <1>4, <2>1, TickReleasesAnswers
<1>5. CASE Top.by # "tick"
  <2>1. Latest'
    BY <1>1, <1>3, <1>5, ReleaseAnswers DEF AnswerInv
  <2> QED
    BY <1>1, <1>2, <1>5, <2>1 DEF AnswerInv, OwnAnswers
<1> QED
  BY <1>4, <1>5

LEMMA ReuseAnswers ==
    ASSUME IInv, AnswerInv, AppReturnsReuse
    PROVE  AnswerInv'
<1>1. call # <<>> /\ IsCallback(Top) /\ call' = Below /\ UNCHANGED air
  BY DEF AppReturnsReuse, TopIs, IsCallback
<1>2. Top \in Activation /\ OwnAnswers(Below)
  BY <1>1, BelowShape, AnswersReturn DEF IInv, AnswerInv
<1>3. Top.h.slot \in Slots
  BY <1>1, <1>2, ActivationFields DEF Handle
<1>4. \A i \in Slots : /\ slot'[i].dev = slot[i].dev /\ slot'[i].seq = slot[i].seq
                       /\ slot'[i].frame = slot[i].frame /\ slot'[i].remote = slot[i].remote
                       /\ slot'[i].cmd = slot[i].cmd
  <2>1. slot' = slot \/ slot' = [slot EXCEPT ![Top.h.slot].timer = ReuseTimeout]
    BY DEF AppReturnsReuse
  <2> PICK k \in Slots : k = Top.h.slot
    BY <1>3
  <2>2. slot'[k] \in {slot[k], [slot[k] EXCEPT !.timer = ReuseTimeout]}
        /\ \A i \in Slots : i # k => slot'[i] = slot[i]
    BY <2>1 DEF IInv, TypeOK
  <2>3. slot[k] \in Request
    BY RequestType DEF IInv
  <2> QED
    BY <2>2, <2>3 DEF Request
<1>5. Latest'
  BY <1>1, <1>4, MatchedLess DEF AnswerInv
<1> QED
  BY <1>1, <1>2, <1>5 DEF AnswerInv, OwnAnswers

\* Calls and returns that leave the table and the air alone.
LEMMA SameAnswers ==
    ASSUME IInv, AnswerInv, UNCHANGED slot, air' \subseteq air, OwnAnswers(call')
    PROVE  AnswerInv'
<1>1. Latest'
  BY MatchedLess DEF AnswerInv
<1> QED
  BY <1>1 DEF AnswerInv, OwnAnswers

LEMMA CallsAnswer ==
    ASSUME IInv, AnswerInv,
           \/ \E d \in Dev : AppCreate(d) \/ ModemStatus(d)
           \/ QueryDevice \/ CreateInitsDevice \/ CreateTicksFirst \/ CreateFails
           \/ CmdTick \/ TickEnds
           \/ \E h \in held : AppFindsStale(h)
    PROVE  AnswerInv'
<1>1. UNCHANGED <<slot, air>>
  BY DEF AppCreate, ModemStatus, QueryDevice, CreateInitsDevice, CreateTicksFirst,
         CreateFails, CmdTick, TickEnds, AppFindsStale
<1> SUFFICES OwnAnswers(call')
  BY <1>1, SameAnswers
<1>2. TypeOK /\ call \in Seq(Activation) /\ OwnAnswers(call) /\ <<>> \in Seq(Activation)
  BY EmptySeq DEF IInv, TypeOK, AnswerInv
<1>3. ASSUME call # <<>>
      PROVE  Below \in Seq(Activation) /\ Top \in Activation /\ OwnAnswers(Below)
  BY <1>2, <1>3, BelowShape, AnswersReturn DEF IInv
<1>4. \A i \in 0 .. N : TickCall(i) \in Activation /\ TickCall(i).fn = "tick"
  BY TickCallType
<1>5. \A d \in Dev, r \in BOOLEAN : QueryCall(d, r) \in Activation /\ QueryCall(d, r).fn = "query"
  BY QueryCallType
<1>6. 0 \in 0 .. N
  BY ConstantTypes
<1>7. ASSUME NEW d \in Dev, AppCreate(d) PROVE OwnAnswers(call')
  <2>1. /\ CreateCall(d, "app", 1, FALSE) \in Activation
        /\ CreateCall(d, "app", 1, FALSE).fn = "create"
    BY ConstantTypes, CreateCallType
  <2> QED
    BY <1>2, <1>7, <2>1, AnswersPush DEF AppCreate, IsCallback
<1>8. ASSUME NEW d \in Dev, ModemStatus(d) PROVE OwnAnswers(call')
  <2>1. <<QueryCall(d, TRUE)>> = Append(<<>>, QueryCall(d, TRUE))
    OBVIOUS
  <2> QED
    BY <1>2, <1>5, <1>8, <2>1, AnswersNone, AnswersPush DEF ModemStatus, IsCallback
<1>9. CASE QueryDevice
  <2>1. call # <<>> /\ Top.fn = "query"
    BY <1>9 DEF QueryDevice, TopIs
  <2>2. Top.dev \in Dev /\ 1 \in 1 .. Len(List) /\ RefreshIdx \in 1 .. Len(List)
    BY <1>3, <2>1, ActivationFields, ConstantTypes
  <2>3. \E start \in 1 .. Len(List) :
           call' = Below \/ call' = Append(Below, CreateCall(Top.dev, "query", start, FALSE))
    BY <1>9, <2>2 DEF QueryDevice
  <2> PICK start \in 1 .. Len(List) :
           call' = Below \/ call' = Append(Below, CreateCall(Top.dev, "query", start, FALSE))
    BY <2>3
  <2>4. /\ CreateCall(Top.dev, "query", start, FALSE) \in Activation
        /\ CreateCall(Top.dev, "query", start, FALSE).fn = "create"
    BY <2>2, CreateCallType
  <2> QED
    BY <1>3, <2>1, <2>4, AnswersPush DEF IsCallback
<1>10. CASE CreateInitsDevice
  <2>1. call # <<>> /\ Top.fn = "create"
    BY <1>10 DEF CreateInitsDevice, TopIs
  <2>2. Top.dev \in Dev
    BY <1>3, <2>1, ActivationFields
  <2>3. call' = call \/ call' = Append(call, QueryCall(Top.dev, FALSE))
    BY <1>10 DEF CreateInitsDevice
  <2> QED
    BY <1>2, <1>5, <2>2, <2>3, AnswersPush DEF IsCallback
<1>11. CASE CreateTicksFirst
  <2>1. call # <<>> /\ Top.fn = "create"
    BY <1>11 DEF CreateTicksFirst, Creating, TopIs
  <2> DEFINE a == [Top EXCEPT !.retry = TRUE]
             again == Append(Below, a)
  <2>2. a \in Activation /\ a.fn = "create"
    BY <1>3, <2>1, ActivationFields
  <2>3. call' = again \/ call' = Append(again, TickCall(0))
    BY <1>11 DEF CreateTicksFirst
  <2> HIDE DEF a
  <2>4. again \in Seq(Activation) /\ OwnAnswers(again)
    BY <1>3, <2>1, <2>2, AnswersPush, AppendProperties DEF IsCallback
  <2> HIDE DEF again
  <2> QED
    BY <1>4, <1>6, <2>3, <2>4, AnswersPush DEF IsCallback
<1>12. CASE CreateFails \/ TickEnds
  BY <1>3, <1>12 DEF CreateFails, TickEnds, Creating, TopIs
<1>13. CASE CmdTick
  <2>1. <<TickCall(0)>> = Append(<<>>, TickCall(0))
    OBVIOUS
  <2> QED
    BY <1>2, <1>4, <1>6, <1>13, <2>1, AnswersNone, AnswersPush DEF CmdTick, IsCallback
<1>14. ASSUME NEW h \in held, AppFindsStale(h) PROVE OwnAnswers(call')
  BY <1>2, <1>14 DEF AppFindsStale
<1> QED
  BY <1>7, <1>8, <1>9, <1>10, <1>11, <1>12, <1>13, <1>14
\* Time passes; a request is released; a response is lost or dropped.
LEMMA FewerAnswers ==
    ASSUME IInv, AnswerInv,
           \/ Second
           \/ \E h \in held : AppRelease(h)
           \/ \E a \in air : ResponseUnmatched(a) \/ Lose(a)
    PROVE  AnswerInv'
<1>1. UNCHANGED call /\ air' \subseteq air
  BY DEF Second, AppRelease, ResponseUnmatched, Lose
<1>2. CASE Second
  <2>1. \A i \in Slots : slot[i] \in Request
    BY RequestType DEF IInv
  <2>2. \A i \in Slots : slot'[i] \in {slot[i], [slot[i] EXCEPT !.timer = @ - 1]}
    BY <1>2 DEF Second
  <2>3. \A i \in Slots : /\ slot'[i].dev = slot[i].dev /\ slot'[i].seq = slot[i].seq
                         /\ slot'[i].frame = slot[i].frame /\ slot'[i].remote = slot[i].remote
                         /\ slot'[i].cmd = slot[i].cmd
    BY <2>1, <2>2 DEF Request
  <2>4. Latest'
    BY <1>1, <2>3, MatchedLess DEF AnswerInv
  <2> QED
    BY <1>1, <2>4 DEF AnswerInv, OwnAnswers
<1>3. ASSUME NEW h \in held, AppRelease(h) PROVE AnswerInv'
  <2>1. h.slot \in Slots /\ slot' = [slot EXCEPT ![h.slot] = Released(@)] /\ UNCHANGED air
    BY <1>3 DEF AppRelease, IInv, TypeOK, Handle
  <2>2. Latest'
    BY <2>1, ReleaseAnswers DEF AnswerInv
  <2> QED
    BY <1>1, <2>2 DEF AnswerInv, OwnAnswers
<1>4. ASSUME NEW a \in air, ResponseUnmatched(a) \/ Lose(a) PROVE AnswerInv'
  <2>1. UNCHANGED slot
    BY <1>4 DEF ResponseUnmatched, Lose
  <2> QED
    BY <1>1, <2>1, SameAnswers DEF AnswerInv
<1> QED
  BY <1>2, <1>3, <1>4

\* xbee_cmd_create() finds a slot; for the list it also sends the command.
LEMMA CreateAnswers ==
    ASSUME IInv, AnswerInv, Distinct', CreateInFreeSlot
    PROVE  AnswerInv'
<1> DEFINE i == FirstOf(FreeSlots)
           d == Top.dev
<1>1. call # <<>> /\ Top.fn = "create" /\ FreeSlots # {} /\ call' = Below
  BY DEF CreateInFreeSlot, Creating, TopIs
<1>2. Top \in Activation /\ OwnAnswers(Below)
  BY <1>1, BelowShape, AnswersReturn DEF IInv, AnswerInv
<1>3. i \in Slots /\ d \in Dev /\ Top.start \in 1 .. Len(List)
  <2>1. FreeSlots \in SUBSET Slots
    BY DEF FreeSlots
  <2>2. i \in FreeSlots
    BY <1>1, <2>1, FirstSlot
  <2> QED
    BY <1>1, <1>2, <2>1, <2>2, ActivationFields
<1>4. CASE Top.for = "query"
  <2>1. PICK ok \in BOOLEAN : ExecuteList(d, i, Top.start, ok)
    BY <1>4 DEF CreateInFreeSlot
  <2> DEFINE c == Created(i, d, List[Top.start])
             r == [c EXCEPT !.cb = "list"]
  <2>2. c \in Request /\ c.dev = d /\ c.seq = slot[i].seq
    <3>1. List[Top.start] \in Cmd /\ TypeOK
      BY <1>3, ConstantTypes DEF IInv
    <3> HIDE DEF i, d
    <3> QED
      BY <1>3, <3>1, CreatedType
  <2>3. slot' = [slot EXCEPT ![i] = Sent(r, ok)] /\ Transmit(i, r, ok)
    BY <2>1 DEF ExecuteList
  <2> HIDE DEF i, c
  <2>4. r \in Request /\ r.dev \in Dev /\ r.seq = slot[i].seq
    BY <1>3, <2>2 DEF Request, Callback
  <2> HIDE DEF r
  <2>5. Latest'
    BY <1>3, <2>3, <2>4, TransmitAnswers DEF AnswerInv
  <2> QED
    BY <1>1, <1>2, <2>5 DEF AnswerInv, OwnAnswers
<1>5. CASE Top.for # "query"
  <2>1. PICK c \in AppCmd : slot' = [slot EXCEPT ![i] = Created(i, d, c)] /\ UNCHANGED air
    BY <1>5 DEF CreateInFreeSlot
  <2>2. Created(i, d, c).frame = 0
    BY DEF Created, Blank
  <2> HIDE DEF i
  <2>3. slot'[i].frame = 0 /\ \A j \in Slots : j # i => slot'[j] = slot[j]
    BY <1>3, <2>1, <2>2 DEF IInv, TypeOK
  <2>4. Latest'
    BY <2>1, <2>3, MatchedLess DEF AnswerInv
  <2> QED
    BY <1>1, <1>2, <2>4 DEF AnswerInv, OwnAnswers
<1> QED
  BY <1>4, <1>5

LEMMA AppSendAnswers ==
    ASSUME IInv, AnswerInv, Distinct', NEW h \in held, NEW remote \in BOOLEAN,
           NEW reuse \in BOOLEAN, NEW cb \in {"none", "app"}, AppSend(h, remote, reuse, cb)
    PROVE  AnswerInv'
<1> DEFINE i == h.slot
           r == [slot[i] EXCEPT !.remote = remote, !.reuse = reuse, !.cb = cb]
<1>1. PICK ok \in BOOLEAN : slot' = [slot EXCEPT ![i] = Sent(r, ok)] /\ Transmit(i, r, ok)
  BY DEF AppSend
<1>2. Live(h) /\ UNCHANGED call
  BY DEF AppSend
<1>3. i \in Slots
  BY DEF IInv, TypeOK, Handle
<1>4. slot[i] \in Request /\ slot[i].dev \in Dev /\ cb \in Callback
  BY <1>2, <1>3, RequestType DEF Callback, Live, IInv
<1> HIDE DEF i
<1>5. r \in Request /\ r.dev \in Dev /\ r.seq = slot[i].seq
  BY <1>4 DEF Request
<1> HIDE DEF r
<1>6. Latest'
  BY <1>1, <1>3, <1>5, TransmitAnswers DEF AnswerInv
<1> QED
  BY <1>2, <1>6 DEF AnswerInv, OwnAnswers

\* The list callback is called, and above it the query if a refresh is due.
LEMMA EndQueryAnswers ==
    ASSUME TypeOK, clc.base \in Dev, NEW rest \in Seq(Activation), OwnAnswers(rest),
           NEW a \in Activation, a.from = a.h, NEW failed \in BOOLEAN, EndQuery(rest, a, failed)
    PROVE  OwnAnswers(call')
<1> DEFINE q == QueryCall(clc.base, TRUE)
           one == Append(rest, a)
<1>1. call' = one \/ call' = Append(one, q)
  BY EndQueryCalls
<1>2. one \in Seq(Activation) /\ OwnAnswers(one)
  BY AnswersPush, AppendProperties
<1>3. q \in Activation /\ q.fn = "query"
  BY QueryCallType
<1> HIDE DEF q, one
<1> QED
  BY <1>1, <1>2, <1>3, AnswersPush DEF IsCallback

\* A callback is called for a request that has expired: there is no answer.
LEMMA ExpiresAnswers ==
    ASSUME IInv, AnswerInv, TickExpires
    PROVE  AnswerInv'
<1> DEFINE i == FirstOf(Expired)
           rest == Append(Below, TickCall(i + 1))
<1>1. call # <<>> /\ Top.fn = "tick" /\ Expired # {} /\ UNCHANGED air
  BY DEF TickExpires, TopIs
<1>2. Below \in Seq(Activation) /\ OwnAnswers(Below) /\ TypeOK
  BY <1>1, BelowShape, AnswersReturn DEF IInv, AnswerInv
<1>3. i \in Slots /\ slot[i].dev \in Dev /\ HandleOf(i) \in Handle
  <2>1. Expired \in SUBSET Slots
    BY DEF Expired
  <2>2. i \in Expired
    BY <1>1, <2>1, FirstSlot
  <2> QED
    BY <1>2, <2>1, <2>2, RequestType DEF Expired
<1>4. i + 1 \in 0 .. N
  BY <1>3, ConstantTypes DEF Slots
<1>5. TickCall(i + 1) \in Activation /\ ~IsCallback(TickCall(i + 1))
  BY <1>4, TickCallType DEF IsCallback
<1>6. \/ slot[i].cb = "none" /\ TickReleases(i, rest)
      \/ slot[i].cb = "app" /\ TellApp(i, rest)
      \/ /\ slot[i].cb = "list" /\ UNCHANGED slot
         /\ EndQuery(rest, CallbackCall("listcb", i, HandleOf(i), "tick"), TRUE)
  BY DEF TickExpires
<1> HIDE DEF i
<1>7. rest \in Seq(Activation) /\ OwnAnswers(rest)
  BY <1>2, <1>5, AnswersPush, AppendProperties
<1> HIDE DEF rest
<1> DEFINE a(f) == CallbackCall(f, i, HandleOf(i), "tick")
<1>8. \A f \in {"appcb", "listcb"} : a(f) \in Activation /\ a(f).from = a(f).h
  BY <1>2, <1>3, CallbackCallType DEF CallbackCall
<1>9. CASE TickReleases(i, rest)
  BY <1>1, <1>3, <1>7, <1>9, TickReleasesAnswers
<1>10. CASE TellApp(i, rest)
  <2>1. OwnAnswers(call') /\ UNCHANGED slot
    BY <1>7, <1>8, <1>10, AnswersPush DEF TellApp
  <2> QED
    BY <1>1, <2>1, SameAnswers
<1>11. CASE slot[i].cb = "list" /\ UNCHANGED slot /\ EndQuery(rest, a("listcb"), TRUE)
  <2>1. clc.base \in Dev
    BY <1>3, <1>11, ListBase
  <2>2. OwnAnswers(call')
    BY <1>2, <1>7, <1>8, <1>11, <2>1, EndQueryAnswers
  <2> QED
    BY <1>1, <1>11, <2>2, SameAnswers
<1> QED
  BY <1>6, <1>9, <1>10, <1>11
\* The response that is dispatched is that of the request it matches.
LEMMA MatchedOwn ==
    ASSUME IInv, Latest, NEW a \in air, Matches(a) # {},
           NEW f \in {"appcb", "listcb"}
    PROVE  /\ CallbackCall(f, FirstOf(Matches(a)), a.from, "response") \in Activation
           /\ CallbackCall(f, FirstOf(Matches(a)), a.from, "response").from
              = CallbackCall(f, FirstOf(Matches(a)), a.from, "response").h
<1> DEFINE i == FirstOf(Matches(a))
<1>1. i \in Matches(a)
  <2>1. Matches(a) \in SUBSET Slots
    BY DEF Matches
  <2> QED
    BY <2>1, FirstSlot
<1>2. i \in Slots /\ a.from = HandleOf(i) /\ a.from \in Handle
  BY <1>1 DEF Latest, Matches, IInv, TypeOK, Response
<1> HIDE DEF i
<1>3. CallbackCall(f, i, a.from, "response") \in Activation
  BY <1>2, CallbackCallType DEF IInv
<1>4. CallbackCall(f, i, a.from, "response").from = CallbackCall(f, i, a.from, "response").h
  BY <1>2 DEF CallbackCall
<1> QED
  BY <1>3, <1>4 DEF i

LEMMA ResponseToAppAnswers ==
    ASSUME IInv, AnswerInv, NEW a \in air, ResponseToApp(a)
    PROVE  AnswerInv'
<1> DEFINE c == CallbackCall("appcb", FirstOf(Matches(a)), a.from, "response")
<1>1. Matches(a) # {} /\ call' = <<c>> /\ UNCHANGED slot /\ air' \subseteq air
  BY DEF ResponseToApp, Consume
<1>2. c \in Activation /\ c.from = c.h
  BY <1>1, MatchedOwn DEF AnswerInv
<1> HIDE DEF c
<1>3. <<c>> = Append(<<>>, c) /\ <<>> \in Seq(Activation)
  BY EmptySeq
<1>4. OwnAnswers(<<c>>)
  BY <1>2, <1>3, AnswersNone, AnswersPush
<1> QED
  BY <1>1, <1>4, SameAnswers

LEMMA ResponseEndsListAnswers ==
    ASSUME IInv, AnswerInv, NEW a \in air, ResponseEndsList(a)
    PROVE  AnswerInv'
<1> DEFINE c == CallbackCall("listcb", FirstOf(Matches(a)), a.from, "response")
<1>1. /\ Matches(a) # {} /\ slot[FirstOf(Matches(a))].cb = "list"
      /\ UNCHANGED slot /\ air' \subseteq air
      /\ call' = <<c>> \/ \E failed \in BOOLEAN : EndQuery(<<>>, c, failed)
  BY DEF ResponseEndsList
<1>2. c \in Activation /\ c.from = c.h /\ clc.base \in Dev /\ TypeOK
  BY <1>1, MatchedOwn, MatchedSlot, ListBase DEF AnswerInv, IInv
<1> HIDE DEF c
<1>3. <<c>> = Append(<<>>, c) /\ <<>> \in Seq(Activation)
  BY EmptySeq
<1>4. OwnAnswers(call')
  BY <1>1, <1>2, <1>3, AnswersNone, AnswersPush, EndQueryAnswers
<1> QED
  BY <1>1, <1>4, SameAnswers

LEMMA ResponseAdvancesListAnswers ==
    ASSUME IInv, AnswerInv, Distinct', NEW a \in air, ResponseAdvancesList(a)
    PROVE  AnswerInv'
<1> DEFINE i == FirstOf(Matches(a))
           r == [slot[i] EXCEPT !.cmd = List[Current + 1]]
<1>1. Matches(a) # {} /\ slot[i].cb = "list" /\ Current < Len(List) /\ UNCHANGED call
  BY DEF ResponseAdvancesList
<1>2. PICK ok \in BOOLEAN :
        /\ slot' = [slot EXCEPT ![i] = [Sent(r, ok) EXCEPT !.timer = ReuseTimeout]]
        /\ air' = Airborne(i, r, air \ {a}, ok)
  BY DEF ResponseAdvancesList
<1>3. i \in Slots /\ slot[i].dev \in Dev
  BY <1>1, MatchedSlot DEF Response
<1>4. List[Current + 1] \in Cmd
  <2>1. clc.list \in 1 .. Len(List) /\ clc.index \in 0 .. Len(List) /\ Len(List) \in Nat
    BY ConstantTypes DEF IInv, TypeOK, Context
  <2>2. Current + 1 \in 1 .. Len(List)
    BY <1>1, <2>1 DEF Current
  <2> QED
    BY <2>2, ConstantTypes
<1>5. slot[i] \in Request
  BY <1>3, RequestType DEF IInv
<1> HIDE DEF i
<1>6. r \in Request /\ r.dev \in Dev /\ r.seq = slot[i].seq /\ r.cb = "list"
  BY <1>1, <1>3, <1>4, <1>5 DEF Request
<1> HIDE DEF r
<1> DEFINE s == [Sent(r, ok) EXCEPT !.timer = ReuseTimeout]
<1>7. /\ s.dev = r.dev /\ s.seq = r.seq /\ s.frame = SendFrame(r)
      /\ s.remote = r.remote /\ s.cmd = r.cmd
  <2>1. Sent(r, ok) \in Request
    BY <1>6, SentType DEF IInv
  <2> QED
    BY <1>6, <2>1, SentFields DEF Request
<1> HIDE DEF s
<1>8. slot'[i] = s /\ \A j \in Slots : j # i => slot'[j] = slot[j]
  BY <1>2, <1>3 DEF IInv, TypeOK, s
<1>9. air \ {a} \in SUBSET air /\ r.cb # "none"
  BY <1>6
<1>10. Latest'
  BY <1>2, <1>3, <1>6, <1>7, <1>8, <1>9, MatchedSent DEF AnswerInv
<1> QED
  BY <1>1, <1>10 DEF AnswerInv, OwnAnswers

LEMMA StepAnswers == IInv /\ AnswerInv /\ Distinct' /\ [Next]_vars => AnswerInv'
<1> SUFFICES ASSUME IInv, AnswerInv, Distinct', [Next]_vars PROVE AnswerInv'
  OBVIOUS
<1>1. CASE Library
  BY <1>1, CallsAnswer, CreateAnswers, ExpiresAnswers, DoneAnswers DEF Library
<1>2. CASE App
  BY <1>2, CallsAnswer, AppSendAnswers, FewerAnswers, DoneAnswers, ReuseAnswers DEF App
<1>3. CASE CmdTick
  BY <1>3, CallsAnswer
<1>4. CASE Environment
  BY <1>4, CallsAnswer, FewerAnswers, ResponseToAppAnswers, ResponseAdvancesListAnswers,
     ResponseEndsListAnswers DEF Environment, Respond
<1>5. CASE UNCHANGED vars
  BY <1>5 DEF vars, AnswerInv, Latest, Matches, HandleOf, OwnAnswers
<1> QED
  BY <1>1, <1>2, <1>3, <1>4, <1>5 DEF Next

\* As long as no two requests in the table wait for the same answer, that is, as long as no
\* frame id comes round to a command that is still unanswered, a callback is given the answer to a
\* command sent on its own request: never a late one, to an earlier request of the same
\* slot or of another, whatever expires, is lost, refused, sent again or created from a callback.
THEOREM AnswersOwnRequestHolds == Spec /\ []Distinct => []AnswersOwnRequest
<1>1. Init => AnswerInv
  BY AnswersNone DEF Init, AnswerInv, Latest
<1>2. AnswerInv => AnswersOwnRequest
  BY DEF AnswerInv, OwnAnswers, Members, AnswersOwnRequest, Callbacks, IsCallback
<1> QED
  BY InitIInv, StepIInv, StepAnswers, <1>1, <1>2, PTL DEF Spec
=============================================================================
