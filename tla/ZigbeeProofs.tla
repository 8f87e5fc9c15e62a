------------------------------- MODULE ZigbeeProofs ----------------------------
(***************************************************************************)
(* Theorems about the ZigBee components: about Conversation, for tables of *)
(* any size and any number of ids, and about Commissioning, for any        *)
(* registers, networks and requests of the tool.                           *)
(***************************************************************************)
EXTENDS Conversation, Commissioning, SequenceTheorems, FiniteSetTheorems, TLAPS

-----------------------------------------------------------------------------
(* The inductive invariant *)

\* An endpoint numbers its requests, and a transaction id is such a number mod Ids.
Numbered ==
    /\ \A e \in Endpoint : last[e] = issued[e] % Ids
    /\ \A r \in DOMAIN asked : /\ asked[r].number \in 1 .. issued[asked[r].ep]
                               /\ asked[r].id = asked[r].number % Ids
    /\ \A r, s \in DOMAIN asked :
          r < s /\ asked[r].ep = asked[s].ep => asked[r].number < asked[s].number

\* A slot that is in use holds a request of its endpoint, as it was made ...
Holds(c, e) ==
    /\ c.context \in DOMAIN asked
    /\ asked[c.context].ep = e
    /\ asked[c.context].handler = c.handler
    /\ asked[c.context].id = c.transaction_id

\* ... and no other slot holds that request.
Slotted ==
    /\ \A e \in Endpoint, i \in Slot : InUse(slot[e][i]) => Holds(slot[e][i], e)
    /\ \A e, d \in Endpoint, i, j \in Slot :
          InUse(slot[e][i]) /\ InUse(slot[d][j]) /\ slot[e][i].context = slot[d][j].context
             => e = d /\ i = j

\* The handler that runs is that of the request its slot holds, unless it deleted it;
\* an answer it was given bears the id of its request.
Called ==
    call.what # "none" =>
       /\ call.of \in DOMAIN asked
       /\ asked[call.of].ep = call.ep
       /\ ~call.deleted => InUse(slot[call.ep][call.slot]) /\ slot[call.ep][call.slot].context = call.of
       /\ call.deleted => asked[call.of].handler = "custom" /\ ~Open(call.of)
       /\ call.what = "answer" =>
             /\ call.answers \in DOMAIN asked
             /\ asked[call.answers].ep = call.ep
             /\ asked[call.answers].id = asked[call.of].id
             /\ asked[call.of].handler = "address" => call.last

\* The slot of a conversation that its handler deleted stays free while it runs.
Freed ==
    call.what # "none" /\ call.deleted => ~InUse(slot[call.ep][call.slot])

\* The second in a slot is the one its conversation ends in, or the second after it:
\* as long as the conversation has time left, that second is not more than half the
\* range of the counter away.
OnTime(c) ==
    LET r == asked[c.context]
        left == (c.timeout - now) % Wrap
    IN  /\ r.wait < Half
        /\ r.wait = 0 => c.timeout = 0
        /\ r.wait # 0 => c.timeout # 0
        /\ r.age < r.wait => left = r.wait - r.age \/ left = r.wait - r.age + 1

Clocked ==
    /\ \A e \in Endpoint, i \in Slot : InUse(slot[e][i]) => OnTime(slot[e][i])
    /\ NeverEarly

IInv == TypeOK /\ Numbered /\ Slotted /\ Called /\ Clocked
-----------------------------------------------------------------------------
(* Lemmas about ids, seconds and the history of requests *)

LEMMA Constants ==
    /\ Ids \in Nat /\ Ids > 0 /\ Half \in Nat /\ Half > 0
    /\ Wrap \in Nat /\ Wrap = Half + Half
    /\ Slots \in Nat /\ Slots > 0 /\ Endpoints \in Nat /\ Endpoints > 0
    /\ ZdoWait \in 1 .. Half - 1 /\ MatchWait \in 1 .. Half - 1 /\ Wait \subseteq 0 .. Half - 1
    /\ MaxGap \in Nat /\ MaxRequest \in Nat /\ MaxIssue \in Nat
    /\ ZDO \in Endpoint
BY ConvAssumption DEF Wrap, Endpoint, ZDO

LEMMA Times ==
    ASSUME NEW m \in Nat, NEW p \in Int, NEW q \in Int, p < q
    PROVE  m * q >= m * p + m
<1>1. m * (q - p - 1) >= 0
  <2>1. q - p - 1 \in Nat
    OBVIOUS
  <2>2. \A x, y \in Nat : x * y >= 0
    OBVIOUS
  <2> QED
    BY <2>1, <2>2
<1>2. m * (q - p - 1) = m * q - m * p - m
  BY SMT
<1> QED
  BY <1>1, <1>2

LEMMA Division ==
    ASSUME NEW m \in Nat, m > 0, NEW q \in Int, NEW r \in 0 .. m - 1
    PROVE  (m * q + r) % m = r
<1> DEFINE x == m * q + r
           d == x \div m
           y == x % m
<1>1. x \in Int
  OBVIOUS
<1>2. x = m * d + y /\ y \in 0 .. m - 1 /\ d \in Int
  <2> HIDE DEF x
  <2> QED
    BY <1>1, SMT
<1>3. m * q + r = m * d + y
  BY <1>2 DEF x
<1>4. m * q \in Int /\ m * d \in Int
  BY <1>2
<1> HIDE DEF d, y
<1>5. CASE q < d
  <2>1. m * d >= m * q + m
    BY <1>2, <1>5, Times
  <2> QED
    BY <1>2, <1>3, <1>4, <2>1
<1>6. CASE d < q
  <2>1. m * q >= m * d + m
    BY <1>2, <1>6, Times
  <2> QED
    BY <1>2, <1>3, <1>4, <2>1
<1>7. CASE q = d
  BY <1>2, <1>3, <1>4, <1>7 DEF y
<1> QED
  BY <1>2, <1>5, <1>6, <1>7

LEMMA NextIdCounts ==
    ASSUME NEW n \in Nat
    PROVE  NextId(n % Ids) = (n + 1) % Ids /\ n % Ids \in 0 .. Ids - 1
<1> USE Constants
<1> DEFINE q == n \div Ids
           r == n % Ids
<1>1. n = Ids * q + r /\ r \in 0 .. Ids - 1 /\ q \in Int
  BY SMT
<1> HIDE DEF q, r
<1>2. CASE r + 1 < Ids
  <2>1. n + 1 = Ids * q + (r + 1)
    BY <1>1
  <2>2. (n + 1) % Ids = r + 1
    BY <1>1, <1>2, <2>1, Division
  <2>3. (r + 1) % Ids = r + 1
    BY <1>1, <1>2, SMT
  <2> QED
    BY <1>1, <2>2, <2>3 DEF NextId, r
<1>3. CASE r + 1 = Ids
  <2>1. n + 1 = Ids * (q + 1) + 0
    BY <1>1, <1>3
  <2>2. (n + 1) % Ids = 0
    BY <1>1, <2>1, Division
  <2>3. (r + 1) % Ids = 0
    BY <1>1, <1>3, SMT
  <2> QED
    BY <1>1, <2>2, <2>3 DEF NextId, r
<1> QED
  BY <1>1, <1>2, <1>3

\* Requests with one id are a multiple of Ids apart.
LEMMA SameId ==
    ASSUME NEW m \in Nat, NEW n \in Nat, m < n, m % Ids = n % Ids
    PROVE  n - m >= Ids
<1> USE Constants
<1> DEFINE p == m \div Ids
           q == n \div Ids
           r == n % Ids
<1>1. /\ m = Ids * p + r /\ n = Ids * q + r /\ r \in 0 .. Ids - 1
      /\ p \in Int /\ q \in Int
  BY SMT
<1> HIDE DEF p, q, r
<1>2. CASE p < q
  BY <1>1, <1>2, Times
<1>3. CASE q < p
  <2>1. Ids * p >= Ids * q + Ids
    BY <1>1, <1>3, Times
  <2> QED
    BY <1>1, <2>1
<1> QED
  BY <1>1, <1>2, <1>3

\* The seconds counter, without the remainder.
LEMMA Seconds ==
    ASSUME NEW a \in 0 .. Wrap - 1, NEW b \in 0 .. Wrap - 1
    PROVE  /\ (a - b) % Wrap = IF a >= b THEN a - b ELSE a - b + Wrap
           /\ (a + 1) % Wrap = IF a + 1 = Wrap THEN 0 ELSE a + 1
           /\ (a + b) % Wrap = IF a + b < Wrap THEN a + b ELSE a + b - Wrap
<1> USE Constants
<1>1. (a - b) % Wrap = IF a >= b THEN a - b ELSE a - b + Wrap
  BY SMT
<1>2. (a + 1) % Wrap = IF a + 1 = Wrap THEN 0 ELSE a + 1
  BY SMT
<1>3. (a + b) % Wrap = IF a + b < Wrap THEN a + b ELSE a + b - Wrap
  BY SMT
<1> QED
  BY <1>1, <1>2, <1>3

LEMMA AskedType ==
    ASSUME asked \in Seq(Asked)
    PROVE  /\ DOMAIN asked = 1 .. Len(asked) /\ Len(asked) \in Nat
           /\ \A r \in DOMAIN asked :
                 /\ r \in Nat /\ asked[r].ep \in Endpoint /\ asked[r].handler \in Handler
                 /\ asked[r].id \in 0 .. Ids - 1 /\ asked[r].number \in Nat
                 /\ asked[r].wait \in Nat /\ asked[r].age \in Nat
<1>1. DOMAIN asked = 1 .. Len(asked) /\ Len(asked) \in Nat
  BY LenProperties
<1>2. \A r \in 1 .. Len(asked) : asked[r] \in Asked
  BY ElementOfSeq
<1> QED
  BY <1>1, <1>2 DEF Asked

\* The requests that were made are still there, as they were made.
Kept ==
    /\ Len(asked') = Len(asked)
    /\ DOMAIN asked' = DOMAIN asked
    /\ \A r \in DOMAIN asked :
          /\ asked'[r].ep = asked[r].ep
          /\ asked'[r].handler = asked[r].handler
          /\ asked'[r].id = asked[r].id
          /\ asked'[r].number = asked[r].number
          /\ asked'[r].wait = asked[r].wait

LEMMA StoreKeeps ==
    ASSUME TypeOK, call.of \in DOMAIN asked,
           NEW res \in {"value", "error", "timeout"}, Store(res)
    PROVE  /\ asked' \in Seq(Asked)
           /\ Kept
           /\ \A r \in DOMAIN asked :
                 /\ asked'[r].age = asked[r].age
                 /\ asked'[r].result = IF r = call.of THEN res ELSE asked[r].result
<1> DEFINE a == asked[call.of]
           b == [a EXCEPT !.result = res]
<1>1. asked \in Seq(Asked) /\ DOMAIN asked = 1 .. Len(asked) /\ call.of \in 1 .. Len(asked)
  BY LenProperties DEF TypeOK
<1>2. a \in Asked
  BY <1>1, ElementOfSeq
<1>3. /\ b \in Asked /\ b.ep = a.ep /\ b.handler = a.handler /\ b.id = a.id
      /\ b.number = a.number /\ b.wait = a.wait /\ b.age = a.age /\ b.result = res
  BY <1>2 DEF Asked
<1>4. asked' = [asked EXCEPT ![call.of] = b]
  BY DEF Store
<1> HIDE DEF b
<1>5. /\ asked' \in Seq(Asked) /\ Len(asked') = Len(asked)
      /\ \A j \in 1 .. Len(asked) : asked'[j] = IF j = call.of THEN b ELSE asked[j]
  BY <1>1, <1>3, <1>4, ExceptSeq
<1>6. DOMAIN asked' = DOMAIN asked
  BY <1>1, <1>5, LenProperties
<1> QED
  BY <1>1, <1>3, <1>5, <1>6 DEF Kept
LEMMA SecondKeeps ==
    ASSUME TypeOK, Second
    PROVE  /\ asked' \in Seq(Asked)
           /\ Kept
           /\ \A r \in DOMAIN asked :
                 /\ asked'[r].result = asked[r].result
                 /\ asked'[r].age = IF Open(r) /\ asked[r].age < asked[r].wait
                                    THEN asked[r].age + 1 ELSE asked[r].age
<1> DEFINE n == Len(asked)
<1>1. /\ asked \in Seq(Asked) /\ DOMAIN asked = 1 .. n /\ n \in Nat
      /\ \A r \in 1 .. n : asked[r] \in Asked
  BY LenProperties, ElementOfSeq DEF TypeOK
<1>2. /\ DOMAIN asked' = 1 .. n
      /\ asked' = [r \in 1 .. n |-> asked'[r]]
      /\ \A r \in 1 .. n : asked'[r] = IF Open(r) /\ asked[r].age < asked[r].wait
                                     THEN [asked[r] EXCEPT !.age = @ + 1] ELSE asked[r]
  BY <1>1 DEF Second
<1>3. ASSUME NEW r \in 1 .. n
      PROVE  /\ asked'[r] \in Asked
             /\ asked'[r].ep = asked[r].ep /\ asked'[r].handler = asked[r].handler
             /\ asked'[r].id = asked[r].id /\ asked'[r].number = asked[r].number
             /\ asked'[r].wait = asked[r].wait /\ asked'[r].result = asked[r].result
             /\ asked'[r].age = IF Open(r) /\ asked[r].age < asked[r].wait
                                THEN asked[r].age + 1 ELSE asked[r].age
  <2> DEFINE a == asked[r]
  <2>1. a \in Asked
    BY <1>1
  <2> HIDE DEF a
  <2>2. /\ [a EXCEPT !.age = @ + 1] \in Asked
        /\ [a EXCEPT !.age = @ + 1].ep = a.ep /\ [a EXCEPT !.age = @ + 1].handler = a.handler
        /\ [a EXCEPT !.age = @ + 1].id = a.id /\ [a EXCEPT !.age = @ + 1].number = a.number
        /\ [a EXCEPT !.age = @ + 1].wait = a.wait /\ [a EXCEPT !.age = @ + 1].result = a.result
        /\ [a EXCEPT !.age = @ + 1].age = a.age + 1
    BY <2>1 DEF Asked
  <2>3. asked'[r] = IF Open(r) /\ a.age < a.wait THEN [a EXCEPT !.age = @ + 1] ELSE a
    BY <1>2 DEF a
  <2>4. CASE Open(r) /\ a.age < a.wait
    BY <2>2, <2>3, <2>4 DEF a
  <2>5. CASE ~(Open(r) /\ a.age < a.wait)
    BY <2>1, <2>3, <2>5 DEF a
  <2> QED
    BY <2>4, <2>5
<1>4. asked' \in [1 .. n -> Asked]
  BY <1>2, <1>3
<1>5. asked' \in Seq(Asked)
  BY <1>1, <1>4, SeqDef
<1>6. Len(asked') = n
  BY <1>1, <1>2, <1>5, LenProperties
<1> QED
  BY <1>1, <1>2, <1>3, <1>5, <1>6 DEF Kept

\* A request that the endpoint takes: what Register() does, with the slot it found.
Opened(e, h, wait, result, i) ==
    /\ Issue(e)
    /\ Takes(e, i)
    /\ slot' = [slot EXCEPT ![e][i] =
          [transaction_id |-> NextId(last[e]), timeout |-> Deadline(wait),
           handler |-> h, context |-> Len(asked) + 1]]
    /\ asked' = Append(asked,
          [ep |-> e, handler |-> h, id |-> NextId(last[e]), number |-> issued[e] + 1,
           wait |-> wait, age |-> 0, result |-> result])
    /\ Len(asked) < MaxRequest
    /\ UNCHANGED <<now, idle, call>>

Asks(e, h, wait, result, i) ==
    /\ e \in Endpoint /\ h \in Handler /\ wait \in 0 .. Half - 1 /\ i \in Slot
    /\ result = IF h = "address" THEN "pending" ELSE "none"
    /\ Running
    /\ Opened(e, h, wait, result, i)

LEMMA AskOpens ==
    ASSUME AskAddress \/ AskMatch \/ AskCustom
    PROVE  \E e, h, wait, result, i : Asks(e, h, wait, result, i)
<1> USE Constants
<1>1. ASSUME NEW e \in Endpoint, NEW h \in Handler, NEW wait \in 0 .. Half - 1, NEW result,
             result = IF h = "address" THEN "pending" ELSE "none",
             Register(e, h, wait, result)
      PROVE  \E i : Asks(e, h, wait, result, i)
  BY <1>1 DEF Register, Asks, Opened
<1>2. CASE AskAddress
  BY <1>1, <1>2 DEF AskAddress, Handler
<1>3. CASE AskMatch
  BY <1>1, <1>3 DEF AskMatch, Handler
<1>4. CASE AskCustom
  BY <1>1, <1>4 DEF AskCustom, Handler
<1> QED
  BY <1>2, <1>3, <1>4

\* What such a request changes, field by field.
LEMMA AskGrows ==
    ASSUME TypeOK, NEW e, NEW h, NEW wait, NEW result, NEW i, Asks(e, h, wait, result, i)
    PROVE  LET n == Len(asked) + 1
               c == slot'[e][i]
           IN  /\ e \in Endpoint /\ i \in Slot
               /\ asked' \in Seq(Asked) /\ Len(asked') = n /\ n \in 1 .. MaxRequest
               /\ DOMAIN asked = 1 .. Len(asked) /\ DOMAIN asked' = 1 .. n
               /\ \A r \in DOMAIN asked : asked'[r] = asked[r]
               /\ asked'[n].ep = e /\ asked'[n].handler = h /\ asked'[n].id = NextId(last[e])
               /\ asked'[n].number = issued[e] + 1 /\ asked'[n].wait = wait
               /\ asked'[n].age = 0 /\ asked'[n].result = result
               /\ ~InUse(slot[e][i])
               /\ slot' \in [Endpoint -> [Slot -> Conversation]]
               /\ c.transaction_id = NextId(last[e]) /\ c.timeout = Deadline(wait)
               /\ c.handler = h /\ c.context = n /\ InUse(c)
               /\ \A d \in Endpoint, j \in Slot : d # e \/ j # i => slot'[d][j] = slot[d][j]
<1> USE Constants
<1> DEFINE n == Len(asked) + 1
           a == [ep |-> e, handler |-> h, id |-> NextId(last[e]), number |-> issued[e] + 1,
                 wait |-> wait, age |-> 0, result |-> result]
           c == [transaction_id |-> NextId(last[e]), timeout |-> Deadline(wait),
                 handler |-> h, context |-> n]
<1>1. /\ e \in Endpoint /\ i \in Slot /\ h \in Handler /\ wait \in 0 .. Half - 1
      /\ asked' = Append(asked, a) /\ slot' = [slot EXCEPT ![e][i] = c]
      /\ ~InUse(slot[e][i]) /\ Len(asked) < MaxRequest
      /\ result \in {"pending", "none"}
  BY DEF Asks, Opened, Takes
<1>2. /\ asked \in Seq(Asked) /\ DOMAIN asked = 1 .. Len(asked) /\ Len(asked) \in Nat
      /\ last[e] \in 0 .. Ids - 1 /\ issued[e] \in Nat /\ now \in 0 .. Wrap - 1
  BY <1>1, LenProperties DEF TypeOK
<1>3. NextId(last[e]) \in 0 .. Ids - 1
  <2>1. last[e] + 1 \in Nat /\ Ids \in Nat /\ Ids > 0
    BY <1>2, Constants
  <2>2. (last[e] + 1) % Ids \in 0 .. Ids - 1
    BY ONLY <2>1, SMTT(20)
  <2> QED BY <2>2 DEF NextId
<1>4. Deadline(wait) \in 0 .. Wrap - 1
  <2>1. wait \in 0 .. Wrap - 1
    BY <1>1
  <2>2. (now + wait) % Wrap = IF now + wait < Wrap THEN now + wait ELSE now + wait - Wrap
    BY <1>2, <2>1, Seconds
  <2>3. (now + wait) % Wrap \in 0 .. Wrap - 1
    BY <1>2, <2>1, <2>2
  <2> QED
    BY <2>3 DEF Deadline
<1>5. a \in Asked
  <2>1. wait \in Nat /\ issued[e] + 1 \in Nat
    <3>1. wait \in 0 .. Half - 1 /\ issued[e] \in Nat
      BY <1>1, <1>2
    <3> QED
      BY <3>1
  <2>2. result \in {"none", "pending", "value", "error", "timeout"}
    BY <1>1
  <2> QED
    BY <1>1, <1>3, <2>1, <2>2 DEF Asked
<1>6. c \in Conversation
  BY <1>1, <1>2, <1>3, <1>4 DEF Conversation
<1>7. /\ a.ep = e /\ a.handler = h /\ a.id = NextId(last[e]) /\ a.number = issued[e] + 1
      /\ a.wait = wait /\ a.age = 0 /\ a.result = result
      /\ c.transaction_id = NextId(last[e]) /\ c.timeout = Deadline(wait)
      /\ c.handler = h /\ c.context = n /\ InUse(c)
  BY <1>1 DEF InUse, Handler
<1> HIDE DEF a, c
<1>8. /\ asked' \in Seq(Asked) /\ Len(asked') = n /\ asked'[n] = a
      /\ \A r \in 1 .. Len(asked) : asked'[r] = asked[r]
  BY <1>1, <1>2, <1>5, AppendProperties
<1>9. DOMAIN asked' = 1 .. n /\ n \in 1 .. MaxRequest
  <2>1. DOMAIN asked' = 1 .. Len(asked')
    BY <1>8, LenProperties
  <2>2. n \in 1 .. MaxRequest
    <3>1. Len(asked) \in Nat /\ Len(asked) < MaxRequest
      BY <1>1, <1>2
    <3> QED
      BY <3>1
  <2> QED
    BY <1>8, <2>1, <2>2
<1>10. /\ slot' \in [Endpoint -> [Slot -> Conversation]] /\ slot'[e][i] = c
       /\ \A d \in Endpoint, j \in Slot : d # e \/ j # i => slot'[d][j] = slot[d][j]
  BY <1>1, <1>6 DEF TypeOK
<1> QED
  BY <1>1, <1>2, <1>7, <1>8, <1>9, <1>10
-----------------------------------------------------------------------------
(* What a step changes *)

Quiet ==
    /\ asked' \in Seq(Asked) /\ Kept
    /\ \A r \in DOMAIN asked : asked'[r].age = asked[r].age
    /\ now' = now
    /\ (last' = last /\ issued' = issued) \/ \E e \in Endpoint : Issue(e)
    /\ slot' = slot \/ (call.what # "none" /\ slot' = Deleted(call.ep, call.slot))

LEMMA QuietSteps ==
    ASSUME TypeOK, Called,
           \/ \E e \in Endpoint : NextTrans(e)
           \/ \E r \in DOMAIN asked : Respond(r)
           \/ DeleteOwn \/ ReturnAnswer \/ ReturnTimeout \/ Tick
           \/ UNCHANGED vars
    PROVE  Quiet
<1>1. asked \in Seq(Asked)
  BY DEF TypeOK
<1>2. UNCHANGED asked => Kept /\ asked' \in Seq(Asked)
                         /\ \A r \in DOMAIN asked : asked'[r].age = asked[r].age
  BY <1>1 DEF Kept
<1>3. ASSUME NEW res \in {"value", "error", "timeout"}, Store(res), call.what # "none"
      PROVE  Kept /\ asked' \in Seq(Asked)
             /\ \A r \in DOMAIN asked : asked'[r].age = asked[r].age
  BY <1>3, StoreKeeps DEF Called
<1> DEFINE Same == /\ Kept /\ asked' \in Seq(Asked)
                   /\ \A r \in DOMAIN asked : asked'[r].age = asked[r].age
<1>a. ASSUME Same, now' = now,
             (last' = last /\ issued' = issued) \/ \E e \in Endpoint : Issue(e),
             slot' = slot \/ (call.what # "none" /\ slot' = Deleted(call.ep, call.slot))
      PROVE  Quiet
  BY <1>a DEF Quiet
<1>b. asked' = asked => Same
  BY <1>2
<1> HIDE DEF Same
<1>4. ASSUME NEW e \in Endpoint, NextTrans(e) PROVE Quiet
  <2>1. asked' = asked /\ now' = now /\ slot' = slot /\ Issue(e)
    BY <1>4 DEF NextTrans
  <2> QED
    BY <1>a, <1>b, <2>1
<1>6. ASSUME NEW r \in DOMAIN asked, Respond(r) PROVE Quiet
  <2>1. asked' = asked /\ now' = now /\ slot' = slot /\ last' = last /\ issued' = issued
    BY <1>6 DEF Respond
  <2> QED
    BY <1>a, <1>b, <2>1
<1>7. ASSUME DeleteOwn PROVE Quiet
  BY <1>2, <1>7 DEF DeleteOwn, Quiet
<1>8. ASSUME ReturnAnswer PROVE Quiet
  <2>1. call.what # "none"
    BY <1>8 DEF ReturnAnswer
  <2>2. UNCHANGED asked \/ Store("value") \/ Store("error")
    BY <1>8 DEF ReturnAnswer
  <2>3. (last' = last /\ issued' = issued) \/ \E e \in Endpoint : Issue(e)
    BY <1>8 DEF ReturnAnswer
  <2>4. slot' = slot \/ slot' = Deleted(call.ep, call.slot)
    BY <1>8 DEF ReturnAnswer, AfterAnswer
  <2>5. now' = now
    BY <1>8 DEF ReturnAnswer
  <2>6. Same
    BY <1>b, <1>3, <2>1, <2>2 DEF Same
  <2> QED
    BY <1>a, <2>1, <2>3, <2>4, <2>5, <2>6
<1>9. ASSUME ReturnTimeout PROVE Quiet
  <2>1. call.what # "none"
    BY <1>9 DEF ReturnTimeout
  <2>2. UNCHANGED asked \/ Store("timeout")
    BY <1>9 DEF ReturnTimeout
  <2>3. last' = last /\ issued' = issued /\ now' = now /\ slot' = Deleted(call.ep, call.slot)
    BY <1>9 DEF ReturnTimeout, AfterTimeout
  <2>4. Same
    BY <1>b, <1>3, <2>1, <2>2 DEF Same
  <2> QED
    BY <1>a, <2>1, <2>3, <2>4
<1>10. ASSUME Tick PROVE Quiet
  <2>1. asked' = asked /\ now' = now /\ slot' = slot /\ last' = last /\ issued' = issued
    BY <1>10 DEF Tick
  <2> QED
    BY <1>a, <1>b, <2>1
<1>11. ASSUME UNCHANGED vars PROVE Quiet
  <2>1. asked' = asked /\ now' = now /\ slot' = slot /\ last' = last /\ issued' = issued
    BY <1>11 DEF vars
  <2> QED
    BY <1>a, <1>b, <2>1
<1> QED
  BY <1>4, <1>6, <1>7, <1>8, <1>9, <1>10, <1>11

LEMMA Effects ==
    ASSUME TypeOK, Called, [Next]_vars
    PROVE  \/ \E e, h, wait, result, i : Asks(e, h, wait, result, i)
           \/ Second
           \/ Quiet
<1> DEFINE Opens == \E e, h, wait, result, i : Asks(e, h, wait, result, i)
<1>1. AskAddress \/ AskMatch \/ AskCustom => Opens
  BY AskOpens
<1> HIDE DEF Opens
<1>2. Opens \/ Second \/ Quiet
  BY <1>1, QuietSteps DEF Next
<1> QED
  BY <1>2 DEF Opens

\* A slot that is deleted is free; the others are as they were.
LEMMA DeletedFrees ==
    ASSUME TypeOK, NEW e \in Endpoint, NEW i \in Slot
    PROVE  /\ Deleted(e, i) \in [Endpoint -> [Slot -> Conversation]]
           /\ ~InUse(Deleted(e, i)[e][i])
           /\ \A d \in Endpoint, j \in Slot :
                 d # e \/ j # i => Deleted(e, i)[d][j] = slot[d][j]
<1>1. Free \in Conversation
  <2>1. 0 \in 0 .. Ids - 1 /\ 0 \in 0 .. Wrap - 1
    BY Constants
  <2> QED
    BY <2>1 DEF Free, Conversation
<1>2. ~InUse(Free)
  BY DEF Free, InUse
<1> QED
  BY <1>1, <1>2 DEF Deleted, TypeOK

LEMMA QuietSlots ==
    ASSUME TypeOK, Quiet
    PROVE  /\ slot' \in [Endpoint -> [Slot -> Conversation]]
           /\ \A e \in Endpoint, i \in Slot : InUse(slot'[e][i]) => slot'[e][i] = slot[e][i]
<1>1. CASE slot' = slot
  BY <1>1 DEF TypeOK
<1>2. CASE call.what # "none" /\ slot' = Deleted(call.ep, call.slot)
  <2>1. call.ep \in Endpoint /\ call.slot \in Slot
    BY <1>2 DEF TypeOK, Call, NoCall
  <2>2. /\ slot' \in [Endpoint -> [Slot -> Conversation]]
        /\ ~InUse(slot'[call.ep][call.slot])
        /\ \A d \in Endpoint, j \in Slot :
              d # call.ep \/ j # call.slot => slot'[d][j] = slot[d][j]
    BY <1>2, <2>1, DeletedFrees
  <2> QED
    BY <2>2
<1> QED
  BY <1>1, <1>2 DEF Quiet
LEMMA IssueCounts ==
    ASSUME TypeOK, Numbered, NEW e \in Endpoint, Issue(e)
    PROVE  /\ last' \in [Endpoint -> 0 .. Ids - 1]
           /\ issued' \in [Endpoint -> 0 .. MaxIssue]
           /\ \A d \in Endpoint : last'[d] = issued'[d] % Ids
           /\ issued'[e] = issued[e] + 1
           /\ \A d \in Endpoint : d # e => issued'[d] = issued[d]
           /\ NextId(last[e]) = issued'[e] % Ids
<1>1. /\ last \in [Endpoint -> 0 .. Ids - 1] /\ issued \in [Endpoint -> 0 .. MaxIssue]
      /\ \A d \in Endpoint : last[d] = issued[d] % Ids
  BY DEF TypeOK, Numbered
<1>2. /\ issued[e] < MaxIssue
      /\ last' = [last EXCEPT ![e] = NextId(last[e])]
      /\ issued' = [issued EXCEPT ![e] = issued[e] + 1]
  BY DEF Issue
<1>3. issued[e] \in Nat /\ issued[e] + 1 \in 0 .. MaxIssue /\ issued[e] + 1 \in Nat
  BY <1>1, <1>2, Constants
<1>4. NextId(last[e]) = (issued[e] + 1) % Ids
  BY <1>1, <1>3, NextIdCounts
<1>5. NextId(last[e]) \in 0 .. Ids - 1
  BY <1>3, <1>4, NextIdCounts
<1> QED
  BY <1>1, <1>2, <1>3, <1>4, <1>5

LEMMA NumberedStep ==
    ASSUME TypeOK, Numbered, Called, [Next]_vars
    PROVE  Numbered'
<1>1. /\ issued \in [Endpoint -> 0 .. MaxIssue] /\ MaxIssue \in Nat
      /\ \A e \in Endpoint : last[e] = issued[e] % Ids
      /\ \A r \in DOMAIN asked : /\ asked[r].ep \in Endpoint /\ r \in Nat
                                 /\ asked[r].number \in 1 .. issued[asked[r].ep]
                                 /\ asked[r].id = asked[r].number % Ids
      /\ \A r, s \in DOMAIN asked :
            r < s /\ asked[r].ep = asked[s].ep => asked[r].number < asked[s].number
  <2>1. \A r \in DOMAIN asked : asked[r].ep \in Endpoint /\ r \in Nat
    BY AskedType DEF TypeOK
  <2> QED
    BY <2>1, Constants DEF TypeOK, Numbered
<1>2. ASSUME Kept, (last' = last /\ issued' = issued) \/ \E e \in Endpoint : Issue(e)
      PROVE  Numbered'
  <2>1. /\ \A e \in Endpoint : last'[e] = issued'[e] % Ids
        /\ \A e \in Endpoint : issued'[e] \in Nat /\ issued[e] \in Nat /\ issued'[e] >= issued[e]
    <3>1. CASE last' = last /\ issued' = issued
      BY <1>1, <3>1
    <3>2. ASSUME NEW e \in Endpoint, Issue(e)
          PROVE  /\ \A d \in Endpoint : last'[d] = issued'[d] % Ids
                 /\ \A d \in Endpoint : issued'[d] \in Nat /\ issued[d] \in Nat
                                         /\ issued'[d] >= issued[d]
      BY <1>1, <3>2, IssueCounts
    <3> QED
      BY <1>2, <3>1, <3>2
  <2>2. \A r \in DOMAIN asked : /\ asked'[r].ep = asked[r].ep
                               /\ asked'[r].number = asked[r].number
                               /\ asked'[r].id = asked[r].id
    BY <1>2 DEF Kept
  <2>3. ASSUME NEW r \in DOMAIN asked
        PROVE  asked'[r].number \in 1 .. issued'[asked'[r].ep] /\ asked'[r].id = asked'[r].number % Ids
    BY <1>1, <2>1, <2>2
  <2>4. DOMAIN asked' = DOMAIN asked
    BY <1>2 DEF Kept
  <2> QED
    BY <1>1, <2>1, <2>2, <2>3, <2>4 DEF Numbered
<1>3. CASE Second
  BY <1>2, <1>3, SecondKeeps DEF Second
<1>4. CASE Quiet
  BY <1>2, <1>4 DEF Quiet
<1>5. ASSUME NEW e, NEW h, NEW wait, NEW result, NEW i, Asks(e, h, wait, result, i)
      PROVE  Numbered'
  <2> DEFINE n == Len(asked) + 1
  <2>1. /\ e \in Endpoint /\ n \in Nat
        /\ DOMAIN asked = 1 .. n - 1 /\ DOMAIN asked' = 1 .. n
        /\ \A r \in DOMAIN asked : asked'[r] = asked[r]
        /\ asked'[n].ep = e /\ asked'[n].id = NextId(last[e])
        /\ asked'[n].number = issued[e] + 1
    BY <1>5, AskGrows
  <2>2. Issue(e)
    BY <1>5 DEF Asks, Opened
  <2> HIDE DEF n
  <2>3. /\ \A d \in Endpoint : last'[d] = issued'[d] % Ids
        /\ issued'[e] = issued[e] + 1
        /\ \A d \in Endpoint : d # e => issued'[d] = issued[d]
        /\ NextId(last[e]) = issued'[e] % Ids
    BY <2>1, <2>2, IssueCounts
  <2>4. issued[e] \in Nat
    BY <1>1, <2>1
  <2>5. asked'[n].number \in 1 .. issued'[asked'[n].ep] /\ asked'[n].id = asked'[n].number % Ids
    BY <2>1, <2>3, <2>4
  <2>6. ASSUME NEW r \in DOMAIN asked
        PROVE  /\ asked'[r].number \in 1 .. issued'[asked'[r].ep]
               /\ asked'[r].id = asked'[r].number % Ids
               /\ asked'[r].ep = asked'[n].ep => asked'[r].number < asked'[n].number
    <3>1. /\ asked[r].ep \in Endpoint /\ asked[r].number \in 1 .. issued[asked[r].ep]
          /\ asked[r].id = asked[r].number % Ids /\ asked'[r] = asked[r]
      BY <1>1, <2>1
    <3>2. CASE asked[r].ep = e
      BY <2>1, <2>3, <2>4, <3>1, <3>2
    <3>3. CASE asked[r].ep # e
      BY <2>1, <2>3, <3>1, <3>3
    <3> QED
      BY <3>2, <3>3
  <2>7. \A r \in DOMAIN asked' : r \in DOMAIN asked \/ r = n
    BY <2>1
  <2>8. ASSUME NEW r \in DOMAIN asked', NEW s \in DOMAIN asked', r < s,
               asked'[r].ep = asked'[s].ep
        PROVE  asked'[r].number < asked'[s].number
    <3>1. r \in DOMAIN asked
      BY <2>1, <2>8
    <3>2. CASE s = n
      BY <2>6, <2>8, <3>1, <3>2
    <3>3. CASE s \in DOMAIN asked
      BY <1>1, <2>1, <2>8, <3>1, <3>3
    <3> QED
      BY <2>7, <3>2, <3>3
  <2> QED
    BY <2>3, <2>5, <2>6, <2>7, <2>8 DEF Numbered
<1> QED
  BY <1>3, <1>4, <1>5, Effects
LEMMA SlottedStep ==
    ASSUME TypeOK, Slotted, Called, [Next]_vars
    PROVE  Slotted'
<1>1. ASSUME Kept, slot' \in [Endpoint -> [Slot -> Conversation]],
             \A e \in Endpoint, i \in Slot : InUse(slot'[e][i]) => slot'[e][i] = slot[e][i]
      PROVE  Slotted'
  BY <1>1 DEF Slotted, Holds, Kept
<1>2. CASE Second
  BY <1>1, <1>2, SecondKeeps DEF Second, TypeOK
<1>3. CASE Quiet
  BY <1>1, <1>3, QuietSlots DEF Quiet
<1>4. ASSUME NEW e, NEW h, NEW wait, NEW result, NEW i, Asks(e, h, wait, result, i)
      PROVE  Slotted'
  <2> DEFINE n == Len(asked) + 1
  <2>1. /\ e \in Endpoint /\ i \in Slot /\ n \in Nat /\ n \in DOMAIN asked'
        /\ n \notin DOMAIN asked /\ DOMAIN asked \subseteq DOMAIN asked'
        /\ \A r \in DOMAIN asked : asked'[r] = asked[r]
        /\ asked'[n].ep = e /\ asked'[n].handler = h /\ asked'[n].id = NextId(last[e])
        /\ slot'[e][i].transaction_id = NextId(last[e]) /\ slot'[e][i].handler = h
        /\ slot'[e][i].context = n
        /\ \A d \in Endpoint, j \in Slot : d # e \/ j # i => slot'[d][j] = slot[d][j]
    BY <1>4, AskGrows
  <2> HIDE DEF n
  <2>2. Holds(slot[e][i], e)'
    BY <2>1 DEF Holds
  <2>3. ASSUME NEW d \in Endpoint, NEW j \in Slot, InUse(slot'[d][j]), d # e \/ j # i
        PROVE  Holds(slot[d][j], d) /\ Holds(slot[d][j], d)' /\ slot'[d][j].context # n
    BY <2>1, <2>3 DEF Slotted, Holds
  <2> QED
    BY <2>1, <2>2, <2>3 DEF Slotted
<1> QED
  BY <1>2, <1>3, <1>4, Effects
-----------------------------------------------------------------------------
(* The handler that runs *)

\* The tick is through with the tables, or calls the handler of a conversation that
\* has expired.
LEMMA LooksOn ==
    ASSUME NEW table \in [Endpoint -> [Slot -> Conversation]], NEW a, NEW b, LookOn(table, a, b)
    PROVE  \/ call' = NoCall /\ idle' = 0
           \/ /\ idle' = idle
              /\ \E e \in Endpoint, i \in Slot :
                    /\ Expired(table[e][i]) /\ Before(a, b, e, i)
                    /\ call' \in Call /\ call'.what = "timeout" /\ call'.ep = e /\ call'.slot = i
                    /\ call'.of = table[e][i].context /\ call'.last = TRUE
                    /\ call'.deleted = FALSE
<1>1. SUFFICES ASSUME NEW e \in Endpoint, NEW i \in Slot,
                      NextExpired(table, e, i, a, b), idle' = idle,
                      call' = [CallOf("timeout", e, i, 0, TRUE) EXCEPT !.of = table[e][i].context]
               PROVE  /\ Expired(table[e][i]) /\ Before(a, b, e, i)
                      /\ call' \in Call /\ call'.what = "timeout" /\ call'.ep = e
                      /\ call'.slot = i /\ call'.of = table[e][i].context
                      /\ call'.last = TRUE /\ call'.deleted = FALSE
  BY DEF LookOn
<1>2. table[e][i].context \in Nat
  BY DEF Conversation
<1>3. call' = [what |-> "timeout", ep |-> e, slot |-> i, of |-> table[e][i].context,
               answers |-> 0, last |-> TRUE, deleted |-> FALSE]
  BY <1>1 DEF CallOf
<1>4. Expired(table[e][i]) /\ Before(a, b, e, i)
  BY <1>1 DEF NextExpired
<1>5. call' \in Call
  BY <1>2, <1>3 DEF Call
<1> QED
  BY <1>3, <1>4, <1>5

\* An answer that is handed on goes to a conversation of its id.
LEMMA RespondCalls ==
    ASSUME TypeOK, Slotted, NEW r \in DOMAIN asked, Respond(r)
    PROVE  \E i \in Slot :
              LET e == asked[r].ep
              IN  /\ e \in Endpoint /\ InUse(slot[e][i])
                  /\ call' \in Call /\ call'.what = "answer" /\ call'.ep = e /\ call'.slot = i
                  /\ call'.of = slot[e][i].context /\ call'.answers = r
                  /\ call'.deleted = FALSE
                  /\ Holds(slot[e][i], e) /\ slot[e][i].transaction_id = asked[r].id
                  /\ asked[call'.of].handler = "address" => call'.last
<1> DEFINE e == asked[r].ep
<1>1. e \in Endpoint /\ r \in Nat
  <2>1. asked \in Seq(Asked)
    BY DEF TypeOK
  <2>2. \A s \in DOMAIN asked : s \in Nat /\ asked[s].ep \in Endpoint
    BY <2>1, AskedType
  <2> QED
    BY <2>2
<1>i. PICK i \in Slot :
         /\ Answers(e, i, asked[r].id)
         /\ \E verdict \in Verdicts(slot[e][i].handler) :
               call' = CallOf("answer", e, i, r, verdict)
  BY DEF Respond
<1>2. PICK verdict \in Verdicts(slot[e][i].handler) : call' = CallOf("answer", e, i, r, verdict)
  BY <1>i
<1>3. InUse(slot[e][i]) /\ slot[e][i].transaction_id = asked[r].id
  BY <1>i DEF Answers, Named
<1>4. Holds(slot[e][i], e)
  BY <1>1, <1>3 DEF Slotted
<1>5. slot[e][i] \in Conversation
  BY <1>1 DEF TypeOK
<1> HIDE DEF e
<1>6. slot[e][i].handler \in Handler /\ slot[e][i].context \in Nat
  BY <1>3, <1>5 DEF InUse, Conversation
<1>7. verdict \in BOOLEAN /\ (slot[e][i].handler = "address" => verdict = TRUE)
  BY <1>6 DEF Verdicts, Handler
<1>8. call' = [what |-> "answer", ep |-> e, slot |-> i, of |-> slot[e][i].context,
               answers |-> r, last |-> verdict, deleted |-> FALSE]
  BY <1>2 DEF CallOf
<1>9. /\ call' \in Call /\ call'.what = "answer" /\ call'.ep = e /\ call'.slot = i
      /\ call'.of = slot[e][i].context /\ call'.answers = r /\ call'.last = verdict
      /\ call'.deleted = FALSE
  BY <1>1, <1>6, <1>7, <1>8 DEF Call
<1>10. asked[call'.of].handler = "address" => call'.last
  BY <1>4, <1>7, <1>9 DEF Holds
<1> QED
  BY <1>1, <1>3, <1>4, <1>9, <1>10 DEF e

\* A handler that deletes its own conversation: no slot holds its request any more.
LEMMA DeletesOwn ==
    ASSUME TypeOK, Slotted, Called, DeleteOwn
    PROVE  /\ call' \in Call /\ call'.what = call.what /\ call'.of = call.of
           /\ call'.ep = call.ep /\ call'.slot = call.slot /\ call'.answers = call.answers
           /\ call'.last = call.last /\ call'.deleted = TRUE
           /\ call.ep \in Endpoint /\ call.slot \in Slot
           /\ ~InUse(slot'[call.ep][call.slot])
           /\ ~Open(call.of)'
           /\ \A r : r # call.of => (Open(r)' <=> Open(r))
<1>1. call \in Call
  BY DEF TypeOK, DeleteOwn, NoCall
<1>2. call' = [call EXCEPT !.deleted = TRUE] /\ slot' = Deleted(call.ep, call.slot)
  BY DEF DeleteOwn
<1>3. /\ call' \in Call /\ call'.what = call.what /\ call'.of = call.of
      /\ call'.ep = call.ep /\ call'.slot = call.slot /\ call'.answers = call.answers
      /\ call'.last = call.last /\ call'.deleted = TRUE
      /\ call.ep \in Endpoint /\ call.slot \in Slot
  BY <1>1, <1>2 DEF Call
<1>4. /\ ~InUse(slot'[call.ep][call.slot])
      /\ \A d \in Endpoint, j \in Slot :
            d # call.ep \/ j # call.slot => slot'[d][j] = slot[d][j]
  BY <1>2, <1>3, DeletedFrees
<1>5. InUse(slot[call.ep][call.slot]) /\ slot[call.ep][call.slot].context = call.of
  BY DEF Called, DeleteOwn
<1>6. ~Open(call.of)'
  BY <1>3, <1>4, <1>5 DEF Open, Slotted
<1>7. ASSUME NEW r, r # call.of PROVE Open(r)' <=> Open(r)
  BY <1>3, <1>4, <1>5, <1>7 DEF Open
<1> QED
  BY <1>3, <1>4, <1>6, <1>7
LEMMA CalledStep ==
    ASSUME TypeOK, Slotted, Called, [Next]_vars
    PROVE  Called' /\ call' \in Call \cup {NoCall}
<1>1. Slotted'
  BY SlottedStep
<1>2. call \in Call \cup {NoCall} /\ asked \in Seq(Asked)
  BY DEF TypeOK
<1>3. NoCall.what = "none"
  BY DEF NoCall
<1>4. ASSUME Quiet, NEW a, NEW b, LookOn(slot', a, b)
      PROVE  Called' /\ call' \in Call \cup {NoCall}
  <2>1. CASE call' = NoCall
    BY <1>3, <2>1 DEF Called
  <2>2. ASSUME NEW e \in Endpoint, NEW i \in Slot,
               Expired(slot'[e][i]), call' \in Call, call'.what = "timeout", call'.ep = e,
               call'.slot = i, call'.of = slot'[e][i].context, call'.deleted = FALSE
        PROVE  Called' /\ call' \in Call \cup {NoCall}
    <3>1. InUse(slot'[e][i])
      BY <2>2 DEF Expired
    <3>2. Holds(slot[e][i], e)'
      BY <1>1, <3>1 DEF Slotted
    <3> QED
      BY <2>2, <3>1, <3>2 DEF Called, Holds
  <2>3. slot' \in [Endpoint -> [Slot -> Conversation]]
    BY <1>4, QuietSlots
  <2> QED
    BY <1>4, <2>1, <2>2, <2>3, LooksOn
<1>5. ASSUME call' = call, Kept,
             call.what # "none" => /\ call.deleted => ~Open(call.of)'
                                   /\ ~call.deleted => slot'[call.ep][call.slot] = slot[call.ep][call.slot]
      PROVE  Called' /\ call' \in Call \cup {NoCall}
  BY <1>2, <1>5 DEF Called, Kept
<1>6. ASSUME slot' = slot PROVE \A r : Open(r)' <=> Open(r)
  BY <1>6 DEF Open
<1>7. ASSUME call' = call, asked' = asked, slot' = slot
      PROVE  Called' /\ call' \in Call \cup {NoCall}
  BY <1>2, <1>7 DEF Called, Open
<1>8. ASSUME NEW e \in Endpoint, NextTrans(e) PROVE Called' /\ call' \in Call \cup {NoCall}
  BY <1>7, <1>8 DEF NextTrans
<1>9. ASSUME NEW e, NEW h, NEW wait, NEW result, NEW i, Asks(e, h, wait, result, i)
      PROVE  Called' /\ call' \in Call \cup {NoCall}
  <2> DEFINE n == Len(asked) + 1
  <2>1. /\ e \in Endpoint /\ i \in Slot /\ n \notin DOMAIN asked
        /\ DOMAIN asked \subseteq DOMAIN asked'
        /\ \A r \in DOMAIN asked : asked'[r] = asked[r]
        /\ ~InUse(slot[e][i]) /\ slot'[e][i].context = n
        /\ \A d \in Endpoint, j \in Slot : d # e \/ j # i => slot'[d][j] = slot[d][j]
    BY <1>9, AskGrows
  <2>2. call' = call
    BY <1>9 DEF Asks, Opened
  <2> HIDE DEF n
  <2>3. ASSUME call.what # "none"
        PROVE  /\ call.of \in DOMAIN asked' /\ asked'[call.of] = asked[call.of]
               /\ call.what = "answer" => /\ call.answers \in DOMAIN asked'
                                          /\ asked'[call.answers] = asked[call.answers]
               /\ ~call.deleted => slot'[call.ep][call.slot] = slot[call.ep][call.slot]
               /\ call.deleted => ~Open(call.of)'
    <3>1. call \in Call /\ call.ep \in Endpoint /\ call.slot \in Slot
      BY <1>2, <1>3, <2>3 DEF Call
    <3>2. call.of \in DOMAIN asked /\ call.of # n
      BY <2>1, <2>3 DEF Called
    <3>3. call.what = "answer" => call.answers \in DOMAIN asked
      BY <2>3 DEF Called
    <3>4. ~call.deleted => slot'[call.ep][call.slot] = slot[call.ep][call.slot]
      BY <2>1, <2>3, <3>1 DEF Called
    <3>5. ASSUME call.deleted PROVE ~Open(call.of)'
      BY <2>1, <2>2, <2>3, <3>1, <3>2, <3>5 DEF Called, Open
    <3> QED
      BY <2>1, <3>2, <3>3, <3>4, <3>5
  <2> QED
    BY <1>2, <2>2, <2>3 DEF Called
<1>10. ASSUME NEW r \in DOMAIN asked, Respond(r) PROVE Called' /\ call' \in Call \cup {NoCall}
  <2>1. asked' = asked /\ slot' = slot
    BY <1>10 DEF Respond
  <2>2. PICK i \in Slot :
          /\ InUse(slot[asked[r].ep][i])
          /\ call' \in Call /\ call'.what = "answer" /\ call'.ep = asked[r].ep /\ call'.slot = i
          /\ call'.of = slot[asked[r].ep][i].context /\ call'.answers = r
          /\ call'.deleted = FALSE
          /\ Holds(slot[asked[r].ep][i], asked[r].ep)
          /\ slot[asked[r].ep][i].transaction_id = asked[r].id
          /\ asked[call'.of].handler = "address" => call'.last
    BY <1>10, RespondCalls
  <2> QED
    BY <2>1, <2>2 DEF Called, Holds
<1>11. CASE DeleteOwn
  <2>1. asked' = asked
    BY <1>11 DEF DeleteOwn
  <2>2. asked[call.of].handler = "custom" /\ call.what # "none"
    BY <1>11 DEF DeleteOwn
  <2> QED
    BY <1>11, <2>1, <2>2, DeletesOwn DEF Called
<1>12. CASE ReturnAnswer
  BY <1>3, <1>12 DEF ReturnAnswer, Called
<1>13. CASE ReturnTimeout
  <2>1. Quiet
    BY <1>13, QuietSteps
  <2>2. LookOn(slot', call.ep, call.slot)
    BY <1>13 DEF ReturnTimeout
  <2> QED
    BY <1>4, <2>1, <2>2
<1>14. CASE Tick
  <2>1. Quiet
    BY <1>14, QuietSteps
  <2>2. LookOn(slot', 0, 0)
    BY <1>14 DEF Tick
  <2> QED
    BY <1>4, <2>1, <2>2
<1>15. CASE Second
  <2>1. Kept /\ slot' = slot /\ call' = call
    BY <1>15, SecondKeeps DEF Second
  <2>2. call.what = "none"
    BY <1>15 DEF Second
  <2> QED
    BY <1>5, <2>1, <2>2
<1>16. CASE UNCHANGED vars
  BY <1>7, <1>16 DEF vars
<1> QED
  BY <1>8, <1>9, <1>10, <1>11, <1>12, <1>13, <1>14, <1>15, <1>16, AskOpens DEF Next
-----------------------------------------------------------------------------
(* Types *)

LEMMA TypeStep ==
    ASSUME TypeOK, Numbered, Slotted, Called, [Next]_vars
    PROVE  TypeOK'
<1>1. call' \in Call \cup {NoCall}
  BY CalledStep
<1>2. /\ now \in 0 .. Wrap - 1 /\ idle \in 0 .. MaxGap
      /\ last \in [Endpoint -> 0 .. Ids - 1] /\ issued \in [Endpoint -> 0 .. MaxIssue]
      /\ asked \in Seq(Asked) /\ Len(asked) <= MaxRequest
      /\ slot \in [Endpoint -> [Slot -> Conversation]]
  BY DEF TypeOK
<1>3. /\ last' \in [Endpoint -> 0 .. Ids - 1] /\ issued' \in [Endpoint -> 0 .. MaxIssue]
      /\ asked' \in Seq(Asked) /\ Len(asked') <= MaxRequest
      /\ slot' \in [Endpoint -> [Slot -> Conversation]]
  <2>1. CASE Second
    BY <1>2, <2>1, SecondKeeps DEF Second, Kept
  <2>2. CASE Quiet
    <3>1. (last' = last /\ issued' = issued) \/ \E e \in Endpoint : Issue(e)
      BY <2>2 DEF Quiet
    <3>2. /\ last' \in [Endpoint -> 0 .. Ids - 1] /\ issued' \in [Endpoint -> 0 .. MaxIssue]
      BY <1>2, <3>1, IssueCounts
    <3> QED
      BY <1>2, <2>2, <3>2, QuietSlots DEF Quiet, Kept
  <2>3. ASSUME NEW e, NEW h, NEW wait, NEW result, NEW i, Asks(e, h, wait, result, i)
        PROVE  /\ last' \in [Endpoint -> 0 .. Ids - 1] /\ issued' \in [Endpoint -> 0 .. MaxIssue]
               /\ asked' \in Seq(Asked) /\ Len(asked') <= MaxRequest
               /\ slot' \in [Endpoint -> [Slot -> Conversation]]
    <3>1. e \in Endpoint /\ Issue(e)
      BY <2>3 DEF Asks, Opened
    <3>2. /\ asked' \in Seq(Asked) /\ Len(asked') \in 1 .. MaxRequest
          /\ slot' \in [Endpoint -> [Slot -> Conversation]]
      BY <2>3, AskGrows
    <3> QED
      BY <3>1, <3>2, IssueCounts
  <2> QED
    BY <2>1, <2>2, <2>3, Effects
<1>4. now' \in 0 .. Wrap - 1
  <2>1. CASE Second
    <3>1. 0 \in 0 .. Wrap - 1 /\ Wrap \in Nat
      BY Constants
    <3>2. (now + 1) % Wrap = IF now + 1 = Wrap THEN 0 ELSE now + 1
      BY <1>2, <3>1, Seconds
    <3>3. now' = (now + 1) % Wrap
      BY <2>1 DEF Second
    <3> QED
      BY <1>2, <3>1, <3>2, <3>3
  <2>2. now' = now \/ Second
    BY Effects DEF Quiet, Asks, Opened
  <2> QED
    BY <1>2, <2>1, <2>2
<1>5. idle' \in 0 .. MaxGap
  <2>1. ASSUME NEW table \in [Endpoint -> [Slot -> Conversation]], NEW a, NEW b,
               LookOn(table, a, b)
        PROVE  idle' \in 0 .. MaxGap
    <3>1. idle' = 0 \/ idle' = idle
      BY <2>1, LooksOn
    <3> QED
      BY <1>2, <3>1, Constants
  <2>2. CASE Tick
    BY <1>2, <2>1, <2>2 DEF Tick
  <2>3. CASE ReturnTimeout
    BY <1>3, <2>1, <2>3 DEF ReturnTimeout
  <2>4. CASE Second
    <3>1. idle < MaxGap /\ idle' = idle + 1
      BY <2>4 DEF Second
    <3> QED
      BY <1>2, <3>1, Constants
  <2>5. CASE idle' = idle
    BY <1>2, <2>5
  <2>6. (AskAddress \/ AskMatch \/ AskCustom) => idle' = idle
    BY AskOpens DEF Asks, Opened
  <2> QED
    BY <2>2, <2>3, <2>4, <2>5, <2>6
       DEF Next, NextTrans, Respond, DeleteOwn, ReturnAnswer, vars
<1> QED
  BY <1>1, <1>3, <1>4, <1>5 DEF TypeOK
-----------------------------------------------------------------------------
(* Timeouts *)

\* A conversation that expires has lasted as long as it was to last.
LEMMA ExpiredIsDue ==
    ASSUME NEW n \in 0 .. Wrap - 1, NEW t \in 0 .. Wrap - 1, NEW wait \in Nat, NEW age \in Nat,
           wait < Half, wait = 0 => t = 0,
           age < wait => (t - n) % Wrap = wait - age \/ (t - n) % Wrap = wait - age + 1,
           t # 0, (n - t) % Wrap < Half
    PROVE  wait # 0 /\ age >= wait
<1>1. /\ (n - t) % Wrap = IF n >= t THEN n - t ELSE n - t + Wrap
      /\ (t - n) % Wrap = IF t >= n THEN t - n ELSE t - n + Wrap
  BY Seconds
<1> QED
  BY <1>1, Constants

\* The second a new conversation expires in.
LEMMA DeadlineOnTime ==
    ASSUME now \in 0 .. Wrap - 1, NEW wait \in 1 .. Half - 1
    PROVE  /\ Deadline(wait) \in 1 .. Wrap - 1
           /\ (Deadline(wait) - now) % Wrap \in wait .. wait + 1
<1> USE Constants
<1>1. wait \in 0 .. Wrap - 1 /\ wait # 0
  OBVIOUS
<1>2. (now + wait) % Wrap = IF now + wait < Wrap THEN now + wait ELSE now + wait - Wrap
  BY <1>1, Seconds
<1>3. CASE now + wait = Wrap
  <2>1. Deadline(wait) = 1
    BY <1>1, <1>2, <1>3 DEF Deadline
  <2>2. 1 \in 0 .. Wrap - 1 /\ now >= 1
    BY <1>1, <1>3
  <2>3. (1 - now) % Wrap = IF 1 >= now THEN 1 - now ELSE 1 - now + Wrap
    BY <2>2, Seconds
  <2> QED
    BY <1>1, <1>3, <2>1, <2>2, <2>3
<1>4. CASE now + wait # Wrap
  <2> DEFINE t == IF now + wait < Wrap THEN now + wait ELSE now + wait - Wrap
  <2>1. t \in 1 .. Wrap - 1
    BY <1>1, <1>4
  <2>2. Deadline(wait) = t
    BY <1>1, <1>2, <2>1 DEF Deadline
  <2>3. t \in 0 .. Wrap - 1
    BY <2>1
  <2> HIDE DEF t
  <2>4. (t - now) % Wrap = IF t >= now THEN t - now ELSE t - now + Wrap
    BY <2>3, Seconds
  <2>5. (t - now) % Wrap = wait
    BY <1>1, <1>4, <2>4 DEF t
  <2> QED
    BY <2>1, <2>2, <2>5
<1> QED
  BY <1>3, <1>4

\* A second later there is a second less left.
LEMMA SecondLess ==
    ASSUME now \in 0 .. Wrap - 1, NEW t \in 0 .. Wrap - 1, (t - now) % Wrap > 0,
           now' = (now + 1) % Wrap
    PROVE  (t - now') % Wrap = ((t - now) % Wrap) - 1
<1> USE Constants
<1>1. now' = IF now + 1 = Wrap THEN 0 ELSE now + 1
  BY Seconds
<1>2. now' \in 0 .. Wrap - 1
  BY <1>1
<1>3. /\ (t - now) % Wrap = IF t >= now THEN t - now ELSE t - now + Wrap
      /\ (t - now') % Wrap = IF t >= now' THEN t - now' ELSE t - now' + Wrap
  BY <1>2, Seconds
<1> QED
  BY <1>1, <1>2, <1>3

LEMMA ClockedStep ==
    ASSUME TypeOK, Slotted, Called, Clocked, [Next]_vars
    PROVE  Clocked'
<1> USE Constants
<1>1. /\ asked \in Seq(Asked) /\ now \in 0 .. Wrap - 1
      /\ slot \in [Endpoint -> [Slot -> Conversation]]
  BY DEF TypeOK
<1>2. /\ \A r \in DOMAIN asked : asked[r].wait \in Nat /\ asked[r].age \in Nat
      /\ \A e \in Endpoint, i \in Slot :
            slot[e][i].timeout \in 0 .. Wrap - 1
            /\ (InUse(slot[e][i]) => slot[e][i].context \in DOMAIN asked /\ OnTime(slot[e][i]))
  BY <1>1, AskedType DEF Clocked, Slotted, Holds, Conversation
<1>3. Slotted'
  BY SlottedStep
<1>4. Called' /\ slot' \in [Endpoint -> [Slot -> Conversation]]
  <2>1. CASE Quiet
    BY <2>1, QuietSlots, CalledStep
  <2>2. CASE Second
    BY <1>1, <2>2, CalledStep DEF Second
  <2>3. ASSUME NEW e, NEW h, NEW wait, NEW result, NEW i, Asks(e, h, wait, result, i)
        PROVE  Called' /\ slot' \in [Endpoint -> [Slot -> Conversation]]
    BY <2>3, AskGrows, CalledStep
  <2> QED
    BY <2>1, <2>2, <2>3, Effects
\* The slots
<1>5. ASSUME NEW e \in Endpoint, NEW i \in Slot, InUse(slot'[e][i])
      PROVE  OnTime(slot[e][i])'
  <2>1. CASE Quiet
    <3>1. slot'[e][i] = slot[e][i] /\ InUse(slot[e][i])
      BY <1>5, <2>1, QuietSlots
    <3>2. slot[e][i].context \in DOMAIN asked /\ OnTime(slot[e][i])
      BY <1>2, <3>1
    <3> QED
      BY <2>1, <3>1, <3>2 DEF Quiet, Kept, OnTime
  <2>2. CASE Second
    <3> DEFINE c == slot[e][i]
               r == c.context
    <3>1. slot' = slot /\ now' = (now + 1) % Wrap
      BY <2>2 DEF Second
    <3>2. /\ InUse(c) /\ OnTime(c) /\ r \in DOMAIN asked /\ c.timeout \in 0 .. Wrap - 1
          /\ asked[r].wait \in Nat /\ asked[r].age \in Nat
      BY <1>2, <1>5, <3>1
    <3>3. Open(r)
      BY <3>2 DEF Open
    <3>4. /\ asked'[r].wait = asked[r].wait
          /\ asked'[r].age = IF asked[r].age < asked[r].wait THEN asked[r].age + 1 ELSE asked[r].age
      BY <2>2, <3>2, <3>3, SecondKeeps DEF Kept
    <3>5. /\ asked[r].wait < Half
          /\ asked[r].wait = 0 => c.timeout = 0
          /\ asked[r].wait # 0 => c.timeout # 0
          /\ asked[r].age < asked[r].wait =>
                \/ (c.timeout - now) % Wrap = asked[r].wait - asked[r].age
                \/ (c.timeout - now) % Wrap = asked[r].wait - asked[r].age + 1
      BY <3>2 DEF OnTime
    <3> DEFINE t == c.timeout
               w == asked[r].wait
               a == asked[r].age
    <3>6. ASSUME asked'[r].age < w
          PROVE  (t - now') % Wrap = w - asked'[r].age \/ (t - now') % Wrap = w - asked'[r].age + 1
      <4>1. a < w /\ asked'[r].age = a + 1
        BY <3>2, <3>4, <3>6
      <4>2. (t - now) % Wrap = w - a \/ (t - now) % Wrap = w - a + 1
        BY <3>5, <4>1
      <4>3. t \in 0 .. Wrap - 1 /\ w \in Nat /\ a \in Nat
        BY <3>2
      <4> HIDE DEF t, w, a
      <4>4. (t - now) % Wrap > 0
        BY <4>1, <4>2, <4>3
      <4>5. (t - now') % Wrap = ((t - now) % Wrap) - 1
        BY <1>1, <3>1, <4>3, <4>4, SecondLess
      <4> QED
        BY <4>1, <4>2, <4>3, <4>5
    <3>7. slot'[e][i] = c
      BY <3>1
    <3> QED
      BY <3>4, <3>5, <3>6, <3>7 DEF OnTime
  <2>3. ASSUME NEW d, NEW h, NEW wait, NEW result, NEW j, Asks(d, h, wait, result, j)
        PROVE  OnTime(slot[e][i])'
    <3> DEFINE n == Len(asked) + 1
    <3>1. /\ \A r \in DOMAIN asked : asked'[r] = asked[r]
          /\ asked'[n].wait = wait /\ asked'[n].age = 0
          /\ slot'[d][j].timeout = Deadline(wait) /\ slot'[d][j].context = n
          /\ e # d \/ i # j => slot'[e][i] = slot[e][i]
      BY <2>3, AskGrows
    <3>2. wait \in 0 .. Half - 1 /\ now' = now
      BY <2>3 DEF Asks, Opened
    <3>3. CASE e = d /\ i = j
      <4>1. CASE wait = 0
        <5>1. Deadline(wait) = 0
          BY <4>1 DEF Deadline
        <5> QED
          BY <3>1, <3>3, <4>1, <5>1 DEF OnTime
      <4>2. CASE wait # 0
        <5>1. wait \in 1 .. Half - 1
          BY <3>2, <4>2
        <5>2. /\ Deadline(wait) # 0
              /\ (Deadline(wait) - now) % Wrap = wait \/ (Deadline(wait) - now) % Wrap = wait + 1
          <6>1. /\ Deadline(wait) \in 1 .. Wrap - 1
                /\ (Deadline(wait) - now) % Wrap \in wait .. wait + 1
            BY <1>1, <5>1, DeadlineOnTime
          <6> QED
            BY <5>1, <6>1
        <5>3. wait < Half /\ wait - 0 = wait
          BY <5>1
        <5>4. slot'[e][i].context = n /\ slot'[e][i].timeout = Deadline(wait)
          BY <3>1, <3>3
        <5> QED
          BY <3>1, <3>2, <4>2, <5>2, <5>3, <5>4 DEF OnTime
      <4> QED
        BY <4>1, <4>2
    <3>4. CASE e # d \/ i # j
      <4>1. slot'[e][i] = slot[e][i]
        BY <3>1, <3>4
      <4>2. slot[e][i].context \in DOMAIN asked /\ OnTime(slot[e][i])
        BY <1>2, <1>5, <4>1
      <4> QED
        BY <3>1, <3>2, <4>1, <4>2 DEF OnTime
    <3> QED
      BY <3>3, <3>4
  <2> DEFINE Opens == \E d, h, wait, result, j : Asks(d, h, wait, result, j)
  <2>4. Opens \/ Second \/ Quiet
    BY Effects
  <2>5. Opens => OnTime(slot[e][i])'
    BY <2>3
  <2> HIDE DEF Opens
  <2> QED
    BY <2>1, <2>2, <2>4, <2>5
\* The handler that runs
<1>6. ASSUME Quiet, NEW a, NEW b, LookOn(slot', a, b) PROVE NeverEarly'
  <2>1. CASE call' = NoCall
    BY <2>1 DEF NeverEarly, NoCall
  <2>2. ASSUME NEW e \in Endpoint, NEW i \in Slot,
               Expired(slot'[e][i]), call'.of = slot'[e][i].context
        PROVE  NeverEarly'
    <3> DEFINE c == slot'[e][i]
    <3>1. InUse(c) /\ c.timeout # 0 /\ (now - c.timeout) % Wrap < Half
      BY <2>2 DEF Expired
    <3>2. OnTime(slot[e][i])' /\ Holds(slot[e][i], e)'
      BY <1>3, <1>5, <3>1 DEF Slotted
    <3>3. now' = now /\ asked' \in Seq(Asked) /\ DOMAIN asked' = DOMAIN asked
      BY <1>6 DEF Quiet, Kept
    <3>4. c.timeout \in 0 .. Wrap - 1
      BY <1>4 DEF Conversation
    <3> DEFINE r == asked'[c.context]
    <3>5. c.context \in DOMAIN asked'
      BY <3>2 DEF Holds
    <3>6. r.wait \in Nat /\ r.age \in Nat
      BY <1>2, <1>6, <3>3, <3>5 DEF Quiet, Kept
    <3>7. /\ r.wait < Half /\ (r.wait = 0 => c.timeout = 0)
          /\ r.age < r.wait => \/ (c.timeout - now) % Wrap = r.wait - r.age
                              \/ (c.timeout - now) % Wrap = r.wait - r.age + 1
      BY <3>2, <3>3 DEF OnTime
    <3>8. r.wait # 0 /\ r.age >= r.wait
      <4> HIDE DEF r, c
      <4> QED
        BY <1>1, <3>1, <3>4, <3>6, <3>7, ExpiredIsDue
    <3> QED
      BY <2>2, <3>8 DEF NeverEarly
  <2> QED
    BY <1>4, <1>6, <2>1, <2>2, LooksOn
<1>7. ASSUME Kept, \A r \in DOMAIN asked : asked'[r].age = asked[r].age,
             call'.what = call.what, call'.of = call.of
      PROVE  NeverEarly'
  <2>1. NeverEarly
    BY DEF Clocked
  <2> QED
    BY <1>7, <2>1 DEF Kept, NeverEarly, Called
<1>8. ASSUME (\E e \in Endpoint : NextTrans(e)) \/ UNCHANGED vars PROVE NeverEarly'
  <2>1. Quiet /\ call' = call
    BY <1>8, QuietSteps DEF NextTrans, vars
  <2> QED
    BY <1>7, <2>1 DEF Quiet
<1>9. ASSUME NEW e, NEW h, NEW wait, NEW result, NEW i, Asks(e, h, wait, result, i)
      PROVE  NeverEarly'
  <2>1. \A r \in DOMAIN asked : asked'[r] = asked[r]
    BY <1>9, AskGrows
  <2>2. call' = call
    BY <1>9 DEF Asks, Opened
  <2> QED
    BY <2>1, <2>2 DEF Clocked, NeverEarly, Called
<1>10. ASSUME NEW r \in DOMAIN asked, Respond(r) PROVE NeverEarly'
  BY <1>10, RespondCalls DEF NeverEarly
<1>11. ASSUME DeleteOwn PROVE NeverEarly'
  <2>1. Quiet
    BY <1>11, QuietSteps
  <2> QED
    BY <1>7, <1>11, <2>1, DeletesOwn DEF Quiet
<1>12. ASSUME ReturnAnswer PROVE NeverEarly'
  BY <1>12 DEF ReturnAnswer, NeverEarly, NoCall
<1>13. ASSUME ReturnTimeout PROVE NeverEarly'
  <2>1. Quiet /\ LookOn(slot', call.ep, call.slot)
    BY <1>13, QuietSteps DEF ReturnTimeout
  <2> QED
    BY <1>6, <2>1
<1>14. ASSUME Tick PROVE NeverEarly'
  <2>1. Quiet /\ LookOn(slot', 0, 0)
    BY <1>14, QuietSteps DEF Tick
  <2> QED
    BY <1>6, <2>1
<1>15. ASSUME Second PROVE NeverEarly'
  <2>1. call'.what # "timeout"
    BY <1>15 DEF Second
  <2> QED
    BY <2>1 DEF NeverEarly
<1>16. NeverEarly'
  <2> DEFINE Opens == \E e, h, wait, result, i : Asks(e, h, wait, result, i)
  <2>1. Opens => NeverEarly'
    BY <1>9
  <2>2. AskAddress \/ AskMatch \/ AskCustom => Opens
    BY AskOpens
  <2> HIDE DEF Opens
  <2> QED
    BY <1>8, <1>10, <1>11, <1>12, <1>13, <1>14, <1>15, <2>1, <2>2 DEF Next
<1> QED
  BY <1>5, <1>16 DEF Clocked
-----------------------------------------------------------------------------
(* The theorems *)

LEMMA Starts == Init => IInv
<1> SUFFICES ASSUME Init PROVE IInv
  OBVIOUS
<1> USE Constants
<1>1. /\ now \in 0 .. Wrap - 1 /\ idle = 0 /\ last = [e \in Endpoint |-> 0]
      /\ slot = [e \in Endpoint |-> [i \in Slot |-> Free]] /\ call = NoCall
      /\ asked = <<>> /\ issued = [e \in Endpoint |-> 0]
  BY DEF Init
<1>2. asked \in Seq(Asked) /\ Len(asked) = 0 /\ DOMAIN asked = {}
  BY <1>1
<1>3. Free \in Conversation /\ ~InUse(Free)
  <2>1. 0 \in 0 .. Ids - 1 /\ 0 \in 0 .. Wrap - 1
    OBVIOUS
  <2> QED
    BY <2>1 DEF Free, Conversation, InUse
<1>4. 0 \in 0 .. Ids - 1 /\ 0 \in 0 .. MaxIssue /\ 0 \in 0 .. MaxGap
  OBVIOUS
<1>5. TypeOK
  BY <1>1, <1>2, <1>3, <1>4 DEF TypeOK
<1>6. 0 % Ids = 0
  BY SMT
<1>7. NoCall.what = "none"
  BY DEF NoCall
<1> QED
  BY <1>1, <1>2, <1>3, <1>5, <1>6, <1>7
     DEF IInv, Numbered, Slotted, Called, Clocked, NeverEarly

LEMMA Invariant == Spec => []IInv
<1>1. IInv /\ [Next]_vars => IInv'
  BY TypeStep, NumberedStep, SlottedStep, CalledStep, ClockedStep DEF IInv
<1> QED
  BY Starts, <1>1, PTL DEF Spec

\* The endpoint's state has its type: a transaction id and a second stay in their range
\* although they come round (wpan_endpoint_next_trans(), wpan_conversation_register()),
\* and a handler that runs is one of the table (wpan_conversation_response(),
\* _wpan_endpoint_expire_conversations()).
THEOREM TypeCorrect == Spec => []TypeOK
<1>1. IInv => TypeOK
  BY DEF IInv
<1> QED
  BY Invariant, <1>1, PTL

\* A handler gets the answer to a request that is not its own only when Ids requests or
\* more went between the two, so that wpan_conversation_response() cannot tell them apart.
THEOREM OwnAnswerHolds == Spec => []OwnAnswer
<1>1. IInv => OwnAnswer
  <2> SUFFICES ASSUME IInv, call.what = "answer", call.answers # call.of
               PROVE  \/ issued[call.ep] - asked[call.answers].number >= Ids
                      \/ issued[call.ep] - asked[call.of].number >= Ids
    BY DEF OwnAnswer
  <2> USE Constants
  <2> DEFINE a == call.answers
             o == call.of
             n == issued[call.ep]
  <2>1. /\ a \in DOMAIN asked /\ o \in DOMAIN asked /\ asked[a].ep = call.ep
        /\ asked[o].ep = call.ep /\ asked[a].id = asked[o].id
    BY DEF IInv, Called
  <2>2. call.ep \in Endpoint /\ issued \in [Endpoint -> 0 .. MaxIssue] /\ asked \in Seq(Asked)
    BY DEF IInv, TypeOK, Call, NoCall
  <2>3. n \in Nat /\ a \in Nat /\ o \in Nat
    BY <2>1, <2>2, AskedType
  <2>4. /\ asked[a].number \in 1 .. n /\ asked[o].number \in 1 .. n
        /\ asked[a].number % Ids = asked[o].number % Ids
        /\ a < o => asked[a].number < asked[o].number
        /\ o < a => asked[o].number < asked[a].number
    BY <2>1 DEF IInv, Numbered
  <2> DEFINE x == asked[a].number
             y == asked[o].number
  <2>5. x \in Nat /\ y \in Nat /\ x <= n /\ y <= n
    BY <2>3, <2>4
  <2>6. CASE a < o
    <3>1. y - x >= Ids
      BY <2>4, <2>5, <2>6, SameId
    <3> QED
      BY <2>3, <2>5, <3>1
  <2>7. CASE o < a
    <3>1. x - y >= Ids
      BY <2>4, <2>5, <2>7, SameId
    <3> QED
      BY <2>3, <2>5, <3>1
  <2> QED
    BY <2>3, <2>6, <2>7
<1> QED
  BY Invariant, <1>1, PTL

\* No timeout is reported early: the second in a slot is compared with the counter of the
\* device by the sign of their difference, and a deadline of 0 is moved by a second.
THEOREM NeverEarlyHolds == Spec => []NeverEarly
<1>1. IInv => NeverEarly
  BY DEF IInv, Clocked
<1> QED
  BY Invariant, <1>1, PTL
-----------------------------------------------------------------------------
(* Handlers that make no request once they have deleted their conversation *)

\* A conversation that is ended: the slot is free, whether its handler had deleted it
\* before or not.
LEMMA Ends ==
    ASSUME TypeOK, Slotted, Called, Freed, call.what # "none",
           slot' = Deleted(call.ep, call.slot), NEW r
    PROVE  Open(r)' <=> Open(r) /\ r # call.of
<1>1. call.ep \in Endpoint /\ call.slot \in Slot
  BY DEF TypeOK, Call, NoCall
<1>2. /\ ~InUse(slot'[call.ep][call.slot])
      /\ \A d \in Endpoint, j \in Slot :
            d # call.ep \/ j # call.slot => slot'[d][j] = slot[d][j]
  BY <1>1, DeletedFrees
<1>3. CASE call.deleted
  <2>1. ~InUse(slot[call.ep][call.slot]) /\ ~Open(call.of)
    BY <1>3 DEF Freed, Called
  <2>2. Open(r)' <=> Open(r)
    BY <1>1, <1>2, <2>1 DEF Open
  <2> QED
    BY <2>1, <2>2
<1>4. CASE ~call.deleted
  <2>1. InUse(slot[call.ep][call.slot]) /\ slot[call.ep][call.slot].context = call.of
    BY <1>4 DEF Called
  <2> QED
    BY <1>1, <1>2, <2>1 DEF Open, Slotted
<1> QED
  BY <1>3, <1>4

\* A request that is made is open, and nothing else changes.
LEMMA Begins ==
    ASSUME TypeOK, NEW e, NEW h, NEW wait, NEW result, NEW i, Asks(e, h, wait, result, i), NEW r
    PROVE  Open(r)' <=> Open(r) \/ r = Len(asked) + 1
<1>1. /\ e \in Endpoint /\ i \in Slot
      /\ ~InUse(slot[e][i]) /\ slot'[e][i].context = Len(asked) + 1 /\ InUse(slot'[e][i])
      /\ \A d \in Endpoint, j \in Slot : d # e \/ j # i => slot'[d][j] = slot[d][j]
  BY AskGrows
<1> QED
  BY <1>1 DEF Open

LEMMA FreedStep ==
    ASSUME ~Rebirth, TypeOK, Slotted, Called, Freed, [Next]_vars
    PROVE  Freed'
<1>1. NoCall.what = "none"
  BY DEF NoCall
<1>2. CASE call' = call /\ slot' = slot
  BY <1>2 DEF Freed
<1>3. ASSUME NEW e, NEW h, NEW wait, NEW result, NEW i, Asks(e, h, wait, result, i)
      PROVE  Freed'
  <2>1. Running /\ call' = call
    BY <1>3 DEF Asks, Opened
  <2>2. call.what # "none" => ~call.deleted
    BY <2>1 DEF Running
  <2> QED
    BY <2>1, <2>2 DEF Freed
<1>4. ASSUME NEW table, table \in [Endpoint -> [Slot -> Conversation]], NEW a, NEW b,
             LookOn(table, a, b)
      PROVE  Freed'
  BY <1>1, <1>4, LooksOn DEF Freed
<1>5. AskAddress \/ AskMatch \/ AskCustom => Freed'
  BY <1>3, AskOpens
<1>6. ASSUME NEW r \in DOMAIN asked, Respond(r) PROVE Freed'
  BY <1>6, RespondCalls DEF Freed
<1>7. CASE DeleteOwn
  BY <1>7, DeletesOwn DEF Freed
<1>8. CASE ReturnAnswer
  BY <1>1, <1>8 DEF ReturnAnswer, Freed
<1>9. CASE ReturnTimeout
  <2>1. Quiet /\ LookOn(slot', call.ep, call.slot)
    BY <1>9, QuietSteps DEF ReturnTimeout
  <2>2. slot' \in [Endpoint -> [Slot -> Conversation]]
    BY <2>1, QuietSlots
  <2> QED
    BY <1>4, <2>1, <2>2
<1>10. CASE Tick
  <2>1. LookOn(slot, 0, 0) /\ slot \in [Endpoint -> [Slot -> Conversation]]
    BY <1>10 DEF Tick, TypeOK
  <2> QED
    BY <1>4, <2>1
<1> QED
  BY <1>2, <1>5, <1>6, <1>7, <1>8, <1>9, <1>10 DEF Next, NextTrans, Second, vars

LEMMA LookedStep ==
    ASSUME TypeOK, Slotted, Called, Freed, LookupAwaited, [Next]_vars
    PROVE  LookupAwaited'
<1> DEFINE Awaits(r) == asked[r].result = "pending" <=> Open(r)
<1>1. asked \in Seq(Asked)
  BY DEF TypeOK
<1>2. \A r \in DOMAIN asked : asked[r].handler = "address" => Awaits(r)
  BY DEF LookupAwaited
<1>3. ASSUME DOMAIN asked' = DOMAIN asked,
             \A r \in DOMAIN asked : asked'[r].handler = asked[r].handler,
             \A r \in DOMAIN asked : asked[r].handler = "address" =>
                \/ asked'[r].result = asked[r].result /\ (Open(r)' <=> Open(r))
                \/ asked'[r].result # "pending" /\ ~Open(r)'
      PROVE  LookupAwaited'
  BY <1>2, <1>3 DEF LookupAwaited
<1>4. ASSUME slot' = slot, NEW r PROVE Open(r)' <=> Open(r)
  BY <1>4 DEF Open
<1>5. CASE asked' = asked /\ slot' = slot
  BY <1>2, <1>5 DEF LookupAwaited, Open
<1>6. ASSUME NEW e, NEW h, NEW wait, NEW result, NEW i, Asks(e, h, wait, result, i)
      PROVE  LookupAwaited'
  <2> DEFINE n == Len(asked) + 1
  <2>1. /\ DOMAIN asked' = DOMAIN asked \cup {n} /\ n \notin DOMAIN asked
        /\ \A r \in DOMAIN asked : asked'[r] = asked[r]
        /\ asked'[n].handler = h /\ asked'[n].result = result
    <3>1. /\ DOMAIN asked = 1 .. Len(asked) /\ DOMAIN asked' = 1 .. n
          /\ \A r \in DOMAIN asked : asked'[r] = asked[r]
          /\ asked'[n].handler = h /\ asked'[n].result = result
      BY <1>6, AskGrows
    <3>2. Len(asked) \in Nat
      BY <1>1, LenProperties
    <3>3. 1 .. n = 1 .. Len(asked) \cup {n} /\ n \notin 1 .. Len(asked)
      BY <3>2
    <3> QED
      BY <3>1, <3>3
  <2>2. h = "address" => result = "pending"
    BY <1>6 DEF Asks
  <2>3. \A r : Open(r)' <=> Open(r) \/ r = n
    BY <1>6, Begins
  <2> HIDE DEF n
  <2> QED
    BY <1>2, <2>1, <2>2, <2>3 DEF LookupAwaited
<1>7. CASE DeleteOwn
  <2>1. asked' = asked /\ asked[call.of].handler = "custom"
    BY <1>7 DEF DeleteOwn
  <2>2. \A r : r # call.of => (Open(r)' <=> Open(r))
    BY <1>7, DeletesOwn
  <2> QED
    BY <1>3, <2>1, <2>2
<1>8. ASSUME NEW res \in {"value", "error", "timeout"}, call.what # "none", Store(res),
             slot' = Deleted(call.ep, call.slot)
      PROVE  LookupAwaited'
  <2>1. call.of \in DOMAIN asked
    BY <1>8 DEF Called
  <2>2. /\ Kept
        /\ \A r \in DOMAIN asked : asked'[r].result = IF r = call.of THEN res ELSE asked[r].result
    BY <1>8, <2>1, StoreKeeps
  <2>3. \A r : Open(r)' <=> Open(r) /\ r # call.of
    BY <1>8, Ends
  <2> QED
    BY <1>3, <2>2, <2>3 DEF Kept
<1>9. ASSUME call.what # "none", asked' = asked, asked[call.of].handler # "address",
             slot' = slot \/ slot' = Deleted(call.ep, call.slot)
      PROVE  LookupAwaited'
  <2>1. CASE slot' = slot
    BY <1>5, <1>9, <2>1
  <2>2. CASE slot' = Deleted(call.ep, call.slot)
    <3>1. \A r : Open(r)' <=> Open(r) /\ r # call.of
      BY <1>9, <2>2, Ends
    <3> QED
      BY <1>3, <1>9, <3>1
  <2> QED
    BY <1>9, <2>1, <2>2
<1>10. CASE ReturnAnswer
  <2>1. call.what = "answer" /\ slot' = AfterAnswer
    BY <1>10 DEF ReturnAnswer
  <2>2. CASE asked[call.of].handler = "address"
    <3>1. call.last
      BY <2>1, <2>2 DEF Called
    <3>2. slot' = Deleted(call.ep, call.slot)
      BY <2>1, <3>1 DEF AfterAnswer
    <3>3. Store("value") \/ Store("error")
      BY <1>10, <2>2 DEF ReturnAnswer
    <3> QED
      BY <1>8, <2>1, <3>2, <3>3
  <2>3. CASE asked[call.of].handler # "address"
    <3>1. asked' = asked
      BY <1>10, <2>3 DEF ReturnAnswer
    <3> QED
      BY <1>9, <2>1, <2>3, <3>1 DEF AfterAnswer
  <2> QED
    BY <2>2, <2>3
<1>11. CASE ReturnTimeout
  <2>1. call.what = "timeout" /\ slot' = Deleted(call.ep, call.slot)
    BY <1>11 DEF ReturnTimeout, AfterTimeout
  <2>2. CASE asked[call.of].handler = "address"
    <3>1. Store("timeout")
      BY <1>11, <2>2 DEF ReturnTimeout
    <3> QED
      BY <1>8, <2>1, <3>1
  <2>3. CASE asked[call.of].handler # "address"
    <3>1. asked' = asked
      BY <1>11, <2>3 DEF ReturnTimeout
    <3> QED
      BY <1>9, <2>1, <2>3, <3>1
  <2> QED
    BY <2>2, <2>3
<1>12. CASE Second
  <2>1. slot' = slot
    BY <1>12 DEF Second
  <2>2. Kept /\ \A r \in DOMAIN asked : asked'[r].result = asked[r].result
    BY <1>12, SecondKeeps
  <2> QED
    BY <1>3, <1>4, <2>1, <2>2 DEF Kept
<1>13. AskAddress \/ AskMatch \/ AskCustom => LookupAwaited'
  BY <1>6, AskOpens
<1> QED
  BY <1>5, <1>7, <1>10, <1>11, <1>12, <1>13 DEF Next, NextTrans, Respond, Tick, vars
-----------------------------------------------------------------------------
(* The endpoint implements Exchange *)

LEMMA CallShown ==
    ASSUME call \in Call \cup {NoCall}, call' \in Call \cup {NoCall}
    PROVE  /\ call.what = "none" => ExchangeCall = NoCall
           /\ call.what # "none" =>
                 /\ ExchangeCall # NoCall
                 /\ ExchangeCall = [of |-> call.of, what |-> call.what, last |-> call.last]
           /\ call'.what = "none" => ExchangeCall' = NoCall
           /\ call'.what # "none" =>
                 /\ ExchangeCall' = [of |-> call'.of, what |-> call'.what, last |-> call'.last]
                 /\ call'.what \in {"answer", "timeout"} /\ call'.last \in BOOLEAN
<1>1. NoCall.what = "none"
  BY DEF NoCall
<1>2. ASSUME call.what # "none" PROVE ExchangeCall # NoCall
  <2>1. ExchangeCall.what = call.what
    BY <1>2 DEF ExchangeCall
  <2> QED
    BY <1>1, <1>2, <2>1
<1>3. ASSUME call'.what # "none"
      PROVE  call'.what \in {"answer", "timeout"} /\ call'.last \in BOOLEAN
  BY <1>1, <1>3 DEF Call
<1> QED
  BY <1>2, <1>3 DEF ExchangeCall

\* The life of a request, by the table.
LEMMA LifeShown ==
    ASSUME asked \in Seq(Asked), asked' \in Seq(Asked)
    PROVE  /\ ExchangeLife = [r \in Request |-> ExchangeLife[r]]
           /\ ExchangeLife' = [r \in Request |-> ExchangeLife'[r]]
           /\ \A r \in Request :
                 /\ ExchangeLife[r] =
                       IF r \notin DOMAIN asked THEN "new" ELSE IF Open(r) THEN "open" ELSE "closed"
                 /\ ExchangeLife'[r] =
                       IF r \notin DOMAIN asked' THEN "new"
                       ELSE IF Open(r)' THEN "open" ELSE "closed"
<1>1. /\ DOMAIN asked = 1 .. Len(asked) /\ Len(asked) \in Nat
      /\ DOMAIN asked' = 1 .. Len(asked') /\ Len(asked') \in Nat
  BY LenProperties
<1>2. \A r \in Request : /\ r > Len(asked) <=> r \notin DOMAIN asked
                        /\ r > Len(asked') <=> r \notin DOMAIN asked'
  BY <1>1, Constants DEF Request
<1> QED
  BY <1>2 DEF ExchangeLife

LEMMA RefinesStep ==
    ASSUME IInv, Freed, [Next]_vars, TypeOK'
    PROVE  [Promise!Next]_(Promise!vars)
<1> DEFINE L == ExchangeLife
           C == ExchangeCall
<1>1. /\ asked \in Seq(Asked) /\ asked' \in Seq(Asked)
      /\ call \in Call \cup {NoCall} /\ call' \in Call \cup {NoCall}
      /\ DOMAIN asked \subseteq Request
  <2>1. /\ asked \in Seq(Asked) /\ asked' \in Seq(Asked) /\ Len(asked) <= MaxRequest
        /\ call \in Call \cup {NoCall} /\ call' \in Call \cup {NoCall}
    BY DEF IInv, TypeOK
  <2>2. DOMAIN asked = 1 .. Len(asked) /\ Len(asked) \in Nat
    BY <2>1, LenProperties
  <2> QED
    BY <2>1, <2>2, Constants DEF Request
<1>2. TypeOK /\ Slotted /\ Called
  BY DEF IInv
<1>3. ASSUME DOMAIN asked' = DOMAIN asked, \A r \in Request : Open(r)' <=> Open(r)
      PROVE  L' = L
  BY <1>1, <1>3, LifeShown
<1>4. call' = call => C' = C
  BY DEF ExchangeCall
<1>5. ASSUME call' = call, asked' = asked, slot' = slot
      PROVE  UNCHANGED Promise!vars
  BY <1>3, <1>4, <1>5 DEF Open, Promise!vars
\* A request is made
<1>6. ASSUME NEW e, NEW h, NEW wait, NEW result, NEW i, Asks(e, h, wait, result, i)
      PROVE  Promise!Next
  <2> DEFINE n == Len(asked) + 1
  <2>1. /\ DOMAIN asked = 1 .. Len(asked) /\ DOMAIN asked' = 1 .. n /\ n \in Request
        /\ Len(asked) \in Nat
    BY <1>1, <1>2, <1>6, AskGrows, LenProperties DEF Request
  <2>2. n \notin DOMAIN asked /\ DOMAIN asked' = DOMAIN asked \cup {n}
    BY <2>1
  <2>3. \A r : Open(r)' <=> Open(r) \/ r = n
    BY <1>2, <1>6, Begins
  <2>4. call' = call
    BY <1>6 DEF Asks, Opened
  <2> HIDE DEF n
  <2>5. L[n] = "new" /\ L' = [L EXCEPT ![n] = "open"]
    <3>1. ASSUME NEW r \in Request PROVE L'[r] = IF r = n THEN "open" ELSE L[r]
      BY <1>1, <2>1, <2>2, <2>3, LifeShown
    <3>2. L = [r \in Request |-> L[r]] /\ L' = [r \in Request |-> L'[r]]
      BY <1>1, LifeShown
    <3>3. L[n] = "new"
      BY <1>1, <2>1, <2>2, LifeShown
    <3> HIDE DEF L
    <3> QED
      BY <2>1, <3>1, <3>2, <3>3
  <2>6. Promise!Ask(n)
    BY <1>4, <2>4, <2>5 DEF Promise!Ask
  <2> QED
    BY <2>1, <2>6 DEF Promise!Next
\* A handler is called
<1>7. ASSUME NEW e \in Endpoint, NEW i \in Slot, InUse(slot[e][i]), call.what = "none",
             call'.what \in {"answer", "timeout"}, call'.of = slot[e][i].context,
             asked' = asked, slot' = slot
      PROVE  Promise!Next
  <2>1. call'.of \in DOMAIN asked /\ Open(call'.of)
    BY <1>2, <1>7 DEF Slotted, Holds, Open
  <2>2. call'.of \in Request /\ L[call'.of] = "open" /\ L' = L
    BY <1>1, <1>3, <1>7, <2>1, LifeShown DEF Open
  <2>3. C = NoCall /\ C' = [of |-> call'.of, what |-> call'.what, last |-> call'.last]
        /\ call'.last \in BOOLEAN
    BY <1>1, <1>7, CallShown
  <2>4. C' \in Promise!Call
    BY <1>7, <2>2, <2>3 DEF Promise!Call
  <2>5. C'.of = call'.of
    BY <2>3
  <2>6. Promise!Begin(C')
    BY <2>2, <2>3, <2>5 DEF Promise!Begin
  <2> QED
    BY <2>4, <2>6 DEF Promise!Next
<1>8. ASSUME NEW r \in DOMAIN asked, Respond(r) PROVE Promise!Next
  <2>1. call.what = "none" /\ asked' = asked /\ slot' = slot
    BY <1>8 DEF Respond
  <2>2. PICK i \in Slot :
           /\ asked[r].ep \in Endpoint /\ InUse(slot[asked[r].ep][i])
           /\ call'.what = "answer" /\ call'.of = slot[asked[r].ep][i].context
    BY <1>2, <1>8, RespondCalls
  <2> QED
    BY <1>7, <2>1, <2>2
<1>9. ASSUME Tick PROVE [Promise!Next]_(Promise!vars)
  <2>1. /\ call.what = "none" /\ asked' = asked /\ slot' = slot /\ LookOn(slot, 0, 0)
        /\ slot \in [Endpoint -> [Slot -> Conversation]]
    BY <1>2, <1>9 DEF Tick, TypeOK
  <2>2. CASE call' = NoCall
    <3>1. call = NoCall
      BY <1>1, <2>1 DEF Call
    <3> QED
      BY <1>5, <2>1, <2>2, <3>1
  <2>3. ASSUME NEW e \in Endpoint, NEW i \in Slot, Expired(slot[e][i]),
               call'.what = "timeout", call'.of = slot[e][i].context
        PROVE  Promise!Next
    BY <1>7, <2>1, <2>3 DEF Expired
  <2> QED
    BY <2>1, <2>2, <2>3, LooksOn
\* It deletes its conversation
<1>10. ASSUME DeleteOwn PROVE Promise!Next
  <2>1. /\ call.what # "none" /\ asked' = asked /\ call.of \in DOMAIN asked
    BY <1>2, <1>10 DEF DeleteOwn, Called
  <2>2. /\ ~Open(call.of)' /\ call'.of = call.of /\ call'.what = call.what /\ call'.last = call.last
        /\ \A r : r # call.of => (Open(r)' <=> Open(r))
    BY <1>2, <1>10, DeletesOwn
  <2>3. L' = [L EXCEPT ![call.of] = "closed"]
    BY <1>1, <2>1, <2>2, LifeShown
  <2>4. C # NoCall /\ C.of = call.of /\ C' = C
    BY <1>1, <2>1, <2>2, CallShown
  <2>5. Promise!Cancel
    BY <2>3, <2>4 DEF Promise!Cancel
  <2> QED
    BY <2>5 DEF Promise!Next
\* It returns
<1>11. ASSUME call.what # "none", slot' = Deleted(call.ep, call.slot), Kept
       PROVE  L' = [L EXCEPT ![call.of] = "closed"]
  <2>1. \A r : Open(r)' <=> Open(r) /\ r # call.of
    BY <1>2, <1>11, Ends
  <2>2. call.of \in DOMAIN asked /\ DOMAIN asked' = DOMAIN asked
    BY <1>2, <1>11 DEF Called, Kept
  <2>3. ASSUME NEW r \in Request
        PROVE  L'[r] = IF r = call.of THEN "closed" ELSE L[r]
    BY <1>1, <2>1, <2>2, LifeShown
  <2>4. L = [r \in Request |-> L[r]] /\ L' = [r \in Request |-> L'[r]]
    BY <1>1, LifeShown
  <2> HIDE DEF L
  <2> QED
    BY <2>3, <2>4
<1>12. ASSUME ReturnAnswer PROVE Promise!Next
  <2>1. Quiet
    BY <1>2, <1>12, QuietSteps
  <2>2. /\ call.what = "answer" /\ call' = NoCall /\ slot' = AfterAnswer
    BY <1>12 DEF ReturnAnswer
  <2>3. /\ C # NoCall /\ C.what = "answer" /\ C.last = call.last /\ C.of = call.of
        /\ C' = NoCall
    BY <1>1, <2>2, CallShown DEF NoCall
  <2>4. CASE call.last
    BY <1>11, <2>1, <2>2, <2>3, <2>4 DEF AfterAnswer, Quiet, Promise!Finish, Promise!Next
  <2>5. CASE ~call.last
    <3>1. slot' = slot /\ DOMAIN asked' = DOMAIN asked
      BY <2>1, <2>2, <2>5 DEF AfterAnswer, Quiet, Kept
    <3>2. L' = L
      BY <1>3, <3>1 DEF Open
    <3> QED
      BY <2>3, <2>5, <3>2 DEF Promise!Finish, Promise!Next
  <2> QED
    BY <2>4, <2>5
<1>13. ASSUME ReturnTimeout PROVE Promise!Next
  <2>1. Quiet /\ Kept
    BY <1>2, <1>13, QuietSteps DEF Quiet
  <2>2. /\ call.what = "timeout" /\ slot' = Deleted(call.ep, call.slot)
        /\ LookOn(slot', call.ep, call.slot)
    BY <1>13 DEF ReturnTimeout, AfterTimeout
  <2>3. slot' \in [Endpoint -> [Slot -> Conversation]]
    BY <2>1, QuietSlots, <1>2
  <2>4. /\ C # NoCall /\ C.what = "timeout" /\ C.of = call.of
    BY <1>1, <2>2, CallShown
  <2>5. L' = [L EXCEPT ![call.of] = "closed"]
    BY <1>11, <2>1, <2>2
  <2>6. CASE call' = NoCall
    <3>1. C' = NoCall
      BY <1>1, <2>6, CallShown DEF NoCall
    <3> QED
      BY <2>4, <2>5, <3>1 DEF Promise!Finish, Promise!Next
  <2>7. ASSUME NEW e \in Endpoint, NEW i \in Slot, Expired(slot'[e][i]),
               call'.what = "timeout", call'.of = slot'[e][i].context
        PROVE  Promise!Next
    <3>1. InUse(slot'[e][i])
      BY <2>7 DEF Expired
    <3>2. slot'[e][i] = slot[e][i] /\ InUse(slot[e][i])
      BY <1>2, <2>1, <3>1, QuietSlots
    <3>3. call'.of \in DOMAIN asked /\ Open(call'.of)
      BY <1>2, <2>7, <3>2 DEF Slotted, Holds, Open
    <3>4. \A r : Open(r)' <=> Open(r) /\ r # call.of
      BY <1>2, <2>2, Ends
    <3>5. call'.of # call.of
      BY <2>7, <3>1, <3>4 DEF Open
    <3>6. C' = [of |-> call'.of, what |-> call'.what, last |-> call'.last]
          /\ call'.last \in BOOLEAN
      BY <1>1, <2>7, CallShown
    <3>7. call'.of \in Request /\ L[call'.of] = "open"
      BY <1>1, <3>3, LifeShown
    <3>8. C' \in Promise!Call /\ C'.of = call'.of /\ C'.what = "timeout"
      BY <2>7, <3>6, <3>7 DEF Promise!Call
    <3>9. Promise!FinishAndBegin(C')
      BY <2>4, <2>5, <3>5, <3>7, <3>8 DEF Promise!FinishAndBegin
    <3> QED
      BY <3>8, <3>9 DEF Promise!Next
  <2> QED
    BY <2>2, <2>3, <2>6, <2>7, LooksOn
<1>14. ASSUME Second PROVE UNCHANGED Promise!vars
  <2>1. slot' = slot /\ call' = call /\ DOMAIN asked' = DOMAIN asked
    BY <1>2, <1>14, SecondKeeps DEF Second, Kept
  <2> QED
    BY <1>3, <1>4, <2>1 DEF Open, Promise!vars
<1>15. AskAddress \/ AskMatch \/ AskCustom => Promise!Next
  BY <1>6, AskOpens
<1> QED
  BY <1>5, <1>8, <1>9, <1>10, <1>12, <1>13, <1>14, <1>15 DEF Next, NextTrans, vars
-----------------------------------------------------------------------------

LEMMA RefinesInit == Init => Promise!Init
<1> SUFFICES ASSUME Init PROVE Promise!Init
  OBVIOUS
<1>1. asked = <<>> /\ call = NoCall
  BY DEF Init
<1>2. \A r \in Request : r > Len(asked)
  BY <1>1, Constants DEF Request
<1>3. ExchangeLife = [r \in Request |-> "new"]
  BY <1>2 DEF ExchangeLife
<1>4. ExchangeCall = NoCall
  BY <1>1 DEF ExchangeCall, NoCall
<1> QED
  BY <1>3, <1>4 DEF Promise!Init

LEMMA FreedInvariant ==
    ASSUME ~Rebirth
    PROVE  Spec => [](Freed /\ LookupAwaited)
<1>1. Init => Freed /\ LookupAwaited
  BY DEF Init, Freed, LookupAwaited, NoCall
<1>2. IInv /\ Freed /\ LookupAwaited /\ [Next]_vars => Freed' /\ LookupAwaited'
  BY FreedStep, LookedStep DEF IInv
<1> QED
  BY Invariant, <1>1, <1>2, PTL DEF Spec

\* Whoever waits for a looked-up address by polling the variable is released when the
\* conversation is over, and not before (zdo_send_nwk_addr_req() and its handler), when no
\* handler makes a request after it deleted its own conversation.
THEOREM LookupAwaitedHolds ==
    ASSUME ~Rebirth
    PROVE  Spec => []LookupAwaited
BY FreedInvariant, PTL

\* The endpoint keeps what it promises to a response handler (Exchange): it is called only
\* while its conversation is open, a timeout is its last call and no other handler ends
\* it.  When handlers make requests after they deleted their conversation, the tick may
\* delete the new one with the old one's slot, and the theorem is false.
THEOREM EndpointImplementsExchange ==
    ASSUME ~Rebirth
    PROVE  Spec => Implements
<1>1. IInv /\ Freed /\ IInv' /\ [Next]_vars => [Promise!Next]_(Promise!vars)
  BY RefinesStep DEF IInv
<1> QED
  BY Invariant, FreedInvariant, RefinesInit, <1>1, PTL DEF Spec, Implements, Promise!Spec

-----------------------------------------------------------------------------
(***************************************************************************)
(* Commissioning.  Its step and its variables are not those of             *)
(* Conversation: the two modules have only the prover's theories in common.*)
(***************************************************************************)

(* The passes over the records of a request *)

LEMMA LeastIn ==
    ASSUME NEW S \in SUBSET Nat, S # {}
    PROVE  \E i \in S : \A j \in S : i <= j
<1> DEFINE T == {0 .. i : i \in S}
           R == StrictSubsetOrdering(Nat)
<1>1. T \subseteq FiniteSubsetsOf(Nat) /\ T # {}
  <2>1. \A i \in S : 0 .. i \subseteq Nat /\ IsFiniteSet(0 .. i)
    BY FS_Interval
  <2> QED BY <2>1 DEF FiniteSubsetsOf
<1>2. PICK x \in T : \A y \in T : <<y, x>> \notin R
  <2>1. IsWellFoundedOn(R, FiniteSubsetsOf(Nat))
    BY FS_StrictSubsetOrderingWellFounded
  <2>2. IsWellFoundedOn(R, T)
    BY <1>1, <2>1, IsWellFoundedOnSubset
  <2> QED BY <1>1, <2>2, WFMin
<1>3. PICK i \in S : x = 0 .. i
  BY <1>2
<1>4. ASSUME NEW j \in S PROVE i <= j
  <2>1. SUFFICES ASSUME j < i PROVE FALSE
    OBVIOUS
  <2>2. 0 .. j \subseteq 0 .. i /\ i \in 0 .. i /\ i \notin 0 .. j
    BY <2>1
  <2>3. <<0 .. j, 0 .. i>> \in R
    BY <2>2 DEF StrictSubsetOrdering
  <2> QED BY <1>2, <1>3, <2>3
<1> QED BY <1>4

\* What holds before the first record, and of one record more, holds of all: there is
\* no first number that is missing.
LEMMA OneMore ==
    ASSUME NEW N \in Nat, NEW S \in SUBSET (0 .. N), 0 \in S,
           \A n \in 1 .. N : n - 1 \in S => n \in S
    PROVE  \A n \in 0 .. N : n \in S
<1> SUFFICES ASSUME (0 .. N) \ S # {} PROVE FALSE
  OBVIOUS
<1> DEFINE T == (0 .. N) \ S
<1>1. PICK i \in T : \A j \in T : i <= j
  <2>1. T \in SUBSET Nat /\ T # {}
    OBVIOUS
  <2> HIDE DEF T
  <2> QED BY <2>1, LeastIn
<1>2. i \in 1 .. N /\ i - 1 \in 0 .. N
  OBVIOUS
<1>3. i - 1 \notin T
  <2> HIDE DEF T
  <2> QED BY <1>1, <1>2
<1> QED BY <1>2, <1>3

\* The pass over n records, as an equation.
RunOf(records, flags, sas, role, n, run) ==
    run = [m \in 0 .. n |-> IF m = 0 THEN [sas |-> sas, failed |-> FALSE, cut |-> FALSE]
                            ELSE PassStep(role, flags, records[m], run[m - 1])]

LEMMA RunExists ==
    ASSUME NEW records, Len(records) \in Nat, NEW flags, NEW sas, NEW role
    PROVE  \E run : RunOf(records, flags, sas, role, Len(records), run)
<1> DEFINE N == Len(records)
           first == [sas |-> sas, failed |-> FALSE, cut |-> FALSE]
           step(m, acc) == PassStep(role, flags, records[m], acc)
           S == {n \in 0 .. N : \E run : RunOf(records, flags, sas, role, n, run)}
<1>1. 0 \in S
  <2> DEFINE run == [m \in 0 .. 0 |-> first]
  <2>1. run = [m \in 0 .. 0 |-> IF m = 0 THEN first ELSE step(m, run[m - 1])]
    <3> HIDE DEF first
    <3> QED OBVIOUS
  <2>2. RunOf(records, flags, sas, role, 0, run)
    BY <2>1 DEF RunOf
  <2> QED BY <2>2
<1>2. ASSUME NEW n \in 1 .. N, n - 1 \in S PROVE n \in S
  <2>1. PICK run : RunOf(records, flags, sas, role, n - 1, run)
    BY <1>2
  <2> DEFINE more == [m \in 0 .. n |-> IF m = n THEN step(n, run[n - 1]) ELSE run[m]]
  <2>2. run = [m \in 0 .. (n - 1) |-> IF m = 0 THEN first ELSE step(m, run[m - 1])]
    BY <2>1 DEF RunOf
  <2>3. \A m \in 0 .. (n - 1) : more[m] = run[m]
    OBVIOUS
  <2>4. \A m \in 0 .. n : more[m] = IF m = 0 THEN first ELSE step(m, more[m - 1])
    <3> SUFFICES ASSUME NEW m \in 0 .. n
                 PROVE  more[m] = IF m = 0 THEN first ELSE step(m, more[m - 1])
      OBVIOUS
    <3>1. CASE m = n
      <4>1. more[m] = step(n, run[n - 1])
        BY <3>1
      <4>2. more[n - 1] = run[n - 1] /\ m # 0
        BY <2>3, <3>1
      <4> HIDE DEF more
      <4> QED BY <3>1, <4>1, <4>2
    <3>2. CASE m # n
      <4>1. m \in 0 .. (n - 1) /\ (m # 0 => m - 1 \in 0 .. (n - 1))
        BY <3>2
      <4>2. more[m] = run[m] /\ (m # 0 => more[m - 1] = run[m - 1])
        BY <2>3, <4>1
      <4>3. run[m] = IF m = 0 THEN first ELSE step(m, run[m - 1])
        BY <2>2, <4>1
      <4> HIDE DEF more, first, step
      <4> QED BY <4>2, <4>3
    <3> QED BY <3>1, <3>2
  <2>5. more = [m \in 0 .. n |-> IF m = 0 THEN first ELSE step(m, more[m - 1])]
    <3>1. more = [m \in 0 .. n |-> more[m]]
      OBVIOUS
    <3> HIDE DEF more, first, step
    <3> QED BY <2>4, <3>1
  <2>6. RunOf(records, flags, sas, role, n, more)
    BY <2>5 DEF RunOf
  <2> HIDE DEF more
  <2> QED BY <2>6
<1>3. N \in S
  <2>1. S \in SUBSET (0 .. N) /\ N \in Nat
    <3> DEFINE Exists(n) == \E run : RunOf(records, flags, sas, role, n, run)
    <3> HIDE DEF Exists
    <3>1. S = {n \in 0 .. N : Exists(n)}
      BY DEF Exists
    <3> QED BY <3>1
  <2>2. \A n \in 1 .. N : n - 1 \in S => n \in S
    BY <1>2
  <2> HIDE DEF S, N
  <2>3. N \in 0 .. N
    BY <2>1
  <2>4. \A n \in 0 .. N : n \in S
    BY <1>1, <2>1, <2>2, OneMore
  <2> QED BY <2>3, <2>4
<1> QED BY <1>3

LEMMA PassedIs ==
    ASSUME NEW records, Len(records) \in Nat, NEW flags, NEW sas, NEW role
    PROVE  /\ Passed(records, flags, sas, role)[0] = [sas |-> sas, failed |-> FALSE, cut |-> FALSE]
           /\ \A n \in 1 .. Len(records) :
                 Passed(records, flags, sas, role)[n] =
                    PassStep(role, flags, records[n], Passed(records, flags, sas, role)[n - 1])
<1> DEFINE after == Passed(records, flags, sas, role)
<1>1. \E run : RunOf(records, flags, sas, role, Len(records), run)
  BY RunExists
<1>2. RunOf(records, flags, sas, role, Len(records), after)
  BY <1>1 DEF RunOf, Passed
<1>3. after = [m \in 0 .. Len(records) |->
                 IF m = 0 THEN [sas |-> sas, failed |-> FALSE, cut |-> FALSE]
                 ELSE PassStep(role, flags, records[m], after[m - 1])]
  BY <1>2 DEF RunOf
<1> HIDE DEF after
<1>4. \A m \in 0 .. Len(records) :
        after[m] = IF m = 0 THEN [sas |-> sas, failed |-> FALSE, cut |-> FALSE]
                   ELSE PassStep(role, flags, records[m], after[m - 1])
  BY <1>3, Zenon
<1>5. /\ 0 \in 0 .. Len(records)
      /\ \A m \in 1 .. Len(records) : m \in 0 .. Len(records) /\ m # 0
  OBVIOUS
<1>6. after[0] = [sas |-> sas, failed |-> FALSE, cut |-> FALSE]
  BY <1>4, <1>5
<1>7. \A n \in 1 .. Len(records) :
        after[n] = PassStep(role, flags, records[n], after[n - 1])
  BY <1>4, <1>5
<1> QED BY <1>6, <1>7 DEF after

\* The same, as one fact to cite.
PassOver(records, flags, sas, role, after) ==
    /\ after[0] = [sas |-> sas, failed |-> FALSE, cut |-> FALSE]
    /\ \A n \in 1 .. Len(records) : after[n] = PassStep(role, flags, records[n], after[n - 1])

LEMMA PassedOver ==
    ASSUME NEW records, Len(records) \in Nat, NEW flags, NEW sas, NEW role
    PROVE  PassOver(records, flags, sas, role, Passed(records, flags, sas, role))
BY PassedIs DEF PassOver

\* A pass that does not assign leaves the set alone.
LEMMA CheckKeepsSas ==
    ASSUME NEW records, Len(records) \in Nat, NEW sas, NEW role
    PROVE  Pass(records, "none", sas, role).sas = sas
<1> DEFINE after == Passed(records, "none", sas, role)
           N == Len(records)
           S == {n \in 0 .. N : after[n].sas = sas}
<1>1. /\ after[0] = [sas |-> sas, failed |-> FALSE, cut |-> FALSE]
      /\ \A n \in 1 .. N : after[n] = PassStep(role, "none", records[n], after[n - 1])
  BY PassedIs
<1> HIDE DEF after
<1>2. N \in Nat /\ 0 \in 0 .. N /\ N \in 0 .. N /\ \A n \in 1 .. N : n \in 0 .. N
  OBVIOUS
<1>3. 0 \in S
  BY <1>1, <1>2
<1>4. ASSUME NEW n \in 1 .. N, n - 1 \in S PROVE n \in S
  <2> DEFINE status == StatusOf(records[n], "none", role)
  <2>1. after[n - 1].sas = sas
    BY <1>4
  <2>2. after[n] = IF after[n - 1].cut THEN after[n - 1]
                   ELSE [sas |-> after[n - 1].sas,
                         failed |-> after[n - 1].failed \/ status # "SUCCESS",
                         cut |-> status = "MALFORMED_COMMAND"]
    BY <1>1 DEF PassStep
  <2> HIDE DEF status
  <2>3. after[n].sas = sas
    BY <2>1, <2>2
  <2> QED BY <1>2, <2>3
<1>5. S \in SUBSET (0 .. N)
  OBVIOUS
<1>6. N \in S
  <2>1. \A n \in 1 .. N : n - 1 \in S => n \in S
    BY <1>4
  <2> HIDE DEF S, N
  <2>2. \A n \in 0 .. N : n \in S
    BY <1>2, <1>3, <1>5, <2>1, OneMore
  <2> QED BY <1>2, <2>2
<1> QED BY <1>6 DEF Pass, after

\* A record that is written has a value its attribute can have.
LEMMA WrittenFits ==
    ASSUME WellFormed, NEW records \in Requests, NEW i \in 1 .. Len(records), NEW role,
           NEW sas \in SasType, StatusOf(records[i], "assign", role) = "SUCCESS"
    PROVE  [sas EXCEPT ![records[i].attribute] = records[i].value] \in SasType
<1> DEFINE rec == records[i]
<1>1. /\ DOMAIN records = 1 .. Len(records) /\ rec.form \in {"good", "typed", "short"}
      /\ rec.form = "good" =>
            /\ rec.attribute = "extended_panid" => rec.value \in Epid \cup {AnyPan}
            /\ rec.attribute = "network_key" => rec.value \in Key \cup {Unset}
            /\ rec.attribute = "startup_control" => rec.value \in StartupControl
  BY DEF WellFormed
<1> DEFINE attribute == rec.attribute  value == rec.value
<1>2. rec.form = "good" /\ attribute \in Stored /\ InRange(rec)
  <2> HIDE DEF rec
  <2>1. StatusOf(rec, "assign", role) = "SUCCESS"
    BY DEF rec
  <2>2. rec.form = "good"
    BY <1>1, <2>1 DEF StatusOf
  <2>3. attribute \in Stored \cup OutOfBand \cup ReadOnly
    BY <2>1, <2>2 DEF StatusOf
  <2>4. attribute \notin ReadOnly
    BY <2>1, <2>2 DEF StatusOf, Stored, OutOfBand, ReadOnly
  <2>5. attribute \in OutOfBand => attribute \notin Stored
    BY DEF OutOfBand, Stored
  <2>6. attribute \notin OutOfBand
    BY <2>1, <2>2, <2>3, <2>4, <2>5 DEF StatusOf
  <2>7. InRange(rec)
    BY <2>1, <2>2, <2>3, <2>4, <2>6 DEF StatusOf
  <2> QED BY <2>2, <2>3, <2>4, <2>6, <2>7
<1>3. /\ attribute = "startup_control" => value \in StartupControl
      /\ attribute = "use_insecure_join" => value \in 0 .. 1
      /\ attribute = "extended_panid" => value \in Epid \cup {AnyPan}
      /\ attribute = "network_key" => value \in Key \cup {Unset}
  <2>1. attribute = "use_insecure_join" => value \in 0 .. 1
    BY <1>2 DEF InRange
  <2> QED BY <1>1, <1>2, <2>1
<1>4. attribute \in {"startup_control", "extended_panid", "network_key", "use_insecure_join"}
  BY <1>2 DEF Stored
<1> HIDE DEF attribute, value
<1>5. [sas EXCEPT ![attribute] = value] \in SasType
  BY <1>3, <1>4 DEF SasType
<1> QED BY <1>5 DEF attribute, value

LEMMA PassTyped ==
    ASSUME WellFormed, NEW records \in Requests, NEW flags, NEW sas \in SasType, NEW role
    PROVE  Pass(records, flags, sas, role).sas \in SasType
<1> DEFINE after == Passed(records, flags, sas, role)
           N == Len(records)
           S == {n \in 0 .. N : after[n].sas \in SasType}
<1>1. N \in Nat
  BY DEF WellFormed, StatusRecords
<1>2. /\ after[0] = [sas |-> sas, failed |-> FALSE, cut |-> FALSE]
      /\ \A n \in 1 .. N : after[n] = PassStep(role, flags, records[n], after[n - 1])
  <2>1. Len(records) \in Nat
    BY <1>1
  <2>2. PassOver(records, flags, sas, role, Passed(records, flags, sas, role))
    BY <2>1, PassedOver
  <2> HIDE DEF after
  <2>3. PassOver(records, flags, sas, role, after)
    BY <2>2 DEF after
  <2> QED BY <2>3 DEF PassOver
<1> HIDE DEF after
<1>3. 0 \in 0 .. N /\ N \in 0 .. N /\ \A n \in 1 .. N : n \in 0 .. N
  BY <1>1
<1>4. 0 \in S
  BY <1>2, <1>3
<1>5. ASSUME NEW n \in 1 .. N, n - 1 \in S PROVE n \in S
  <2> DEFINE status == StatusOf(records[n], flags, role)
             acc == after[n - 1]
  <2>1. acc.sas \in SasType
    BY <1>5
  <2>2. after[n] = IF acc.cut THEN acc
                   ELSE [sas |-> IF flags = "assign" /\ status = "SUCCESS"
                                 THEN [acc.sas EXCEPT ![records[n].attribute] = records[n].value]
                                 ELSE acc.sas,
                         failed |-> acc.failed \/ status # "SUCCESS",
                         cut |-> status = "MALFORMED_COMMAND"]
    BY <1>2 DEF PassStep
  <2>3. flags = "assign" /\ status = "SUCCESS" =>
           [acc.sas EXCEPT ![records[n].attribute] = records[n].value] \in SasType
    BY <2>1, WrittenFits
  <2> HIDE DEF status, acc
  <2>4. after[n].sas \in SasType
    BY <2>1, <2>2, <2>3
  <2> QED BY <1>3, <2>4
<1>6. S \in SUBSET (0 .. N)
  OBVIOUS
<1>7. N \in S
  <2>1. \A n \in 1 .. N : n - 1 \in S => n \in S
    BY <1>5
  <2> HIDE DEF S, N
  <2>2. \A n \in 0 .. N : n \in S
    BY <1>1, <1>4, <1>6, <2>1, OneMore
  <2> QED BY <1>3, <2>2
<1> QED BY <1>7 DEF Pass, after

LEMMA WriteTyped ==
    ASSUME WellFormed, NEW records \in Requests, NEW undivided, NEW sas \in SasType, NEW role
    PROVE  Write(undivided, records, sas, role).sas \in SasType
BY PassTyped DEF Write

\* A pass that checks and does not fail refused no record.
LEMMA CheckedAll ==
    ASSUME NEW records, Len(records) \in Nat, NEW sas, NEW role,
           ~Pass(records, "none", sas, role).failed
    PROVE  \A i \in 1 .. Len(records) : StatusOf(records[i], "none", role) = "SUCCESS"
<1> DEFINE after == Passed(records, "none", sas, role)
           N == Len(records)
           status(i) == StatusOf(records[i], "none", role)
           S == {n \in 0 .. N :
                   /\ after[n].cut => after[n].failed
                   /\ ~after[n].failed => \A i \in 1 .. n : status(i) = "SUCCESS"}
<1>1. /\ after[0] = [sas |-> sas, failed |-> FALSE, cut |-> FALSE]
      /\ \A n \in 1 .. N : after[n] = PassStep(role, "none", records[n], after[n - 1])
  BY PassedIs
<1>2. \A n \in 1 .. N :
        after[n] = IF after[n - 1].cut THEN after[n - 1]
                   ELSE [sas |-> after[n - 1].sas,
                         failed |-> after[n - 1].failed \/ status(n) # "SUCCESS",
                         cut |-> status(n) = "MALFORMED_COMMAND"]
  BY <1>1 DEF PassStep
<1> HIDE DEF after, status
<1>3. N \in Nat /\ 0 \in 0 .. N /\ N \in 0 .. N /\ \A n \in 1 .. N : n \in 0 .. N
  OBVIOUS
<1>4. 0 \in S
  BY <1>1, <1>3
<1>5. ASSUME NEW n \in 1 .. N, n - 1 \in S PROVE n \in S
  <2> DEFINE b == after[n - 1]
  <2>1. /\ b.cut => b.failed
        /\ ~b.failed => \A i \in 1 .. n - 1 : status(i) = "SUCCESS"
    BY <1>5
  <2>2. CASE b.cut
    <3>1. after[n] = b
      BY <1>2, <2>2
    <3> HIDE DEF b
    <3>2. after[n].failed
      BY <2>1, <2>2, <3>1
    <3> QED BY <1>3, <3>2
  <2>3. CASE ~b.cut
    <3> DEFINE sum == [sas |-> b.sas, failed |-> b.failed \/ status(n) # "SUCCESS",
                       cut |-> status(n) = "MALFORMED_COMMAND"]
    <3>3. after[n] = sum
      BY <1>2, <2>3
    <3>4. /\ sum.failed = (b.failed \/ status(n) # "SUCCESS")
          /\ sum.cut = (status(n) = "MALFORMED_COMMAND")
      OBVIOUS
    <3> HIDE DEF sum, b
    <3>1. /\ after[n].failed <=> b.failed \/ status(n) # "SUCCESS"
          /\ after[n].cut <=> status(n) = "MALFORMED_COMMAND"
      BY <3>3, <3>4
    <3>2. \A i \in 1 .. n : i \in 1 .. n - 1 \/ i = n
      OBVIOUS
    <3> QED BY <1>3, <2>1, <3>1, <3>2
  <2> QED BY <2>2, <2>3
<1>6. S \in SUBSET (0 .. N)
  OBVIOUS
<1>7. N \in S
  <2>1. \A n \in 1 .. N : n - 1 \in S => n \in S
    BY <1>5
  <2> HIDE DEF S, N
  <2>2. \A n \in 0 .. N : n \in S
    BY <1>3, <1>4, <1>6, <2>1, OneMore
  <2> QED BY <1>3, <2>2
<1>8. ~after[N].failed
  BY DEF Pass, after
<1> QED BY <1>7, <1>8 DEF status

\* A record that passed the check is written, unless its attribute has no place; it never
\* ends the pass.
LEMMA CheckedIsWritten ==
    ASSUME NEW rec, NEW role, rec.form \in {"good", "typed", "short"},
           StatusOf(rec, "none", role) = "SUCCESS"
    PROVE  /\ StatusOf(rec, "assign", role) # "MALFORMED_COMMAND"
           /\ rec.attribute \notin OutOfBand =>
                 rec.attribute \in Stored /\ StatusOf(rec, "assign", role) = "SUCCESS"
           /\ rec.attribute \in OutOfBand => StatusOf(rec, "assign", role) # "SUCCESS"
<1>1. rec.form = "good"
  BY DEF StatusOf
<1>2. rec.attribute \in Stored \cup OutOfBand \cup ReadOnly /\ rec.attribute \notin ReadOnly
  BY <1>1 DEF StatusOf, Stored, OutOfBand, ReadOnly
<1>3. CASE rec.attribute \in OutOfBand
  <2>1. rec.attribute \notin Stored
    BY <1>3 DEF OutOfBand, Stored
  <2> QED BY <1>1, <1>2, <1>3, <2>1 DEF StatusOf
<1>4. CASE rec.attribute \notin OutOfBand
  BY <1>1, <1>2, <1>4 DEF StatusOf
<1> QED BY <1>3, <1>4

\* When no record is refused, the last record of an attribute that has a place is what the
\* set holds.
LEMMA AllWritten ==
    ASSUME WellFormed, NEW records \in Requests, NEW sas \in SasType, NEW role,
           \A i \in 1 .. Len(records) : StatusOf(records[i], "none", role) = "SUCCESS"
    PROVE  \A i \in 1 .. Len(records) :
              \/ records[i].attribute \in OutOfBand
              \/ \E j \in i + 1 .. Len(records) : records[j].attribute = records[i].attribute
              \/ Pass(records, "assign", sas, role).sas[records[i].attribute] = records[i].value
<1> DEFINE after == Passed(records, "assign", sas, role)
           N == Len(records)
           attr(i) == records[i].attribute
           LastHeld(n) == \A i \in 1 .. n :
                             \/ attr(i) \in OutOfBand
                             \/ \E j \in i + 1 .. n : attr(j) = attr(i)
                             \/ after[n].sas[attr(i)] = records[i].value
           S == {n \in 0 .. N : ~after[n].cut /\ after[n].sas \in SasType /\ LastHeld(n)}
<1>1. /\ N \in Nat /\ 0 \in 0 .. N /\ N \in 0 .. N /\ \A n \in 1 .. N : n \in 0 .. N
      /\ \A i \in 1 .. N : records[i].form \in {"good", "typed", "short"}
  BY DEF WellFormed, StatusRecords
<1>2. /\ after[0] = [sas |-> sas, failed |-> FALSE, cut |-> FALSE]
      /\ \A n \in 1 .. N : after[n] = PassStep(role, "assign", records[n], after[n - 1])
  <2>1. Len(records) \in Nat
    BY <1>1
  <2>2. PassOver(records, "assign", sas, role, Passed(records, "assign", sas, role))
    BY <2>1, PassedOver
  <2> HIDE DEF after
  <2>3. PassOver(records, "assign", sas, role, after)
    BY <2>2 DEF after
  <2> QED BY <2>3 DEF PassOver
<1> HIDE DEF after
<1>3. 0 \in S
  BY <1>1, <1>2
<1>4. ASSUME NEW n \in 1 .. N, n - 1 \in S PROVE n \in S
  <2> DEFINE b == after[n - 1]
             status == StatusOf(records[n], "assign", role)
  <2>1. ~b.cut /\ b.sas \in SasType
    BY <1>4
  <2>10. LastHeld(n - 1)
    BY <1>4
  <2>2. after[n] = IF b.cut THEN b
                   ELSE [sas |-> IF status = "SUCCESS"
                                 THEN [b.sas EXCEPT ![attr(n)] = records[n].value] ELSE b.sas,
                         failed |-> b.failed \/ status # "SUCCESS",
                         cut |-> status = "MALFORMED_COMMAND"]
    BY <1>2 DEF PassStep
  <2>3. /\ status # "MALFORMED_COMMAND"
        /\ attr(n) \notin OutOfBand => attr(n) \in Stored /\ status = "SUCCESS"
        /\ attr(n) \in OutOfBand => status # "SUCCESS"
    BY <1>1, CheckedIsWritten
  <2>4. status = "SUCCESS" => [b.sas EXCEPT ![attr(n)] = records[n].value] \in SasType
    BY <2>1, WrittenFits
  <2> DEFINE next == [b.sas EXCEPT ![attr(n)] = records[n].value]
  <2>5. ASSUME NEW i \in 1 .. N, attr(i) \notin OutOfBand PROVE attr(i) \in Stored
    <3>1. StatusOf(records[i], "none", role) = "SUCCESS" /\ records[i].form \in {"good", "typed", "short"}
      BY <1>1
    <3> QED BY <2>5, <3>1, CheckedIsWritten
  <2>11. attr(n) \notin OutOfBand =>
            /\ next[attr(n)] = records[n].value
            /\ \A a \in Stored : a # attr(n) => next[a] = b.sas[a]
    <3> HIDE DEF b
    <3>1. SUFFICES ASSUME attr(n) \notin OutOfBand
                   PROVE  /\ next[attr(n)] = records[n].value
                          /\ \A a \in Stored : a # attr(n) => next[a] = b.sas[a]
      OBVIOUS
    <3>2. attr(n) \in Stored
      BY <2>3, <3>1
    <3>3. ASSUME NEW value
          PROVE  /\ [b.sas EXCEPT ![attr(n)] = value][attr(n)] = value
                 /\ \A a \in Stored : a # attr(n) => [b.sas EXCEPT ![attr(n)] = value][a] = b.sas[a]
      <4> DEFINE c == attr(n)  t == b.sas
      <4>1. c \in Stored /\ t \in SasType
        BY <2>1, <3>2
      <4> HIDE DEF c, t
      <4>2. DOMAIN t = Stored
        BY <4>1 DEF SasType, Stored
      <4>3. /\ [t EXCEPT ![c] = value][c] = value
            /\ \A a \in Stored : a # c => [t EXCEPT ![c] = value][a] = t[a]
        BY <4>1, <4>2
      <4> QED BY <4>3 DEF c, t
    <3> QED BY <3>3
  <2> HIDE DEF status, b, next
  <2>12. /\ after[n].sas = IF status = "SUCCESS" THEN next ELSE b.sas
         /\ ~after[n].cut
    <3> DEFINE sum == [sas |-> IF status = "SUCCESS" THEN next ELSE b.sas,
                       failed |-> b.failed \/ status # "SUCCESS",
                       cut |-> status = "MALFORMED_COMMAND"]
    <3>1. after[n] = IF b.cut THEN b ELSE sum
      BY <2>2 DEF next
    <3>2. /\ sum.sas = IF status = "SUCCESS" THEN next ELSE b.sas
          /\ sum.cut = (status = "MALFORMED_COMMAND")
      OBVIOUS
    <3> HIDE DEF sum
    <3> QED BY <2>1, <2>3, <3>1, <3>2
  <2>6. ~after[n].cut /\ after[n].sas \in SasType
    BY <2>1, <2>4, <2>12 DEF next
  <2>7. after[n].sas = IF attr(n) \in OutOfBand THEN b.sas ELSE next
    BY <2>3, <2>12
  <2>8. ASSUME NEW i \in 1 .. n
        PROVE  \/ attr(i) \in OutOfBand
               \/ \E j \in i + 1 .. n : attr(j) = attr(i)
               \/ after[n].sas[attr(i)] = records[i].value
    <3>1. CASE i = n
      BY <2>7, <2>11, <3>1
    <3>2. CASE i # n
      <4>1. i \in 1 .. n - 1 /\ i \in 1 .. N
        BY <3>2
      <4>2. \/ attr(i) \in OutOfBand
            \/ \E j \in i + 1 .. n - 1 : attr(j) = attr(i)
            \/ b.sas[attr(i)] = records[i].value
        BY <2>10, <4>1 DEF b
      <4>3. CASE attr(i) \in OutOfBand \/ \E j \in i + 1 .. n - 1 : attr(j) = attr(i)
        <5>1. \A j \in i + 1 .. n - 1 : j \in i + 1 .. n
          BY <4>1
        <5> QED BY <4>3, <5>1
      <4>4. CASE attr(i) \notin OutOfBand /\ b.sas[attr(i)] = records[i].value
        <5>1. CASE attr(n) = attr(i)
          <6>1. n \in i + 1 .. n
            BY <4>1
          <6> QED BY <5>1, <6>1
        <5>2. CASE attr(n) # attr(i)
          <6>1. attr(i) \in Stored
            BY <2>5, <4>1, <4>4
          <6>2. attr(n) \notin OutOfBand => next[attr(i)] = b.sas[attr(i)]
            BY <2>11, <5>2, <6>1
          <6> QED BY <2>7, <4>4, <6>2
        <5> QED BY <5>1, <5>2
      <4> QED BY <4>2, <4>3, <4>4
    <3> QED BY <3>1, <3>2
  <2>9. LastHeld(n)
    BY <2>8
  <2> QED BY <1>1, <2>6, <2>9
<1>5. S \in SUBSET (0 .. N)
  OBVIOUS
<1>6. N \in S
  <2>1. \A n \in 1 .. N : n - 1 \in S => n \in S
    BY <1>4
  <2> HIDE DEF S, N
  <2>2. \A n \in 0 .. N : n \in S
    BY <1>1, <1>3, <1>5, <2>1, OneMore
  <2> QED BY <1>1, <2>2
<1>7. LastHeld(N)
  BY <1>6
<1> QED BY <1>7 DEF Pass, after

LEMMA UndividedIs == ASSUME WellFormed, comm.sas \in SasType PROVE Undivided
<1> SUFFICES ASSUME NEW records \in Requests,
                    Write(TRUE, records, comm.sas, comm.role).sas # comm.sas,
                    NEW i \in DOMAIN records
             PROVE  /\ StatusOf(records[i], "none", comm.role) = "SUCCESS"
                    /\ \/ records[i].attribute \in OutOfBand
                       \/ \E j \in i + 1 .. Len(records) : records[j].attribute = records[i].attribute
                       \/ Write(TRUE, records, comm.sas, comm.role).sas[records[i].attribute]
                             = records[i].value
  BY DEF Undivided
<1>1. Len(records) \in Nat /\ DOMAIN records = 1 .. Len(records)
  BY DEF WellFormed, StatusRecords
<1> DEFINE check == Pass(records, "none", comm.sas, comm.role)
           done == Pass(records, "assign", comm.sas, comm.role)
<1>2. check.sas = comm.sas
  BY <1>1, CheckKeepsSas
<1>3. Write(TRUE, records, comm.sas, comm.role) = IF check.failed THEN check ELSE done
  BY DEF Write
<1>4. ~check.failed /\ Write(TRUE, records, comm.sas, comm.role) = done
  <2> HIDE DEF check, done
  <2> QED BY <1>2, <1>3
<1>5. \A k \in 1 .. Len(records) : StatusOf(records[k], "none", comm.role) = "SUCCESS"
  BY <1>1, <1>4, CheckedAll
<1>6. \/ records[i].attribute \in OutOfBand
      \/ \E j \in i + 1 .. Len(records) : records[j].attribute = records[i].attribute
      \/ done.sas[records[i].attribute] = records[i].value
  BY <1>1, <1>5, AllWritten
<1> HIDE DEF check, done
<1> QED BY <1>1, <1>4, <1>5, <1>6

-----------------------------------------------------------------------------
(* The inductive invariant, of a copy of the variables that a tick works on *)

CommType ==
    [state : {"INIT", "LOADING", "STARTUP", "UNJOINED", "REFRESH", "JOINED"},
     role : {Role} \cup {"none"}, delayed : BOOLEAN, factory : BOOLEAN, install : BOOLEAN,
     save : BOOLEAN, wait : Nat, sas : SasType]
RadioType ==
    [config : ConfigType, saved : ConfigType, on : Epid \cup {"none"}, proved : BOOLEAN]
WpanType == [joined : BOOLEAN, known : BOOLEAN]
SeenType ==
    [unanswered : BOOLEAN, refused : BOOLEAN, moved : BOOLEAN, staged : BOOLEAN, early : BOOLEAN]
Frame ==
    [kind : {"joined", "left", "answer"},
     value : StartupControl \cup Epid \cup {Zeros, Unset}]
Copy ==
    [comm : CommType, query : 0 .. Len(Regs), wpan : WpanType, radio : RadioType,
     up : Seq(Frame), fails : 0 .. MaxFail, seen : SeenType]

Coming(x, kind) == \E i \in DOMAIN x.up : x.up[i].kind = kind

\* What a register is answered with.
Fits(reg, value) ==
    /\ reg = "DL" => value \in StartupControl
    /\ reg = "OP" => value \in Epid \cup {Zeros}

\* A query is under way only in the states that wait for one, and has one answer.
InStep(x) ==
    /\ x.comm.state \notin {"LOADING", "REFRESH"} => x.query = 0
    /\ x.comm.state = "REFRESH" => x.query = 0 \/ x.query >= OPindex
    /\ x.query = 0 => ~Coming(x, "answer")
    /\ \A i, j \in DOMAIN x.up : x.up[i].kind = "answer" /\ x.up[j].kind = "answer" => i = j
    /\ \A i \in DOMAIN x.up : x.up[i].kind = "answer" => Fits(Regs[x.query], x.up[i].value)

\* A state that waits for a query has one.
Waits(x) == x.comm.state \in {"LOADING", "REFRESH"} => x.query # 0 \/ x.seen.unanswered

\* A module on no network has told, or is about to.
Told(x) ==
    x.radio.on = "none" =>
       /\ x.wpan.joined => Coming(x, "left")
       /\ \A i \in DOMAIN x.up : x.up[i].kind = "joined" =>
             \E j \in DOMAIN x.up : i < j /\ x.up[j].kind = "left"

\* While the module stays on the network it was asked about, that network is in the
\* answer, and from there in the set.
ReadRight(x) ==
    x.comm.state \in {"REFRESH", "JOINED"} /\ ~x.seen.moved /\ ~Coming(x, "left") =>
       /\ x.radio.on # "none"
       /\ \A i \in DOMAIN x.up :
             x.up[i].kind = "answer" /\ Regs[x.query] = "OP" => x.up[i].value = x.radio.on
       /\ x.comm.state = "JOINED" \/ x.query > OPindex =>
             x.seen.staged \/ x.comm.sas.extended_panid = x.radio.on

Good(x) == InStep(x) /\ Waits(x) /\ Told(x) /\ ReadRight(x)

\* The device does not take the module for joined while no network has proved the
\* configuration.
NotEarly(x) ==
    ~x.radio.proved /\ ~x.seen.early => ~x.wpan.joined /\ ~Coming(x, "joined")

Configured ==
    /\ Now \in Copy
    /\ tools \in 0 .. MaxTool /\ roams \in 0 .. MaxRoam
    /\ Good(Now) /\ NotEarly(Now)

-----------------------------------------------------------------------------
(* Steps of the copy *)

LEMMA OPindexIs ==
    ASSUME WellFormed PROVE OPindex \in 1 .. Len(Regs) /\ Regs[OPindex] = "OP"
BY DEF WellFormed, OPindex

LEMMA MaxFailIs == ASSUME WellFormed PROVE MaxFail \in Nat /\ Len(Regs) \in Nat
BY DEF WellFormed

\* A step that leaves queries, frames and the module's network alone.
Beside(x, y) ==
    /\ y.comm.state = x.comm.state /\ y.query = x.query /\ y.up = x.up
    /\ y.radio.on = x.radio.on /\ (y.wpan.joined => x.wpan.joined)
    /\ y.seen.moved = x.seen.moved /\ y.seen.unanswered = x.seen.unanswered
    /\ x.seen.staged => y.seen.staged
    /\ y.comm.sas.extended_panid = x.comm.sas.extended_panid \/ y.seen.staged

LEMMA BesideKeeps == ASSUME NEW x, NEW y, Good(x), Beside(x, y) PROVE Good(y)
<1>1. InStep(y)
  BY DEF Good, Beside, InStep, Coming
<1>2. Waits(y)
  BY DEF Good, Beside, Waits
<1>3. Told(y)
  BY DEF Good, Beside, Told, Coming
<1>4. ReadRight(y)
  BY DEF Good, Beside, ReadRight, Coming
<1> QED BY <1>1, <1>2, <1>3, <1>4 DEF Good

LEMMA RefusedIs ==
    ASSUME WellFormed, NEW x \in Copy, NEW y \in Refused(x)
    PROVE  /\ y \in Copy
           /\ y.comm = x.comm /\ y.query = x.query /\ y.wpan = x.wpan /\ y.radio = x.radio
           /\ y.up = x.up /\ y.seen = [x.seen EXCEPT !.refused = TRUE]
<1>1. x.fails < MaxFail /\ y = [x EXCEPT !.fails = @ + 1, !.seen.refused = TRUE]
  BY DEF Refused
<1>2. x.fails + 1 \in 0 .. MaxFail
  BY <1>1, MaxFailIs DEF Copy
<1>3. [x.seen EXCEPT !.refused = TRUE] \in SeenType
  BY DEF Copy, SeenType
<1> QED BY <1>1, <1>2, <1>3 DEF Copy

LEMMA RefusedKeeps ==
    ASSUME WellFormed, NEW x \in Copy, Good(x), NEW y \in Refused(x)
    PROVE  /\ y \in Copy /\ Good(y)
           /\ NotEarly(x) => NotEarly(y)
<1>1. /\ y \in Copy
      /\ y.comm = x.comm /\ y.query = x.query /\ y.wpan = x.wpan /\ y.radio = x.radio
      /\ y.up = x.up /\ y.seen = [x.seen EXCEPT !.refused = TRUE]
  BY RefusedIs
<1>2. /\ y.seen.moved = x.seen.moved /\ y.seen.unanswered = x.seen.unanswered
      /\ y.seen.staged = x.seen.staged /\ y.seen.early = x.seen.early
  BY <1>1 DEF Copy, SeenType
<1>3. Good(y)
  <2>1. Beside(x, y)
    BY <1>1, <1>2 DEF Beside
  <2> QED BY <2>1, BesideKeeps
<1> QED BY <1>1, <1>2, <1>3 DEF NotEarly, Coming

\* The module leaves.
LEMMA LeftIs ==
    ASSUME WellFormed, NEW x \in Copy, Good(x), x.radio.on # "none", NEW y,
           y.up = Append(x.up, [kind |-> "left", value |-> Unset]),
           y.radio = [x.radio EXCEPT !.on = "none"],
           y.comm = x.comm, y.query = x.query, y.wpan = x.wpan, y.seen = x.seen
    PROVE  Good(y) /\ y.radio \in RadioType /\ y.up \in Seq(Frame) /\ (NotEarly(x) => NotEarly(y))
<1> DEFINE n == Len(x.up)  final == [kind |-> "left", value |-> Unset]
<1>1. x.up \in Seq(Frame) /\ final \in Frame /\ n \in Nat
  BY DEF Copy, Frame
<1>2. /\ y.up \in Seq(Frame) /\ DOMAIN y.up = 1 .. (n + 1) /\ DOMAIN x.up = 1 .. n
      /\ y.up[n + 1] = final /\ \A i \in 1 .. n : y.up[i] = x.up[i]
  BY <1>1
<1>3. final.kind = "left"
  OBVIOUS
<1>4. /\ y.radio \in RadioType /\ y.radio.on = "none" /\ y.radio.proved = x.radio.proved
  BY DEF Copy, RadioType
<1> HIDE DEF final, n
<1>5. \A i \in DOMAIN y.up : y.up[i].kind # "left" => i \in DOMAIN x.up /\ y.up[i] = x.up[i]
  <2>1. \A i \in 1 .. (n + 1) : i = n + 1 \/ i \in 1 .. n
    BY <1>1
  <2> QED BY <2>1, <1>2, <1>3
<1>6. Coming(y, "left")
  <2>1. n + 1 \in DOMAIN y.up
    BY <1>1, <1>2
  <2> QED BY <2>1, <1>2, <1>3 DEF Coming
<1>7. InStep(y)
  <2>1. Coming(y, "answer") => Coming(x, "answer")
    BY <1>5 DEF Coming
  <2> QED BY <2>1, <1>5 DEF Good, InStep
<1>8. Waits(y)
  BY DEF Good, Waits
<1>9. Told(y)
  <2>1. \A i \in DOMAIN y.up : y.up[i].kind = "joined" => i < n + 1
    BY <1>1, <1>2, <1>5
  <2> QED BY <2>1, <1>1, <1>2, <1>3, <1>6 DEF Told
<1>10. ReadRight(y)
  BY <1>6 DEF ReadRight
<1>11. NotEarly(x) => NotEarly(y)
  <2>1. Coming(y, "joined") => Coming(x, "joined")
    BY <1>5 DEF Coming
  <2> QED BY <2>1, <1>4 DEF NotEarly
<1> QED BY <1>2, <1>4, <1>7, <1>8, <1>9, <1>10, <1>11 DEF Good

\* ATNR: what it does not change, besides.
LEMMA NetworkResetKeeps ==
    ASSUME WellFormed, NEW x \in Copy, Good(x), NEW y \in NetworkReset(x)
    PROVE  /\ y \in Copy /\ Good(y)
           /\ NotEarly(x) => NotEarly(y)
           /\ y.comm = x.comm /\ y.query = x.query /\ y.wpan = x.wpan
           /\ y.radio.saved = x.radio.saved /\ y.radio.proved = x.radio.proved
           /\ y.seen.early = x.seen.early
           /\ Coming(y, "joined") => Coming(x, "joined")
<1>1. CASE y \in Refused(x)
  <2>1. y \in Copy /\ Good(y) /\ (NotEarly(x) => NotEarly(y))
    BY <1>1, RefusedKeeps
  <2>2. /\ y.comm = x.comm /\ y.query = x.query /\ y.wpan = x.wpan /\ y.radio = x.radio
        /\ y.up = x.up /\ y.seen = [x.seen EXCEPT !.refused = TRUE]
    BY <1>1, RefusedIs
  <2>3. y.seen.early = x.seen.early
    BY <2>2 DEF Copy, SeenType
  <2> QED BY <2>1, <2>2, <2>3 DEF Coming
<1>2. CASE y = Left(x)
  <2>1. CASE x.radio.on = "none"
    BY <1>2, <2>1 DEF Left
  <2>2. CASE x.radio.on # "none"
    <3> DEFINE final == [kind |-> "left", value |-> Unset]
    <3>1. y = [x EXCEPT !.radio = [x.radio EXCEPT !.on = "none"], !.up = Append(x.up, final)]
      BY <1>2, <2>2 DEF Left
    <3>2. /\ y.comm = x.comm /\ y.query = x.query /\ y.wpan = x.wpan /\ y.seen = x.seen
          /\ y.radio = [x.radio EXCEPT !.on = "none"] /\ y.up = Append(x.up, final)
      BY <3>1 DEF Copy
    <3>3. Good(y) /\ y.radio \in RadioType /\ y.up \in Seq(Frame) /\ (NotEarly(x) => NotEarly(y))
      BY <2>2, <3>2, LeftIs
    <3>4. y \in Copy
      <4> HIDE DEF final
      <4> QED BY <3>1, <3>2, <3>3 DEF Copy
    <3>5. y.radio.saved = x.radio.saved /\ y.radio.proved = x.radio.proved
      BY <3>2 DEF Copy, RadioType
    <3>6. Coming(y, "joined") => Coming(x, "joined")
      <4>1. x.up \in Seq(Frame) /\ final \in Frame /\ final.kind = "left"
        BY DEF Copy, Frame
      <4>2. /\ DOMAIN y.up = 1 .. (Len(x.up) + 1) /\ DOMAIN x.up = 1 .. Len(x.up) /\ Len(x.up) \in Nat
            /\ y.up[Len(x.up) + 1] = final /\ \A i \in 1 .. Len(x.up) : y.up[i] = x.up[i]
        BY <3>2, <4>1
      <4> HIDE DEF final
      <4> QED BY <4>1, <4>2 DEF Coming
    <3> QED BY <3>2, <3>3, <3>4, <3>5, <3>6
  <2> QED BY <2>1, <2>2
<1> QED BY <1>1, <1>2 DEF NetworkReset

LEMMA WriteSettingsKeeps ==
    ASSUME WellFormed, NEW x \in Copy, Good(x), NotEarly(x), NEW y \in WriteSettings(x)
    PROVE  y \in Copy /\ Good(y) /\ NotEarly(y) /\ y.comm = x.comm /\ y.wpan = x.wpan
           /\ y.query = x.query
<1>1. CASE y \in Refused(x)
  BY <1>1, RefusedKeeps, RefusedIs
<1>2. CASE y = [x EXCEPT !.radio.saved = x.radio.config]
  <2>1. /\ y.comm = x.comm /\ y.query = x.query /\ y.wpan = x.wpan /\ y.seen = x.seen /\ y.up = x.up
        /\ y.radio = [x.radio EXCEPT !.saved = x.radio.config]
    BY <1>2 DEF Copy
  <2>2. y.radio \in RadioType /\ y.radio.on = x.radio.on /\ y.radio.proved = x.radio.proved
    BY <2>1 DEF Copy, RadioType
  <2>3. y \in Copy
    BY <1>2, <2>1, <2>2 DEF Copy
  <2>4. Beside(x, y)
    BY <2>1, <2>2 DEF Beside
  <2>5. Good(y)
    BY <2>4, BesideKeeps
  <2> QED BY <2>1, <2>2, <2>3, <2>5 DEF NotEarly, Coming
<1> QED BY <1>1, <1>2 DEF WriteSettings

\* A register is asked for, of a module that has no query under way.
AskedFrame(x, i) == [kind |-> "answer", value |-> ValueOf(Regs[i], x.radio)]

LEMMA AnswerFits ==
    ASSUME WellFormed, NEW x \in Copy, NEW i \in 1 .. Len(Regs)
    PROVE  /\ AskedFrame(x, i) \in Frame /\ AskedFrame(x, i).kind = "answer"
           /\ Fits(Regs[i], AskedFrame(x, i).value)
           /\ Regs[i] = "OP" /\ x.radio.on # "none" => AskedFrame(x, i).value = x.radio.on
<1>1. /\ x.radio.config.startup_control \in StartupControl
      /\ x.radio.on \in Epid \cup {"none"}
  BY DEF Copy, RadioType, ConfigType
<1> DEFINE v == ValueOf(Regs[i], x.radio)
<1>2. /\ v \in StartupControl \cup Epid \cup {Zeros, Unset}
      /\ Fits(Regs[i], v)
      /\ Regs[i] = "OP" /\ x.radio.on # "none" => v = x.radio.on
  <2>1. CASE Regs[i] = "DL"
    BY <2>1, <1>1 DEF ValueOf, Fits
  <2>2. CASE Regs[i] = "OP"
    BY <2>2, <1>1 DEF ValueOf, Fits
  <2>3. CASE Regs[i] # "DL" /\ Regs[i] # "OP"
    BY <2>3 DEF ValueOf, Fits
  <2> QED BY <2>1, <2>2, <2>3
<1>3. AskedFrame(x, i).kind = "answer" /\ AskedFrame(x, i).value = v
  BY DEF AskedFrame
<1> HIDE DEF v
<1>4. AskedFrame(x, i) \in Frame
  <2>1. AskedFrame(x, i) = [kind |-> "answer", value |-> v]
    BY DEF AskedFrame, v
  <2> QED BY <2>1, <1>2 DEF Frame
<1> QED BY <1>2, <1>3, <1>4

LEMMA QueriedIs ==
    ASSUME WellFormed, NEW x \in Copy, NEW i \in 1 .. Len(Regs), NEW y \in Queried(x, i)
    PROVE  /\ y \in Copy
           /\ y.comm = x.comm /\ y.query = i /\ y.wpan = x.wpan /\ y.radio = x.radio
           /\ y.seen = x.seen
           /\ y.up = x.up \/ y.up = Append(x.up, AskedFrame(x, i))
<1>1. AskedFrame(x, i) \in Frame
  BY AnswerFits
<1>2. CASE y = [x EXCEPT !.query = i, !.up = Append(@, AskedFrame(x, i))]
  <2> DEFINE a == AskedFrame(x, i)
  <2>1. Append(x.up, a) \in Seq(Frame)
    BY <1>1 DEF Copy
  <2> HIDE DEF a
  <2>2. y = [x EXCEPT !.query = i, !.up = Append(x.up, a)]
    BY <1>2 DEF a
  <2>3. i \in 0 .. Len(Regs)
    BY MaxFailIs
  <2>4. y \in Copy /\ y.up = Append(x.up, a)
    BY <2>1, <2>2, <2>3 DEF Copy
  <2> QED BY <2>2, <2>4 DEF Copy, a
<1>3. CASE x.fails < MaxFail /\ y = [x EXCEPT !.query = i, !.fails = @ + 1]
  <2>1. x.fails + 1 \in 0 .. MaxFail /\ i \in 0 .. Len(Regs)
    BY <1>3, MaxFailIs DEF Copy
  <2> QED BY <1>3, <2>1 DEF Copy
<1> QED BY <1>2, <1>3 DEF Queried, AskedFrame

\* What the frames are after it.
LEMMA QueriedUp ==
    ASSUME WellFormed, NEW x \in Copy, NEW i \in 1 .. Len(Regs), NEW y \in Queried(x, i),
           ~Coming(x, "answer")
    PROVE  /\ \A k \in DOMAIN x.up : k \in DOMAIN y.up /\ y.up[k] = x.up[k]
           /\ \A k \in DOMAIN y.up :
                 \/ k \in DOMAIN x.up /\ y.up[k] = x.up[k] /\ y.up[k].kind # "answer"
                 \/ y.up[k] = AskedFrame(x, i) /\ k = Len(x.up) + 1
           /\ DOMAIN y.up \subseteq Nat
<1> DEFINE a == AskedFrame(x, i)  n == Len(x.up)
<1>1. x.up \in Seq(Frame) /\ a \in Frame /\ n \in Nat /\ DOMAIN x.up = 1 .. n
  BY AnswerFits DEF Copy
<1>2. \A k \in DOMAIN x.up : x.up[k].kind # "answer"
  BY DEF Coming
<1>3. CASE y.up = x.up
  BY <1>1, <1>2, <1>3
<1>4. CASE y.up = Append(x.up, a)
  <2> HIDE DEF a, n
  <2>1. /\ DOMAIN y.up = 1 .. (n + 1) /\ y.up[n + 1] = a
        /\ \A k \in 1 .. n : y.up[k] = x.up[k]
    BY <1>1, <1>4 DEF n
  <2>2. \A k \in 1 .. (n + 1) : k = n + 1 \/ k \in 1 .. n
    BY <1>1
  <2>3. \A k \in 1 .. n : k \in 1 .. (n + 1)
    BY <1>1
  <2>4. 1 .. (n + 1) \subseteq Nat
    BY <1>1
  <2> QED BY <1>1, <1>2, <2>1, <2>2, <2>3, <2>4 DEF a, n
<1> QED BY <1>3, <1>4, QueriedIs

\* The invariant after a query, in a state that waits for one; `staged' and the set
\* are right for a later register than OP.
LEMMA QueriedKeeps ==
    ASSUME WellFormed, NEW x \in Copy, NEW i \in 1 .. Len(Regs), NEW y \in Queried(x, i),
           ~Coming(x, "answer"), Told(x), NEW z \in Copy,
           z.query = y.query, z.wpan = y.wpan, z.radio = y.radio, z.up = y.up,
           z.comm.state \in {"LOADING", "REFRESH"},
           z.comm.state = "REFRESH" => i >= OPindex,
           z.comm.state = "REFRESH" /\ ~z.seen.moved /\ ~Coming(x, "left") =>
              /\ x.radio.on # "none"
              /\ i > OPindex => z.seen.staged \/ z.comm.sas.extended_panid = x.radio.on
    PROVE  Good(z)
<1>1. /\ y.query = i /\ y.wpan = x.wpan /\ y.radio = x.radio
  BY QueriedIs
<1> DEFINE a == AskedFrame(x, i)  n == Len(x.up)
<1>2. /\ \A k \in DOMAIN x.up : k \in DOMAIN z.up /\ z.up[k] = x.up[k]
      /\ \A k \in DOMAIN z.up :
            \/ k \in DOMAIN x.up /\ z.up[k] = x.up[k] /\ z.up[k].kind # "answer"
            \/ z.up[k] = a /\ k = n + 1
      /\ DOMAIN z.up \subseteq Nat
  BY QueriedUp
<1>3. /\ a.kind = "answer" /\ Fits(Regs[i], a.value)
      /\ Regs[i] = "OP" /\ x.radio.on # "none" => a.value = x.radio.on
  BY AnswerFits
<1> HIDE DEF a, n
<1>4. Coming(z, "left") <=> Coming(x, "left")
  BY <1>2, <1>3 DEF Coming
<1>5. InStep(z)
  <2>1. z.query = i /\ i # 0
    BY <1>1
  <2>2. \A k, l \in DOMAIN z.up : z.up[k].kind = "answer" /\ z.up[l].kind = "answer" => k = l
    BY <1>2
  <2>3. \A k \in DOMAIN z.up : z.up[k].kind = "answer" => Fits(Regs[z.query], z.up[k].value)
    BY <1>2, <1>3, <2>1
  <2> QED BY <2>1, <2>2, <2>3 DEF InStep
<1>6. Waits(z)
  BY <1>1 DEF Waits
<1>7. Told(z)
  <2>1. \A k \in DOMAIN z.up : z.up[k].kind = "joined" => k \in DOMAIN x.up /\ x.up[k].kind = "joined"
    BY <1>2, <1>3
  <2> QED BY <1>1, <1>2, <1>4, <2>1 DEF Told
<1>8. ReadRight(z)
  <2>1. \A k \in DOMAIN z.up : z.up[k].kind = "answer" => z.up[k] = a
    BY <1>2
  <2> QED BY <1>1, <1>3, <1>4, <2>1 DEF ReadRight
<1> QED BY <1>5, <1>6, <1>7, <1>8 DEF Good

-----------------------------------------------------------------------------
(* The tick *)

LEMMA NowIsCopy ==
    ASSUME Now \in Copy
    PROVE  /\ Now.comm = comm /\ Now.query = query /\ Now.wpan = wpan
           /\ Now.radio = radio /\ Now.up = up /\ Now.fails = fails /\ Now.seen = seen
           /\ comm \in CommType /\ query \in 0 .. Len(Regs) /\ wpan \in WpanType
           /\ radio \in RadioType /\ up \in Seq(Frame) /\ fails \in 0 .. MaxFail
           /\ seen \in SeenType
BY DEF Now, Copy

LEMMA BecomesIs ==
    ASSUME NEW y \in Copy, Becomes(y) PROVE Now' = y
BY DEF Becomes, Now, Copy

LEMMA ResetKeeps ==
    ASSUME WellFormed, NEW x \in Copy, Good(x)
    PROVE  /\ Reset(x) \in Copy /\ Good(Reset(x)) /\ (NotEarly(x) => NotEarly(Reset(x)))
           /\ Reset(x).radio = x.radio /\ Reset(x).wpan = x.wpan
           /\ Reset(x).seen.early = x.seen.early
<1> DEFINE y == Reset(x)
<1>1. CASE ~x.comm.factory
  BY <1>1 DEF Reset
<1>2. CASE x.comm.factory
  <2>1. y = [x EXCEPT !.comm.sas = Default, !.seen.staged = TRUE]
    BY <1>2 DEF Reset
  <2> HIDE DEF y
  <2>2. Default \in SasType
    BY DEF WellFormed
  <2>3. /\ y.comm = [x.comm EXCEPT !.sas = Default] /\ y.seen = [x.seen EXCEPT !.staged = TRUE]
        /\ y.query = x.query /\ y.wpan = x.wpan /\ y.radio = x.radio /\ y.up = x.up
        /\ y.fails = x.fails
    BY <2>1 DEF Copy
  <2>4. /\ y.comm \in CommType /\ y.comm.state = x.comm.state
        /\ y.seen \in SeenType /\ y.seen.staged /\ y.seen.moved = x.seen.moved
        /\ y.seen.unanswered = x.seen.unanswered /\ y.seen.early = x.seen.early
    BY <2>2, <2>3 DEF Copy, CommType, SeenType
  <2>5. y \in Copy
    BY <2>1, <2>3, <2>4 DEF Copy
  <2>6. Beside(x, y)
    BY <2>3, <2>4 DEF Beside
  <2>7. Good(y)
    BY <2>6, BesideKeeps
  <2> QED BY <2>3, <2>4, <2>5, <2>7 DEF NotEarly, Coming, y
<1> QED BY <1>1, <1>2

LEMMA InstallKeeps ==
    ASSUME WellFormed, NEW x \in Copy, Good(x), NEW y \in Install(x)
    PROVE  y \in Copy /\ Good(y) /\ y.wpan = x.wpan /\ y.up = x.up
           /\ y.radio.saved = x.radio.saved
<1>1. PICK config \in [startup_control : Sent(x, "startup_control"),
                        extended_panid : Sent(x, "extended_panid")] :
        y = [x EXCEPT !.radio.config = config,
                      !.radio.proved = FALSE,
                      !.comm.sas.network_key = Unset,
                      !.comm.save = TRUE,
                      !.fails = IF \A field \in DOMAIN config : config[field] = x.comm.sas[field]
                                THEN @ ELSE @ + 1]
  BY DEF Install
<1>2. x.comm \in CommType /\ x.radio \in RadioType /\ x.fails \in 0 .. MaxFail
  BY DEF Copy
<1>3. x.comm.sas \in SasType /\ x.radio.config \in ConfigType
  BY <1>2 DEF CommType, RadioType
<1> DEFINE sas == [x.comm.sas EXCEPT !.network_key = Unset]
           all == \A field \in DOMAIN config : config[field] = x.comm.sas[field]
           fs == IF all THEN x.fails ELSE x.fails + 1
<1>4. config.startup_control \in StartupControl /\ config.extended_panid \in Epid \cup {AnyPan}
  BY <1>3 DEF SasType, ConfigType, Sent
<1>5. all \/ x.fails < MaxFail
  BY DEF Sent
<1>6. sas \in SasType /\ sas.extended_panid = x.comm.sas.extended_panid
  BY <1>3 DEF SasType
<1>7. config \in ConfigType
  BY <1>4 DEF ConfigType
<1>8. fs \in 0 .. MaxFail
  <2> HIDE DEF all
  <2> QED BY <1>2, <1>5, MaxFailIs
<1>9. /\ y.comm = [[x.comm EXCEPT !.sas = sas] EXCEPT !.save = TRUE]
      /\ y.radio = [[x.radio EXCEPT !.config = config] EXCEPT !.proved = FALSE]
      /\ y.fails = fs
      /\ y.query = x.query /\ y.wpan = x.wpan /\ y.up = x.up /\ y.seen = x.seen
      /\ y = [comm |-> y.comm, query |-> y.query, wpan |-> y.wpan, radio |-> y.radio,
              up |-> y.up, fails |-> y.fails, seen |-> y.seen]
  BY <1>1 DEF Copy
<1> HIDE DEF sas, fs
<1>10. y.comm \in CommType /\ y.comm.state = x.comm.state /\ y.comm.sas = sas
  BY <1>2, <1>6, <1>9 DEF CommType
<1>11. /\ y.radio \in RadioType /\ y.radio.on = x.radio.on /\ y.radio.saved = x.radio.saved
  BY <1>2, <1>7, <1>9 DEF RadioType
<1>12. y \in Copy
  BY <1>8, <1>9, <1>10, <1>11 DEF Copy
<1>13. Beside(x, y)
  BY <1>6, <1>9, <1>10, <1>11 DEF Beside
<1> QED BY <1>9, <1>11, <1>12, <1>13, BesideKeeps

\* A restart: whatever was installed, the device does not take the module for joined.
LEMMA UnjoinedKeeps ==
    ASSUME WellFormed, NEW x \in Copy, Good(x), NEW y \in Unjoined(x)
    PROVE  y \in Copy /\ Good(y) /\ NotEarly(y) /\ ~y.wpan.joined
           /\ y.radio.saved = x.radio.saved
<1>1. PICK z \in NetworkReset(x) :
        y = [z EXCEPT !.wpan.joined = FALSE, !.comm.delayed = FALSE, !.comm.factory = FALSE,
                      !.comm.install = FALSE,
                      !.seen.early = @ \/ \E i \in DOMAIN x.up : x.up[i].kind = "joined"]
  BY DEF Unjoined
<1>2. /\ z \in Copy /\ Good(z) /\ z.radio.saved = x.radio.saved
      /\ Coming(z, "joined") => Coming(x, "joined")
  BY NetworkResetKeeps
<1> DEFINE early == z.seen.early \/ Coming(x, "joined")
<1>3. early \in BOOLEAN
  BY <1>2 DEF Copy, SeenType
<1>4. y = [z EXCEPT !.wpan.joined = FALSE, !.comm.delayed = FALSE, !.comm.factory = FALSE,
                    !.comm.install = FALSE, !.seen.early = early]
  BY <1>1 DEF Coming
<1>5. Coming(x, "joined") => early
  OBVIOUS
<1> HIDE DEF early
<1>6. /\ y.wpan = [z.wpan EXCEPT !.joined = FALSE] /\ y.radio = z.radio /\ y.up = z.up
      /\ y.query = z.query /\ y.fails = z.fails /\ y.seen = [z.seen EXCEPT !.early = early]
      /\ y.comm = [[[z.comm EXCEPT !.delayed = FALSE] EXCEPT !.factory = FALSE]
                      EXCEPT !.install = FALSE]
      /\ y = [comm |-> y.comm, query |-> y.query, wpan |-> y.wpan, radio |-> y.radio,
              up |-> y.up, fails |-> y.fails, seen |-> y.seen]
  BY <1>2, <1>4 DEF Copy
<1>7. /\ y.wpan \in WpanType /\ ~y.wpan.joined
      /\ y.seen \in SeenType /\ y.seen.early = early /\ y.seen.staged = z.seen.staged
      /\ y.seen.moved = z.seen.moved /\ y.seen.unanswered = z.seen.unanswered
  BY <1>2, <1>3, <1>6 DEF Copy, WpanType, SeenType
<1>8. y.comm \in CommType /\ y.comm.state = z.comm.state /\ y.comm.sas = z.comm.sas
  BY <1>2, <1>6 DEF Copy, CommType
<1>9. y \in Copy
  BY <1>2, <1>6, <1>7, <1>8 DEF Copy
<1>10. Beside(z, y)
  BY <1>6, <1>7, <1>8 DEF Beside
<1>11. Good(y)
  BY <1>2, <1>10, BesideKeeps
<1>12. NotEarly(y)
  BY <1>2, <1>5, <1>6, <1>7 DEF NotEarly, Coming
<1> QED BY <1>2, <1>6, <1>7, <1>9, <1>11, <1>12

LEMMA RestartKeeps ==
    ASSUME WellFormed, Now \in Copy, Good(Now), NotEarly(Now), NEW x \in RestartPart
    PROVE  x \in Copy /\ Good(x) /\ NotEarly(x)
           /\ (x.wpan.joined => x = Now) /\ x.radio.saved = radio.saved
<1>1. CASE ~Due
  BY <1>1, NowIsCopy DEF RestartPart
<1>2. CASE Due /\ comm.install
  <2>1. PICK z \in Install(Reset(Now)) : x \in Unjoined(z)
    BY <1>2 DEF RestartPart
  <2>2. Reset(Now) \in Copy /\ Good(Reset(Now)) /\ Reset(Now).radio = radio
    BY ResetKeeps, NowIsCopy
  <2>3. z \in Copy /\ Good(z) /\ z.radio.saved = radio.saved
    BY <2>1, <2>2, InstallKeeps
  <2> QED BY <2>1, <2>3, UnjoinedKeeps
<1>3. CASE Due /\ ~comm.install
  <2>1. x \in Unjoined(Reset(Now))
    BY <1>3 DEF RestartPart
  <2>2. Reset(Now) \in Copy /\ Good(Reset(Now)) /\ Reset(Now).radio = radio
    BY ResetKeeps, NowIsCopy
  <2> QED BY <2>1, <2>2, UnjoinedKeeps
<1> QED BY <1>1, <1>2, <1>3

LEMMA QueriedNotEarly ==
    ASSUME WellFormed, NEW x \in Copy, NEW i \in 1 .. Len(Regs), NEW y \in Queried(x, i),
           ~Coming(x, "answer"), NotEarly(x), NEW z \in Copy,
           z.wpan = y.wpan, z.radio = y.radio, z.up = y.up, z.seen.early = x.seen.early
    PROVE  NotEarly(z)
<1>1. y.wpan = x.wpan /\ y.radio = x.radio
  BY QueriedIs
<1>2. \A k \in DOMAIN y.up : y.up[k].kind = "joined" => k \in DOMAIN x.up /\ x.up[k].kind = "joined"
  BY QueriedUp, AnswerFits
<1> QED BY <1>1, <1>2 DEF NotEarly, Coming

\* A device that is initialised has nothing to wait for yet.
LEMMA InitialiseKeeps ==
    ASSUME WellFormed, NEW x \in Copy, Good(x), NotEarly(x), x.comm.state = "INIT",
           NEW y \in Initialise(x)
    PROVE  y \in Copy /\ Good(y) /\ NotEarly(y) /\ y.radio.saved = x.radio.saved
<1> DEFINE start == [state |-> "INIT", role |-> Role, delayed |-> FALSE, factory |-> FALSE,
                     install |-> FALSE, save |-> FALSE, wait |-> 0, sas |-> Blank]
           c == [x EXCEPT !.comm = start, !.seen.staged = FALSE]
<1>1. start \in CommType
  BY DEF CommType, Blank, SasType, StartupControl
<1>2. start.state = "INIT"
  OBVIOUS
<1>3. y \in {[z EXCEPT !.comm.state = "LOADING"] : z \in Queried(c, 1)} \cup Refused(c)
  BY DEF Initialise
<1> HIDE DEF start
<1>4. /\ c \in Copy /\ c.comm = start /\ c.query = x.query /\ c.wpan = x.wpan
      /\ c.radio = x.radio /\ c.up = x.up /\ c.seen = [x.seen EXCEPT !.staged = FALSE]
  BY <1>1 DEF Copy, SeenType
<1>5. /\ c.seen.early = x.seen.early /\ c.seen.moved = x.seen.moved
      /\ c.seen.unanswered = x.seen.unanswered
  BY <1>4 DEF Copy, SeenType
<1>6. x.query = 0 /\ ~Coming(x, "answer")
  BY DEF Good, InStep
<1> HIDE DEF c
<1>7. Good(c)
  <2>1. InStep(c)
    BY <1>2, <1>4, <1>6 DEF Good, InStep, Coming
  <2>2. Waits(c) /\ ReadRight(c)
    BY <1>2, <1>4 DEF Waits, ReadRight
  <2>3. Told(c)
    BY <1>4 DEF Good, Told, Coming
  <2> QED BY <2>1, <2>2, <2>3 DEF Good
<1>8. NotEarly(c)
  BY <1>4, <1>5 DEF NotEarly, Coming
<1>9. CASE y \in Refused(c)
  BY <1>4, <1>7, <1>8, <1>9, RefusedKeeps, RefusedIs
<1>10. CASE y \in {[z EXCEPT !.comm.state = "LOADING"] : z \in Queried(c, 1)}
  <2>1. PICK z \in Queried(c, 1) : y = [z EXCEPT !.comm.state = "LOADING"]
    BY <1>10
  <2>2. 1 \in 1 .. Len(Regs)
    BY OPindexIs, MaxFailIs
  <2>3. z \in Copy /\ z.comm = start /\ z.radio = x.radio /\ z.seen = c.seen
    BY <1>4, <2>2, QueriedIs
  <2>4. /\ y.comm = [z.comm EXCEPT !.state = "LOADING"] /\ y.query = z.query
        /\ y.wpan = z.wpan /\ y.radio = z.radio /\ y.up = z.up /\ y.seen = z.seen
        /\ y.fails = z.fails
        /\ y = [comm |-> y.comm, query |-> y.query, wpan |-> y.wpan, radio |-> y.radio,
                up |-> y.up, fails |-> y.fails, seen |-> y.seen]
    BY <2>1, <2>3 DEF Copy
  <2>5. y.comm \in CommType /\ y.comm.state = "LOADING"
    BY <1>1, <2>3, <2>4 DEF CommType
  <2>6. y \in Copy
    BY <2>3, <2>4, <2>5 DEF Copy
  <2>7. ~Coming(c, "answer") /\ Told(c)
    BY <1>4, <1>6, <1>7 DEF Coming, Good
  <2>8. Good(y)
    BY <1>4, <2>2, <2>4, <2>5, <2>6, <2>7, QueriedKeeps
  <2>9. NotEarly(y)
    <3>1. /\ c \in Copy /\ z \in Queried(c, 1)
          /\ y.wpan = z.wpan /\ y.radio = z.radio /\ y.up = z.up /\ y.seen.early = c.seen.early
      BY <1>4, <2>1, <2>3, <2>4
    <3> QED BY <1>8, <2>2, <2>6, <2>7, <3>1, QueriedNotEarly
  <2> QED BY <2>3, <2>4, <2>6, <2>8, <2>9
<1> QED BY <1>3, <1>9, <1>10

LEMMA SaveKeeps ==
    ASSUME WellFormed, NEW x \in Copy, Good(x), NotEarly(x), NEW y \in Save(x)
    PROVE  y \in Copy /\ Good(y) /\ NotEarly(y) /\ y.comm.state = x.comm.state /\ y.wpan = x.wpan
<1>1. CASE ~x.comm.save
  BY <1>1 DEF Save
<1>2. CASE x.comm.save
  <2>1. PICK z \in WriteSettings(x) : y = [z EXCEPT !.comm.save = FALSE]
    BY <1>2 DEF Save
  <2>2. z \in Copy /\ Good(z) /\ NotEarly(z) /\ z.comm = x.comm /\ z.wpan = x.wpan
    BY WriteSettingsKeeps
  <2>3. /\ y.comm = [z.comm EXCEPT !.save = FALSE] /\ y.query = z.query
        /\ y.wpan = z.wpan /\ y.radio = z.radio /\ y.up = z.up /\ y.seen = z.seen
        /\ y.fails = z.fails
        /\ y = [comm |-> y.comm, query |-> y.query, wpan |-> y.wpan, radio |-> y.radio,
                up |-> y.up, fails |-> y.fails, seen |-> y.seen]
    BY <2>1, <2>2 DEF Copy
  <2>4. y.comm \in CommType /\ y.comm.state = z.comm.state /\ y.comm.sas = z.comm.sas
    BY <2>2, <2>3 DEF Copy, CommType
  <2>5. y \in Copy
    BY <2>2, <2>3, <2>4 DEF Copy
  <2>6. Beside(z, y)
    BY <2>3, <2>4 DEF Beside
  <2>7. Good(y)
    BY <2>2, <2>6, BesideKeeps
  <2>8. NotEarly(y)
    BY <2>2, <2>3 DEF NotEarly, Coming
  <2> QED BY <2>2, <2>3, <2>4, <2>5, <2>7, <2>8
<1> QED BY <1>1, <1>2

\* The registers are read again from OP on, on the network the module is on then.
LEMMA RefreshKeeps ==
    ASSUME WellFormed, NEW x \in Copy, Good(x), NotEarly(x), x.comm.state = "UNJOINED",
           x.wpan.joined, NEW y \in Refresh(x)
    PROVE  y \in Copy /\ Good(y) /\ NotEarly(y) /\ y.radio.saved = x.radio.saved
<1>1. CASE ~x.wpan.known
  BY <1>1 DEF Refresh
<1>2. CASE x.wpan.known /\ y \in Refused(x)
  BY <1>2, RefusedKeeps, RefusedIs
<1>3. CASE y \in {[z EXCEPT !.comm.state = "REFRESH", !.seen.moved = FALSE] : z \in Queried(x, OPindex)}
  <2>1. PICK z \in Queried(x, OPindex) : y = [z EXCEPT !.comm.state = "REFRESH", !.seen.moved = FALSE]
    BY <1>3
  <2> DEFINE i == OPindex
  <2>2. i \in 1 .. Len(Regs)
    BY OPindexIs
  <2>3. z \in Copy /\ z.comm = x.comm /\ z.radio = x.radio /\ z.seen = x.seen
    BY <2>1, <2>2, QueriedIs
  <2>4. /\ y.comm = [z.comm EXCEPT !.state = "REFRESH"] /\ y.query = z.query
        /\ y.wpan = z.wpan /\ y.radio = z.radio /\ y.up = z.up /\ y.fails = z.fails
        /\ y.seen = [z.seen EXCEPT !.moved = FALSE]
        /\ y = [comm |-> y.comm, query |-> y.query, wpan |-> y.wpan, radio |-> y.radio,
                up |-> y.up, fails |-> y.fails, seen |-> y.seen]
    BY <2>1, <2>3 DEF Copy
  <2>5. y.comm \in CommType /\ y.comm.state = "REFRESH"
    BY <2>3, <2>4 DEF Copy, CommType
  <2>6. y.seen \in SeenType /\ y.seen.early = x.seen.early
    BY <2>3, <2>4 DEF Copy, SeenType
  <2>7. y \in Copy
    BY <2>3, <2>4, <2>5, <2>6 DEF Copy
  <2>8. ~Coming(x, "answer") /\ Told(x)
    BY DEF Good, InStep
  <2>9. ~Coming(x, "left") => x.radio.on # "none"
    BY <2>8 DEF Told
  <2>10. i \in Nat
    BY <2>2
  <2> HIDE DEF i
  <2>11. z \in Queried(x, i)
    BY DEF i
  <2>12. y.comm.state = "REFRESH" => i >= OPindex
    BY <2>10 DEF i
  <2>13. ~(i > OPindex)
    BY <2>10 DEF i
  <2>14. Good(y)
    BY <2>2, <2>4, <2>5, <2>7, <2>8, <2>9, <2>11, <2>12, <2>13, QueriedKeeps
  <2>15. NotEarly(y)
    BY <2>2, <2>4, <2>6, <2>7, <2>8, <2>11, QueriedNotEarly
  <2> QED BY <2>3, <2>4, <2>7, <2>14, <2>15
<1> QED BY <1>1, <1>2, <1>3 DEF Refresh

\* A state that waits for nothing, from another.
LEMMA StateChanges ==
    ASSUME NEW x \in Copy, Good(x), NotEarly(x), x.comm.state \in {"STARTUP", "JOINED"}, NEW y \in Copy,
           y.comm.state = "UNJOINED", y.query = x.query, y.wpan = x.wpan, y.radio = x.radio,
           y.up = x.up, y.seen = x.seen
    PROVE  Good(y) /\ NotEarly(y)
<1>1. InStep(y)
  BY DEF Good, InStep, Coming
<1>2. Waits(y) /\ ReadRight(y)
  BY DEF Waits, ReadRight
<1>3. Told(y)
  BY DEF Good, Told, Coming
<1> QED BY <1>1, <1>2, <1>3 DEF Good, NotEarly, Coming

LEMMA StatePartKeeps ==
    ASSUME WellFormed, NEW x \in Copy, Good(x), NotEarly(x), NEW y \in StatePart(x)
    PROVE  y \in Copy /\ Good(y) /\ NotEarly(y)
           /\ (y.radio.saved # x.radio.saved => x.wpan.joined)
<1>1. CASE x.comm.state = "INIT"
  <2>1. y \in Initialise(x)
    BY <1>1 DEF StatePart
  <2> QED BY <1>1, <2>1, InitialiseKeeps
<1>2. CASE x.comm.state = "STARTUP"
  <2>1. PICK z \in NetworkReset(x) \cup {x} : y = [z EXCEPT !.comm.state = "UNJOINED"]
    <3>1. y \in {[z EXCEPT !.comm.state = "UNJOINED"] :
                   z \in IF x.comm.sas.startup_control \notin {"JOINED", "COORDINATOR"}
                         THEN NetworkReset(x) ELSE {x}}
      BY <1>2 DEF StatePart
    <3> QED BY <3>1
  <2>2. z \in Copy /\ Good(z) /\ NotEarly(z) /\ z.comm = x.comm /\ z.radio.saved = x.radio.saved
    BY <2>1, NetworkResetKeeps
  <2>3. /\ y.comm = [z.comm EXCEPT !.state = "UNJOINED"] /\ y.query = z.query
        /\ y.wpan = z.wpan /\ y.radio = z.radio /\ y.up = z.up /\ y.seen = z.seen
        /\ y.fails = z.fails
        /\ y = [comm |-> y.comm, query |-> y.query, wpan |-> y.wpan, radio |-> y.radio,
                up |-> y.up, fails |-> y.fails, seen |-> y.seen]
    BY <2>1, <2>2 DEF Copy
  <2>4. y.comm \in CommType /\ y.comm.state = "UNJOINED"
    BY <2>2, <2>3 DEF Copy, CommType
  <2>5. y \in Copy
    BY <2>2, <2>3, <2>4 DEF Copy
  <2> QED BY <1>2, <2>2, <2>3, <2>4, <2>5, StateChanges
<1>3. CASE x.comm.state = "UNJOINED" /\ x.wpan.joined
  <2>1. PICK z \in Save(x) : y \in Refresh(z)
    BY <1>3 DEF StatePart
  <2> QED BY <1>3, <2>1, SaveKeeps, RefreshKeeps
<1>4. CASE x.comm.state = "JOINED" /\ ~x.wpan.joined
  <2>1. y = [x EXCEPT !.comm.state = "UNJOINED", !.comm.sas.extended_panid = AnyPan]
    BY <1>4 DEF StatePart
  <2> DEFINE sas == [x.comm.sas EXCEPT !.extended_panid = AnyPan]
  <2>2. sas \in SasType
    BY DEF Copy, CommType, SasType
  <2>3. /\ y.comm = [[x.comm EXCEPT !.state = "UNJOINED"] EXCEPT !.sas = sas] /\ y.query = x.query
        /\ y.wpan = x.wpan /\ y.radio = x.radio /\ y.up = x.up /\ y.seen = x.seen
        /\ y.fails = x.fails
        /\ y = [comm |-> y.comm, query |-> y.query, wpan |-> y.wpan, radio |-> y.radio,
                up |-> y.up, fails |-> y.fails, seen |-> y.seen]
    BY <2>1 DEF Copy, CommType
  <2> HIDE DEF sas
  <2>4. y.comm \in CommType /\ y.comm.state = "UNJOINED"
    BY <2>2, <2>3 DEF Copy, CommType
  <2>5. y \in Copy
    BY <2>3, <2>4 DEF Copy
  <2> QED BY <1>4, <2>3, <2>4, <2>5, StateChanges
<1>5. CASE /\ x.comm.state \notin {"INIT", "STARTUP"}
           /\ ~(x.comm.state = "UNJOINED" /\ x.wpan.joined)
           /\ ~(x.comm.state = "JOINED" /\ ~x.wpan.joined)
  BY <1>5 DEF StatePart
<1> QED BY <1>1, <1>2, <1>3, <1>4, <1>5

\* What every step keeps, and what it makes permanent.
Settled ==
    /\ Now' \in Copy /\ Good(Now)' /\ NotEarly(Now)'
    /\ radio'.saved # radio.saved => radio.proved \/ seen.early

LEMMA TickKeeps ==
    ASSUME WellFormed, Now \in Copy, Good(Now), NotEarly(Now), CommTick
    PROVE  Settled
<1>1. CASE \E x \in RestartPart : \E y \in StatePart(x) : Becomes(y)
  <2>1. PICK x \in RestartPart : \E y \in StatePart(x) : Becomes(y)
    BY <1>1
  <2>2. PICK y \in StatePart(x) : Becomes(y)
    BY <2>1
  <2>3. /\ x \in Copy /\ Good(x) /\ NotEarly(x)
        /\ (x.wpan.joined => x = Now) /\ x.radio.saved = radio.saved
    BY RestartKeeps
  <2>4. y \in Copy /\ Good(y) /\ NotEarly(y) /\ (y.radio.saved # x.radio.saved => x.wpan.joined)
    BY <2>3, StatePartKeeps
  <2>5. Now' = y /\ radio' = y.radio
    BY <2>2, <2>4, BecomesIs DEF Becomes
  <2>6. wpan.joined => radio.proved \/ seen.early
    BY NowIsCopy DEF NotEarly
  <2>7. radio'.saved # radio.saved => radio.proved \/ seen.early
    BY <2>3, <2>4, <2>5, <2>6, NowIsCopy
  <2>8. Good(Now)' /\ NotEarly(Now)'
    BY <2>4, <2>5 DEF Good, InStep, Waits, Told, ReadRight, NotEarly, Coming
  <2> QED BY <2>4, <2>5, <2>7, <2>8 DEF Settled
<1>2. CASE Due /\ comm.install /\ \E x \in Refused(Reset(Now)) : Becomes(x)
  <2>1. PICK y \in Refused(Reset(Now)) : Becomes(y)
    BY <1>2
  <2>2. /\ Reset(Now) \in Copy /\ Good(Reset(Now)) /\ NotEarly(Reset(Now))
        /\ Reset(Now).radio = radio
    BY ResetKeeps, NowIsCopy
  <2>3. y \in Copy /\ Good(y) /\ NotEarly(y) /\ y.radio = radio
    BY <2>1, <2>2, RefusedKeeps, RefusedIs
  <2>4. Now' = y /\ radio' = radio
    BY <2>1, <2>3, BecomesIs DEF Becomes
  <2>5. Good(Now)' /\ NotEarly(Now)'
    BY <2>3, <2>4 DEF Good, InStep, Waits, Told, ReadRight, NotEarly, Coming
  <2> QED BY <2>3, <2>4, <2>5 DEF Settled
<1> QED BY <1>1, <1>2 DEF CommTick

-----------------------------------------------------------------------------
(* The frames of the module *)

\* The frames behind the first.
LEMMA Behind ==
    ASSUME NEW S, NEW s \in Seq(S), s # <<>>
    PROVE  /\ Tail(s) \in Seq(S) /\ 1 \in DOMAIN s /\ s[1] = Head(s) /\ Head(s) \in S
           /\ DOMAIN s \subseteq Nat
           /\ \A i \in DOMAIN Tail(s) : i + 1 \in DOMAIN s /\ Tail(s)[i] = s[i + 1]
           /\ \A i \in DOMAIN s : i = 1 \/ (i - 1 \in DOMAIN Tail(s) /\ s[i] = Tail(s)[i - 1])
           /\ DOMAIN Tail(s) \subseteq Nat \ {0}
<1> DEFINE n == Len(s)
<1>1. n \in Nat /\ n # 0 /\ DOMAIN s = 1 .. n
  OBVIOUS
<1>2. Len(Tail(s)) = n - 1 /\ DOMAIN Tail(s) = 1 .. (n - 1) /\ \A i \in 1 .. (n - 1) : Tail(s)[i] = s[i + 1]
  OBVIOUS
<1>3. Tail(s) \in Seq(S) /\ s[1] = Head(s) /\ Head(s) \in S
  OBVIOUS
<1> HIDE DEF n
<1>4. \A i \in 1 .. n : i = 1 \/ (i - 1 \in 1 .. (n - 1) /\ s[i] = Tail(s)[i - 1])
  BY <1>1, <1>2
<1>5. \A i \in 1 .. (n - 1) : i + 1 \in 1 .. n
  BY <1>1
<1>6. 1 \in 1 .. n /\ 1 .. n \subseteq Nat /\ 1 .. (n - 1) \subseteq Nat \ {0}
  BY <1>1
<1> QED BY <1>1, <1>2, <1>3, <1>4, <1>5, <1>6

\* The copy without its first frame.
Taken == [Now EXCEPT !.up = Tail(up)]

LEMMA TakenIs ==
    ASSUME Now \in Copy, up # <<>>
    PROVE  /\ Taken \in Copy
           /\ Taken.comm = comm /\ Taken.query = query /\ Taken.wpan = wpan
           /\ Taken.radio = radio /\ Taken.seen = seen /\ Taken.up = Tail(up)
           /\ Head(up) \in Frame
<1>1. Tail(up) \in Seq(Frame) /\ Head(up) \in Frame
  BY NowIsCopy, Behind
<1> DEFINE t == Tail(up)
<1> HIDE DEF t
<1>2. Taken = [Now EXCEPT !.up = t]
  BY DEF Taken, t
<1>3. t \in Seq(Frame)
  BY <1>1 DEF t
<1>4. Taken \in Copy /\ Taken.up = t
  BY <1>2, <1>3 DEF Copy
<1>5. /\ Taken.comm = Now.comm /\ Taken.query = Now.query /\ Taken.wpan = Now.wpan
      /\ Taken.radio = Now.radio /\ Taken.seen = Now.seen
  BY <1>2 DEF Copy
<1> QED BY <1>1, <1>4, <1>5, NowIsCopy DEF t

LEMMA TakenComing ==
    ASSUME Now \in Copy, up # <<>>, NEW kind
    PROVE  /\ Coming(Taken, kind) => Coming(Now, kind)
           /\ Coming(Now, kind) => Coming(Taken, kind) \/ Head(up).kind = kind
           /\ Head(up).kind = kind => Coming(Now, kind)
<1> DEFINE t == Tail(up)
<1>1. Taken.up = t /\ Now.up = up /\ up \in Seq(Frame)
  BY TakenIs, NowIsCopy
<1>2. /\ 1 \in DOMAIN up /\ up[1] = Head(up)
      /\ \A i \in DOMAIN t : i + 1 \in DOMAIN up /\ t[i] = up[i + 1]
      /\ \A i \in DOMAIN up : i = 1 \/ (i - 1 \in DOMAIN t /\ up[i] = t[i - 1])
  BY <1>1, Behind
<1> HIDE DEF t
<1> QED BY <1>1, <1>2 DEF Coming

LEMMA StatusKeeps ==
    ASSUME WellFormed, Now \in Copy, Good(Now), NotEarly(Now), up # <<>>,
           Head(up).kind # "answer", Becomes(Status(Taken, Head(up).kind))
    PROVE  Settled
<1> DEFINE k == Head(up).kind
           y == Status(Taken, k)
<1>1. /\ Taken \in Copy /\ Taken.comm = comm /\ Taken.query = query /\ Taken.wpan = wpan
      /\ Taken.radio = radio /\ Taken.seen = seen /\ Taken.up = Tail(up)
      /\ k \in {"joined", "left"}
  BY TakenIs DEF Frame
<1>2. Now.comm = comm /\ Now.query = query /\ Now.wpan = wpan /\ Now.radio = radio
      /\ Now.up = up /\ Now.seen = seen
  BY NowIsCopy
<1>3. /\ y \in Copy /\ y.comm = comm /\ y.query = query /\ y.radio = radio /\ y.up = Tail(up)
      /\ y.seen.early = seen.early /\ y.seen.staged = seen.staged
      /\ y.seen.unanswered = seen.unanswered
      /\ y.wpan.joined <=> k = "joined"
      /\ k = "joined" => y.seen.moved = seen.moved
      /\ k = "left" => y.seen.moved
  <2>1. CASE k = "joined"
    <3>1. y = [Taken EXCEPT !.wpan = [Taken.wpan EXCEPT !.joined = TRUE]]
      BY <2>1 DEF Status
    <3>2. [Taken.wpan EXCEPT !.joined = TRUE] \in WpanType /\ [Taken.wpan EXCEPT !.joined = TRUE].joined
      BY <1>1 DEF Copy, WpanType
    <3> HIDE DEF y, k
    <3> QED BY <1>1, <2>1, <3>1, <3>2 DEF Copy
  <2>2. CASE k = "left"
    <3>1. y = [Taken EXCEPT !.wpan = [joined |-> FALSE, known |-> FALSE],
                            !.seen = [Taken.seen EXCEPT !.moved = TRUE]]
      BY <2>2 DEF Status
    <3> DEFINE s == [Taken.seen EXCEPT !.moved = TRUE]
    <3>2. /\ s \in SeenType /\ s.moved /\ s.early = seen.early /\ s.staged = seen.staged
          /\ s.unanswered = seen.unanswered
      BY <1>1 DEF Copy, SeenType
    <3>3. [joined |-> FALSE, known |-> FALSE] \in WpanType
      BY DEF WpanType
    <3> HIDE DEF y, k, s
    <3>4. y = [Taken EXCEPT !.wpan = [joined |-> FALSE, known |-> FALSE], !.seen = s]
      BY <3>1 DEF s
    <3> QED BY <1>1, <2>2, <3>2, <3>3, <3>4 DEF Copy
  <2> QED BY <1>1, <2>1, <2>2
<1> HIDE DEF y
<1>4. \A kind : /\ Coming(y, kind) => Coming(Now, kind)
                /\ Coming(Now, kind) => Coming(y, kind) \/ k = kind
                /\ k = kind => Coming(Now, kind)
  <2>1. Taken.up = y.up
    BY <1>1, <1>3
  <2> QED BY <2>1, TakenComing DEF Coming
<1> HIDE DEF k
<1>5. /\ 1 \in DOMAIN up /\ up[1].kind = k /\ DOMAIN up \subseteq Nat
      /\ \A i \in DOMAIN y.up : i + 1 \in DOMAIN up /\ y.up[i] = up[i + 1]
      /\ \A i \in DOMAIN up : i = 1 \/ (i - 1 \in DOMAIN y.up /\ up[i] = y.up[i - 1])
      /\ DOMAIN y.up \subseteq Nat \ {0}
  BY <1>3, NowIsCopy, Behind DEF k
<1>6. InStep(y)
  <2>1. InStep(Now)
    BY DEF Good
  <2>2. \A i, j \in DOMAIN y.up : y.up[i].kind = "answer" /\ y.up[j].kind = "answer" => i = j
    <3> SUFFICES ASSUME NEW i \in DOMAIN y.up, NEW j \in DOMAIN y.up,
                        y.up[i].kind = "answer", y.up[j].kind = "answer"
                 PROVE  i = j
      OBVIOUS
    <3>1. i + 1 = j + 1
      BY <1>2, <1>5, <2>1 DEF InStep
    <3>2. i \in Nat /\ j \in Nat
      BY <1>5
    <3> QED BY <3>1, <3>2
  <2>3. \A i \in DOMAIN y.up : y.up[i].kind = "answer" => Fits(Regs[y.query], y.up[i].value)
    BY <1>2, <1>3, <1>5, <2>1 DEF InStep
  <2> QED BY <1>2, <1>3, <1>4, <2>1, <2>2, <2>3 DEF InStep
<1>7. Waits(y)
  BY <1>2, <1>3 DEF Good, Waits
<1>8. Told(y)
  <2>1. Told(Now)
    BY DEF Good
  <2> SUFFICES ASSUME radio.on = "none"
               PROVE  /\ k = "joined" => Coming(y, "left")
                      /\ \A i \in DOMAIN y.up : y.up[i].kind = "joined" =>
                            \E j \in DOMAIN y.up : i < j /\ y.up[j].kind = "left"
    BY <1>3 DEF Told
  <2>2. \A i \in DOMAIN up : up[i].kind = "joined" => \E j \in DOMAIN up : i < j /\ up[j].kind = "left"
    BY <1>2, <2>1 DEF Told
  <2>3. ASSUME k = "joined" PROVE Coming(y, "left")
    <3>1. PICK j \in DOMAIN up : 1 < j /\ up[j].kind = "left"
      BY <1>5, <2>2, <2>3
    <3>2. j # 1
      BY <1>5, <3>1
    <3> QED BY <1>5, <3>1, <3>2 DEF Coming
  <2>4. ASSUME NEW i \in DOMAIN y.up, y.up[i].kind = "joined"
        PROVE  \E j \in DOMAIN y.up : i < j /\ y.up[j].kind = "left"
    <3>1. PICK j \in DOMAIN up : i + 1 < j /\ up[j].kind = "left"
      BY <1>5, <2>2, <2>4
    <3>2. i \in Nat /\ j \in Nat
      BY <1>5
    <3>3. j # 1 /\ i < j - 1
      BY <3>1, <3>2
    <3> QED BY <1>5, <3>1, <3>3
  <2> QED BY <2>3, <2>4
<1>9. ReadRight(y)
  <2>1. ReadRight(Now)
    BY DEF Good
  <2> SUFFICES ASSUME y.comm.state \in {"REFRESH", "JOINED"}, ~y.seen.moved, ~Coming(y, "left")
               PROVE  /\ y.radio.on # "none"
                      /\ \A i \in DOMAIN y.up :
                            y.up[i].kind = "answer" /\ Regs[y.query] = "OP" => y.up[i].value = y.radio.on
                      /\ y.comm.state = "JOINED" \/ y.query > OPindex =>
                            y.seen.staged \/ y.comm.sas.extended_panid = y.radio.on
    BY DEF ReadRight
  <2>2. k = "joined" /\ ~seen.moved /\ ~Coming(Now, "left")
    BY <1>1, <1>3, <1>4
  <2>3. /\ radio.on # "none"
        /\ \A i \in DOMAIN up :
              up[i].kind = "answer" /\ Regs[query] = "OP" => up[i].value = radio.on
        /\ comm.state = "JOINED" \/ query > OPindex =>
              seen.staged \/ comm.sas.extended_panid = radio.on
    BY <1>2, <1>3, <2>1, <2>2 DEF ReadRight
  <2> QED BY <1>3, <1>5, <2>3
<1>10. Good(y)
  BY <1>6, <1>7, <1>8, <1>9 DEF Good
<1>11. NotEarly(y)
  BY <1>2, <1>3, <1>4 DEF NotEarly
<1>12. Now' = y /\ radio' = radio
  BY <1>3, BecomesIs DEF Becomes, y, k
<1>13. Good(Now)' /\ NotEarly(Now)'
  BY <1>10, <1>11, <1>12 DEF Good, InStep, Waits, Told, ReadRight, NotEarly, Coming
<1> QED BY <1>3, <1>12, <1>13 DEF Settled

\* The value is stored; `staged' is about another network than the one that was read.
LEMMA AssignedIs ==
    ASSUME WellFormed, NEW x \in Copy, NEW reg, NEW value, Fits(reg, value)
    PROVE  LET y == Assigned(x, reg, value)
           IN  /\ y \in Copy
               /\ y.comm.state = x.comm.state /\ y.query = x.query /\ y.wpan = x.wpan
               /\ y.radio = x.radio /\ y.up = x.up
               /\ y.seen.moved = x.seen.moved /\ y.seen.early = x.seen.early
               /\ y.seen.unanswered = x.seen.unanswered
               /\ reg # "OP" => /\ y.comm.sas.extended_panid = x.comm.sas.extended_panid
                                /\ y.seen.staged = x.seen.staged
               /\ reg = "OP" /\ value # Zeros => y.comm.sas.extended_panid = value
<1> DEFINE y == Assigned(x, reg, value)
<1>1. CASE reg = "DL"
  <2> DEFINE sas == [x.comm.sas EXCEPT !.startup_control = value]
  <2>1. sas \in SasType /\ sas.extended_panid = x.comm.sas.extended_panid
    BY <1>1 DEF Copy, CommType, SasType, Fits
  <2>2. y = [x EXCEPT !.comm = [x.comm EXCEPT !.sas = sas]]
    BY <1>1 DEF Assigned
  <2> HIDE DEF sas, y
  <2>3. [x.comm EXCEPT !.sas = sas] \in CommType
        /\ [x.comm EXCEPT !.sas = sas].sas = sas /\ [x.comm EXCEPT !.sas = sas].state = x.comm.state
    BY <2>1 DEF Copy, CommType
  <2>4. /\ y \in Copy /\ y.comm.sas = sas /\ y.comm.state = x.comm.state /\ y.seen = x.seen
        /\ y.query = x.query /\ y.wpan = x.wpan /\ y.radio = x.radio /\ y.up = x.up
    BY <2>2, <2>3 DEF Copy
  <2> QED BY <1>1, <2>1, <2>4 DEF y
<1>2. CASE reg = "OP"
  <2> DEFINE pan == IF value = Zeros THEN AnyPan ELSE value
             sas == [x.comm.sas EXCEPT !.extended_panid = pan]
             s == [x.seen EXCEPT !.staged = FALSE]
  <2>1. sas \in SasType /\ (value # Zeros => sas.extended_panid = value)
    BY <1>2 DEF Copy, CommType, SasType, Fits
  <2>2. y = [x EXCEPT !.comm = [x.comm EXCEPT !.sas = sas], !.seen = s]
    BY <1>2 DEF Assigned
  <2>3. /\ s \in SeenType /\ s.moved = x.seen.moved /\ s.early = x.seen.early
        /\ s.unanswered = x.seen.unanswered
    BY DEF Copy, SeenType
  <2> HIDE DEF sas, y, s
  <2>4. [x.comm EXCEPT !.sas = sas] \in CommType
        /\ [x.comm EXCEPT !.sas = sas].sas = sas /\ [x.comm EXCEPT !.sas = sas].state = x.comm.state
    BY <2>1 DEF Copy, CommType
  <2>5. /\ y \in Copy /\ y.comm.sas = sas /\ y.comm.state = x.comm.state /\ y.seen = s
        /\ y.query = x.query /\ y.wpan = x.wpan /\ y.radio = x.radio /\ y.up = x.up
    BY <2>2, <2>3, <2>4 DEF Copy
  <2> QED BY <1>2, <2>1, <2>3, <2>5 DEF y
<1>3. CASE reg # "DL" /\ reg # "OP"
  BY <1>3 DEF Assigned
<1> QED BY <1>1, <1>2, <1>3

\* What the callback works on: the answer is there, and taken; it is in the set, or the
\* network that the set names is marked as not the one that was read.
LEMMA Answered ==
    ASSUME WellFormed, Now \in Copy, Good(Now), NotEarly(Now), up # <<>>,
           Head(up).kind = "answer",
           NEW y \in {Assigned(Taken, Regs[Taken.query], Head(up).value)}
                       \cup {[z EXCEPT !.seen.staged = TRUE] : z \in Refused(Taken)}
    PROVE  /\ query \in 1 .. Len(Regs)
           /\ y \in Copy /\ Told(y) /\ NotEarly(y) /\ ~Coming(y, "answer")
           /\ y.comm.state = comm.state /\ comm.state \in {"LOADING", "REFRESH"}
           /\ comm.state = "REFRESH" => query >= OPindex
           /\ y.radio = radio
           /\ comm.state = "REFRESH" /\ ~y.seen.moved /\ ~Coming(y, "left") =>
                 /\ radio.on # "none"
                 /\ y.seen.staged \/ y.comm.sas.extended_panid = radio.on
<1> DEFINE value == Head(up).value
<1>1. /\ Taken \in Copy /\ Taken.comm = comm /\ Taken.query = query /\ Taken.wpan = wpan
      /\ Taken.radio = radio /\ Taken.seen = seen /\ Taken.up = Tail(up)
      /\ Head(up) \in Frame
  BY TakenIs
<1>2. /\ Now.comm = comm /\ Now.query = query /\ Now.wpan = wpan /\ Now.radio = radio
      /\ Now.up = up /\ Now.seen = seen
      /\ query \in 0 .. Len(Regs) /\ up \in Seq(Frame) /\ radio \in RadioType
      /\ comm \in CommType
  BY NowIsCopy
<1> DEFINE t == Tail(up)
<1>3. /\ 1 \in DOMAIN up /\ up[1] = Head(up) /\ DOMAIN up \subseteq Nat
      /\ \A i \in DOMAIN t : i + 1 \in DOMAIN up /\ t[i] = up[i + 1]
      /\ \A i \in DOMAIN up : i = 1 \/ (i - 1 \in DOMAIN t /\ up[i] = t[i - 1])
      /\ DOMAIN t \subseteq Nat \ {0}
  BY <1>2, Behind
<1> HIDE DEF t
<1>4. InStep(Now) /\ Told(Now) /\ ReadRight(Now)
  BY DEF Good
<1>5. /\ Coming(Now, "answer") /\ query # 0 /\ comm.state \in {"LOADING", "REFRESH"}
      /\ comm.state = "REFRESH" => query >= OPindex
      /\ Fits(Regs[query], value)
  BY <1>2, <1>3, <1>4 DEF InStep, Coming
<1>6. query \in 1 .. Len(Regs)
  BY <1>2, <1>5, MaxFailIs
<1>7. /\ y \in Copy /\ y.comm.state = comm.state /\ y.query = query /\ y.wpan = wpan
      /\ y.radio = radio /\ y.up = t
      /\ y.seen.moved = seen.moved /\ y.seen.early = seen.early
      /\ \/ y.seen.staged
         \/ Regs[query] # "OP" /\ y.comm.sas.extended_panid = comm.sas.extended_panid
            /\ y.seen.staged = seen.staged
         \/ Regs[query] = "OP" /\ (value # Zeros => y.comm.sas.extended_panid = value)
  <2>1. CASE y = Assigned(Taken, Regs[query], value)
    BY <1>1, <1>5, <2>1, AssignedIs DEF t
  <2>2. CASE y \in {[z EXCEPT !.seen.staged = TRUE] : z \in Refused(Taken)}
    <3>1. PICK z \in Refused(Taken) : y = [z EXCEPT !.seen.staged = TRUE]
      BY <2>2
    <3>2. /\ z \in Copy
          /\ z.comm = comm /\ z.query = query /\ z.wpan = wpan /\ z.radio = radio
          /\ z.up = t /\ z.seen = [seen EXCEPT !.refused = TRUE]
      BY <1>1, RefusedIs DEF t
    <3> DEFINE s == [z.seen EXCEPT !.staged = TRUE]
    <3>3. seen \in SeenType
      BY NowIsCopy
    <3>4. s \in SeenType /\ s.staged /\ s.moved = seen.moved /\ s.early = seen.early
      BY <3>2, <3>3 DEF SeenType
    <3> HIDE DEF s
    <3>5. y = [z EXCEPT !.seen = s]
      BY <3>1 DEF s
    <3> QED BY <3>2, <3>4, <3>5 DEF Copy
  <2> QED BY <1>1, <2>1, <2>2
<1>8. \A i \in DOMAIN t : t[i].kind # "answer"
  <2> SUFFICES ASSUME NEW i \in DOMAIN t, t[i].kind = "answer" PROVE FALSE
    OBVIOUS
  <2>1. i + 1 = 1
    BY <1>2, <1>3, <1>4 DEF InStep
  <2> QED BY <1>3, <2>1
<1>9. ~Coming(y, "answer")
  BY <1>7, <1>8 DEF Coming
<1>10. /\ Coming(Now, "left") => Coming(y, "left")
       /\ Coming(y, "joined") => Coming(Now, "joined")
  BY <1>2, <1>3, <1>7 DEF Coming
<1>11. NotEarly(y)
  BY <1>2, <1>7, <1>10 DEF NotEarly
<1>12. Told(y)
  <2> SUFFICES ASSUME radio.on = "none"
               PROVE  /\ wpan.joined => Coming(y, "left")
                      /\ \A i \in DOMAIN t : t[i].kind = "joined" =>
                            \E j \in DOMAIN t : i < j /\ t[j].kind = "left"
    BY <1>7 DEF Told
  <2>1. /\ wpan.joined => Coming(Now, "left")
        /\ \A i \in DOMAIN up : up[i].kind = "joined" => \E j \in DOMAIN up : i < j /\ up[j].kind = "left"
    BY <1>2, <1>4 DEF Told
  <2>2. ASSUME NEW i \in DOMAIN t, t[i].kind = "joined"
        PROVE  \E j \in DOMAIN t : i < j /\ t[j].kind = "left"
    <3>1. PICK j \in DOMAIN up : i + 1 < j /\ up[j].kind = "left"
      BY <1>3, <2>1, <2>2
    <3>2. i \in Nat /\ j \in Nat
      BY <1>3
    <3>3. j # 1 /\ i < j - 1
      BY <3>1, <3>2
    <3> QED BY <1>3, <3>1, <3>3
  <2> QED BY <1>10, <2>1, <2>2
<1>13. ASSUME comm.state = "REFRESH", ~y.seen.moved, ~Coming(y, "left")
       PROVE  /\ radio.on # "none"
              /\ y.seen.staged \/ y.comm.sas.extended_panid = radio.on
  <2>1. /\ radio.on # "none"
        /\ Regs[query] = "OP" => value = radio.on
        /\ query > OPindex => seen.staged \/ comm.sas.extended_panid = radio.on
    BY <1>2, <1>3, <1>4, <1>7, <1>10, <1>13 DEF ReadRight
  <2>2. radio.on # Zeros
    BY <1>2, <2>1 DEF WellFormed, RadioType
  <2>3. CASE Regs[query] = "OP"
    BY <1>7, <2>1, <2>2, <2>3
  <2>4. CASE Regs[query] # "OP"
    <3>1. query # OPindex
      BY <2>4, OPindexIs
    <3>2. query > OPindex
      BY <1>5, <1>6, <1>13, <3>1, OPindexIs, MaxFailIs
    <3> QED BY <1>7, <2>1, <2>4, <3>2
  <2> QED BY <2>1, <2>3, <2>4
<1> QED BY <1>5, <1>6, <1>7, <1>9, <1>11, <1>12, <1>13

LEMMA AnswerKeeps ==
    ASSUME WellFormed, Now \in Copy, Good(Now), NotEarly(Now), up # <<>>,
           Head(up).kind = "answer",
           NEW z \in RegCallback(Taken, Head(up).value), Becomes(z)
    PROVE  Settled
<1>1. PICK y \in {Assigned(Taken, Regs[Taken.query], Head(up).value)}
                   \cup {[x EXCEPT !.seen.staged = TRUE] : x \in Refused(Taken)} :
        z \in IF Taken.query < Len(Regs) THEN Queried(y, Taken.query + 1) ELSE {Arrived(y)}
  BY DEF RegCallback
<1>2. /\ query \in 1 .. Len(Regs)
      /\ y \in Copy /\ Told(y) /\ NotEarly(y) /\ ~Coming(y, "answer")
      /\ y.comm.state = comm.state /\ comm.state \in {"LOADING", "REFRESH"}
      /\ comm.state = "REFRESH" => query >= OPindex
      /\ y.radio = radio
      /\ comm.state = "REFRESH" /\ ~y.seen.moved /\ ~Coming(y, "left") =>
            /\ radio.on # "none"
            /\ y.seen.staged \/ y.comm.sas.extended_panid = radio.on
  BY <1>1, Answered
<1>3. Taken.query = query
  BY TakenIs
<1>4. z \in Copy /\ Good(z) /\ NotEarly(z) /\ z.radio = radio
  <2>1. CASE query < Len(Regs)
    <3> DEFINE i == query + 1
    <3>1. i \in 1 .. Len(Regs) /\ (query >= OPindex => i >= OPindex)
      BY <1>2, <2>1, OPindexIs, MaxFailIs
    <3>2. z \in Queried(y, i)
      BY <1>1, <1>3, <2>1
    <3> HIDE DEF i
    <3>3. z \in Copy /\ z.comm = y.comm /\ z.seen = y.seen /\ z.radio = y.radio
      BY <1>2, <3>1, <3>2, QueriedIs
    <3>4. Good(z)
      <4>1. z.comm.state \in {"LOADING", "REFRESH"} /\ (z.comm.state = "REFRESH" => i >= OPindex)
        BY <1>2, <3>1, <3>3
      <4>2. z.comm.state = "REFRESH" /\ ~z.seen.moved /\ ~Coming(y, "left") =>
              /\ y.radio.on # "none"
              /\ i > OPindex => z.seen.staged \/ z.comm.sas.extended_panid = y.radio.on
        BY <1>2, <3>3
      <4>3. y \in Copy /\ ~Coming(y, "answer") /\ Told(y)
        BY <1>2
      <4> QED BY <3>1, <3>2, <3>3, <4>1, <4>2, <4>3, QueriedKeeps
    <3>5. NotEarly(z)
      BY <1>2, <3>1, <3>2, <3>3, QueriedNotEarly
    <3> QED BY <1>2, <3>3, <3>4, <3>5
  <2>2. CASE ~(query < Len(Regs))
    <3> DEFINE state == IF y.comm.state = "LOADING" THEN "STARTUP" ELSE "JOINED"
    <3>1. z = [y EXCEPT !.query = 0, !.comm = [y.comm EXCEPT !.state = state]]
      BY <1>1, <1>2, <1>3, <2>2 DEF Arrived
    <3>2. /\ [y.comm EXCEPT !.state = state] \in CommType
          /\ [y.comm EXCEPT !.state = state].state = state
          /\ [y.comm EXCEPT !.state = state].sas = y.comm.sas
      BY <1>2 DEF Copy, CommType
    <3>3. 0 \in 0 .. Len(Regs)
      BY MaxFailIs
    <3> HIDE DEF state
    <3>4. /\ z \in Copy /\ z.query = 0 /\ z.comm.state = state /\ z.comm.sas = y.comm.sas
          /\ z.wpan = y.wpan /\ z.radio = y.radio /\ z.up = y.up /\ z.seen = y.seen
      BY <1>2, <3>1, <3>2, <3>3 DEF Copy
    <3>5. state \in {"STARTUP", "JOINED"} /\ (state = "JOINED" => comm.state = "REFRESH")
      BY <1>2 DEF state
    <3>6. InStep(z) /\ Waits(z)
      BY <1>2, <3>4, <3>5 DEF InStep, Waits, Coming
    <3>7. Told(z)
      BY <1>2, <3>4 DEF Told, Coming
    <3>8. ReadRight(z)
      BY <1>2, <3>4, <3>5 DEF ReadRight, Coming
    <3>9. NotEarly(z)
      BY <1>2, <3>4 DEF NotEarly, Coming
    <3> QED BY <1>2, <3>4, <3>6, <3>7, <3>8, <3>9 DEF Good
  <2> QED BY <2>1, <2>2
<1>5. Now' = z /\ radio' = radio
  BY <1>4, BecomesIs DEF Becomes
<1>6. Good(Now)' /\ NotEarly(Now)'
  BY <1>4, <1>5 DEF Good, InStep, Waits, Told, ReadRight, NotEarly, Coming
<1> QED BY <1>4, <1>5, <1>6 DEF Settled

LEMMA DispatchKeeps ==
    ASSUME WellFormed, Now \in Copy, Good(Now), NotEarly(Now), Dispatch
    PROVE  Settled
<1>1. up # <<>>
  BY DEF Dispatch
<1>2. CASE Head(up).kind = "answer"
  <2>1. PICK z \in RegCallback(Taken, Head(up).value) : Becomes(z)
    BY <1>2 DEF Dispatch, Taken
  <2> QED BY <1>1, <1>2, <2>1, AnswerKeeps
<1>3. CASE Head(up).kind # "answer"
  <2>1. Becomes(Status(Taken, Head(up).kind))
    BY <1>3 DEF Dispatch, Taken
  <2> QED BY <1>1, <1>3, <2>1, StatusKeeps
<1> QED BY <1>2, <1>3

-----------------------------------------------------------------------------
(* The other steps *)

LEMMA Copied ==
    ASSUME comm' \in CommType, query' \in 0 .. Len(Regs), wpan' \in WpanType, radio' \in RadioType,
           up' \in Seq(Frame), fails' \in 0 .. MaxFail, seen' \in SeenType
    PROVE  /\ Now' \in Copy
           /\ Now'.comm = comm' /\ Now'.query = query' /\ Now'.wpan = wpan'
           /\ Now'.radio = radio' /\ Now'.up = up' /\ Now'.seen = seen'
BY DEF Now, Copy

LEMMA BesideSteps ==
    ASSUME Good(Now), NotEarly(Now), Now' \in Copy, NEW y, y = Now', Beside(Now, y),
           y.radio = radio, y.radio.proved = Now.radio.proved, y.seen.early = Now.seen.early
    PROVE  Settled
<1>1. Good(y)
  BY BesideKeeps
<1>2. NotEarly(y)
  BY DEF Beside, NotEarly, Coming
<1>3. Good(Now)' /\ NotEarly(Now)'
  BY <1>1, <1>2 DEF Good, InStep, Waits, Told, ReadRight, NotEarly, Coming
<1>4. radio' = radio
  BY DEF Now
<1> QED BY <1>3, <1>4 DEF Settled

LEMMA ExpiresKeeps ==
    ASSUME WellFormed, Now \in Copy, Good(Now), NotEarly(Now), Expires
    PROVE  Settled
<1>1. /\ \A i \in DOMAIN up : up[i].kind # "answer"
      /\ query' = 0 /\ seen' = [seen EXCEPT !.unanswered = TRUE]
      /\ comm' = comm /\ wpan' = wpan /\ radio' = radio /\ up' = up /\ fails' = fails
  BY DEF Expires, counters
<1>2. /\ Now.comm = comm /\ Now.query = query /\ Now.wpan = wpan /\ Now.radio = radio
      /\ Now.up = up /\ Now.seen = seen
      /\ comm \in CommType /\ wpan \in WpanType /\ radio \in RadioType /\ up \in Seq(Frame)
      /\ fails \in 0 .. MaxFail /\ seen \in SeenType
  BY NowIsCopy
<1>3. /\ seen' \in SeenType /\ seen'.unanswered /\ seen'.moved = seen.moved
      /\ seen'.staged = seen.staged /\ seen'.early = seen.early
  BY <1>1, <1>2 DEF SeenType
<1>4. 0 \in 0 .. Len(Regs)
  BY MaxFailIs
<1>5. Now' \in Copy
  BY <1>1, <1>2, <1>3, <1>4 DEF Now, Copy
<1> DEFINE y == [comm |-> comm, query |-> 0, wpan |-> wpan, radio |-> radio, up |-> up,
                 fails |-> fails, seen |-> seen']
<1>6. Now' = y
  BY <1>1 DEF Now
<1>7. /\ y.comm = comm /\ y.query = 0 /\ y.wpan = wpan /\ y.radio = radio /\ y.up = up
      /\ y.seen = seen'
  OBVIOUS
<1> HIDE DEF y
<1>8. InStep(y)
  BY <1>1, <1>2, <1>7 DEF Good, InStep, Coming
<1>9. Waits(y)
  BY <1>3, <1>7 DEF Waits
<1>10. Told(y)
  BY <1>2, <1>7 DEF Good, Told, Coming
<1>11. ReadRight(y)
  <2>1. ~(0 > OPindex)
    BY OPindexIs, MaxFailIs
  <2> QED BY <1>1, <1>2, <1>3, <1>7, <2>1 DEF Good, ReadRight, Coming
<1>12. NotEarly(y)
  BY <1>2, <1>3, <1>7 DEF NotEarly, Coming
<1>13. Good(Now)' /\ NotEarly(Now)'
  BY <1>6, <1>8, <1>9, <1>10, <1>11, <1>12
     DEF Good, InStep, Waits, Told, ReadRight, NotEarly, Coming
<1> QED BY <1>1, <1>5, <1>13 DEF Settled

LEMMA LearnAddressKeeps ==
    ASSUME WellFormed, Now \in Copy, Good(Now), NotEarly(Now), LearnAddress
    PROVE  Settled
<1>1. /\ wpan' = [wpan EXCEPT !.known = TRUE]
      /\ comm' = comm /\ query' = query /\ radio' = radio /\ up' = up /\ fails' = fails
      /\ seen' = seen
  BY DEF LearnAddress, counters
<1>2. wpan' \in WpanType /\ wpan'.joined = wpan.joined
  BY <1>1, NowIsCopy DEF WpanType
<1>3. Now' \in Copy
  BY <1>1, <1>2, NowIsCopy DEF Now, Copy
<1>4. PICK y : y = Now'
  OBVIOUS
<1>5. /\ y.comm = comm /\ y.query = query /\ y.wpan = wpan' /\ y.radio = radio /\ y.up = up
      /\ y.seen = seen
  BY <1>1, <1>4 DEF Now
<1>6. Beside(Now, y)
  BY <1>2, <1>5, NowIsCopy DEF Beside
<1> QED BY <1>3, <1>4, <1>5, <1>6, NowIsCopy, BesideSteps

LEMMA TimePassesKeeps ==
    ASSUME WellFormed, Now \in Copy, Good(Now), NotEarly(Now), TimePasses
    PROVE  Settled
<1>1. /\ comm.wait > 0 /\ comm' = [comm EXCEPT !.wait = comm.wait - 1]
      /\ wpan' = wpan /\ query' = query /\ radio' = radio /\ up' = up /\ fails' = fails
      /\ seen' = seen
  BY DEF TimePasses, counters
<1>2. comm' \in CommType /\ comm'.state = comm.state /\ comm'.sas = comm.sas
  <2>1. comm \in CommType
    BY NowIsCopy
  <2>2. comm.wait - 1 \in Nat
    BY <1>1, <2>1 DEF CommType
  <2> QED BY <1>1, <2>1, <2>2 DEF CommType
<1>3. Now' \in Copy
  BY <1>1, <1>2, NowIsCopy DEF Now, Copy
<1>4. PICK y : y = Now'
  OBVIOUS
<1>5. /\ y.comm = comm' /\ y.query = query /\ y.wpan = wpan /\ y.radio = radio /\ y.up = up
      /\ y.seen = seen
  BY <1>1, <1>4 DEF Now
<1>6. Beside(Now, y)
  BY <1>2, <1>5, NowIsCopy DEF Beside
<1> QED BY <1>3, <1>4, <1>5, <1>6, NowIsCopy, BesideSteps

LEMMA ToolKeeps ==
    ASSUME WellFormed, Now \in Copy, Good(Now), NotEarly(Now), Tool
    PROVE  Settled
<1>1. /\ wpan' = wpan /\ query' = query /\ radio' = radio /\ up' = up /\ fails' = fails
  BY DEF Tool
<1>2. comm \in CommType /\ comm.sas \in SasType /\ seen \in SeenType
  BY NowIsCopy DEF CommType
<1>3. /\ comm' \in CommType /\ comm'.state = comm.state
      /\ seen' \in SeenType /\ seen'.moved = seen.moved /\ seen'.unanswered = seen.unanswered
      /\ seen'.early = seen.early /\ (seen.staged => seen'.staged)
      /\ comm'.sas.extended_panid = comm.sas.extended_panid \/ seen'.staged
  <2>1. CASE \E undivided \in BOOLEAN, records \in Requests : WriteAttributes(undivided, records)
    <3>1. PICK undivided \in BOOLEAN, records \in Requests : WriteAttributes(undivided, records)
      BY <2>1
    <3> DEFINE sas == Write(undivided, records, comm.sas, comm.role).sas
               staged == seen.staged \/ sas.extended_panid # comm.sas.extended_panid
    <3>2. sas \in SasType
      BY <1>2, WriteTyped
    <3>3. comm' = [comm EXCEPT !.sas = sas] /\ seen' = [seen EXCEPT !.staged = staged]
      BY <3>1 DEF WriteAttributes
    <3>4. staged \in BOOLEAN /\ (seen.staged => staged)
          /\ (sas.extended_panid = comm.sas.extended_panid \/ staged)
      BY <1>2 DEF SeenType
    <3> HIDE DEF sas, staged
    <3>5. comm' \in CommType /\ comm'.state = comm.state /\ comm'.sas = sas
      BY <1>2, <3>2, <3>3 DEF CommType
    <3>6. /\ seen' \in SeenType /\ seen'.moved = seen.moved /\ seen'.unanswered = seen.unanswered
          /\ seen'.early = seen.early /\ seen'.staged = staged
      BY <1>2, <3>3, <3>4 DEF SeenType
    <3> QED BY <3>4, <3>5, <3>6
  <2>2. CASE \E delay \in Delays, save \in BOOLEAN : RestartDevice(delay, save)
    <3>1. PICK delay \in Delays, save \in BOOLEAN : RestartDevice(delay, save)
      BY <2>2
    <3>2. delay \in Nat
      BY DEF WellFormed
    <3>3. CASE IsValid(comm.sas)
      <4>1. comm' = [comm EXCEPT !.wait = delay, !.delayed = TRUE, !.install = save] /\ seen' = seen
        BY <3>1, <3>3 DEF RestartDevice
      <4>2. comm' \in CommType /\ comm'.state = comm.state /\ comm'.sas = comm.sas
        BY <1>2, <3>2, <4>1 DEF CommType
      <4> QED BY <1>2, <4>1, <4>2
    <3>4. CASE ~IsValid(comm.sas)
      BY <1>2, <3>1, <3>4 DEF RestartDevice
    <3> QED BY <3>3, <3>4
  <2>3. CASE \E delay \in Delays : FactoryReset(delay)
    <3>1. PICK delay \in Delays : FactoryReset(delay)
      BY <2>3
    <3>2. delay \in Nat
      BY DEF WellFormed
    <3>3. /\ comm' = [comm EXCEPT !.wait = delay, !.delayed = TRUE, !.factory = TRUE, !.install = TRUE]
          /\ seen' = seen
      BY <3>1 DEF FactoryReset
    <3>4. comm' \in CommType /\ comm'.state = comm.state /\ comm'.sas = comm.sas
      BY <1>2, <3>2, <3>3 DEF CommType
    <3> QED BY <1>2, <3>3, <3>4
  <2> QED BY <2>1, <2>2, <2>3 DEF Tool
<1>4. Now' \in Copy
  BY <1>1, <1>3, NowIsCopy DEF Now, Copy
<1>5. PICK y : y = Now'
  OBVIOUS
<1>6. /\ y.comm = comm' /\ y.query = query /\ y.wpan = wpan /\ y.radio = radio /\ y.up = up
      /\ y.seen = seen'
  BY <1>1, <1>5 DEF Now
<1>7. Beside(Now, y)
  BY <1>3, <1>6, NowIsCopy DEF Beside
<1> QED BY <1>3, <1>4, <1>5, <1>6, <1>7, NowIsCopy, BesideSteps

LEMMA LeavesKeeps ==
    ASSUME WellFormed, Now \in Copy, Good(Now), NotEarly(Now), Leaves
    PROVE  Settled
<1> DEFINE on == [radio EXCEPT !.on = "none"]
           frames == Append(up, [kind |-> "left", value |-> Unset])
           y == [comm |-> comm, query |-> query, wpan |-> wpan, radio |-> on, up |-> frames,
                 fails |-> fails, seen |-> seen]
<1>1. /\ radio.on # "none" /\ radio' = on /\ up' = frames
      /\ comm' = comm /\ wpan' = wpan /\ query' = query /\ fails' = fails /\ seen' = seen
  BY DEF Leaves
<1>2. y = Now'
  BY <1>1 DEF Now
<1>3. /\ y.comm = comm /\ y.query = query /\ y.wpan = wpan /\ y.radio = on /\ y.up = frames
      /\ y.seen = seen
  OBVIOUS
<1> HIDE DEF y
<1>4. Good(y) /\ y.radio \in RadioType /\ y.up \in Seq(Frame) /\ NotEarly(y)
  BY <1>1, <1>3, NowIsCopy, LeftIs
<1>5. on.saved = radio.saved
  BY NowIsCopy DEF RadioType
<1>6. Now' \in Copy
  <2> HIDE DEF on, frames
  <2> QED BY <1>1, <1>3, <1>4, NowIsCopy DEF Now, Copy
<1>7. Good(Now)' /\ NotEarly(Now)'
  BY <1>2, <1>4 DEF Good, InStep, Waits, Told, ReadRight, NotEarly, Coming
<1> HIDE DEF on, frames
<1> QED BY <1>1, <1>5, <1>6, <1>7 DEF Settled

LEMMA JoinsKeeps ==
    ASSUME WellFormed, Now \in Copy, Good(Now), NotEarly(Now), Joins
    PROVE  Settled
<1>1. PICK e \in Epid : radio' = [radio EXCEPT !.on = e, !.proved = TRUE]
  BY DEF Joins
<1> DEFINE final == [kind |-> "joined", value |-> Unset]
<1>2. /\ radio.on = "none" /\ up' = Append(up, final)
      /\ comm' = comm /\ wpan' = wpan /\ query' = query /\ fails' = fails /\ seen' = seen
  BY DEF Joins, counters
<1>3. e # "none"
  BY DEF WellFormed
<1>4. /\ radio' \in RadioType /\ radio'.on # "none" /\ radio'.proved /\ radio'.saved = radio.saved
  BY <1>1, <1>3, NowIsCopy DEF RadioType
<1>5. final \in Frame /\ final.kind = "joined"
  BY DEF Frame
<1> DEFINE n == Len(up)
<1>6. up \in Seq(Frame) /\ n \in Nat /\ DOMAIN up = 1 .. n
  BY NowIsCopy
<1> HIDE DEF final
<1>7. /\ up' \in Seq(Frame) /\ DOMAIN up' = 1 .. (n + 1) /\ up'[n + 1] = final
      /\ \A i \in 1 .. n : up'[i] = up[i]
  BY <1>2, <1>5, <1>6
<1> HIDE DEF n
<1>8. Now' \in Copy
  BY <1>2, <1>4, <1>7, NowIsCopy DEF Now, Copy
<1>9. PICK y : y = Now'
  OBVIOUS
<1>10. /\ y.comm = comm /\ y.query = query /\ y.wpan = wpan /\ y.radio = radio' /\ y.up = up'
       /\ y.seen = seen
  BY <1>2, <1>9 DEF Now
<1>11. /\ \A i \in DOMAIN y.up : y.up[i].kind # "joined" => i \in DOMAIN up /\ y.up[i] = up[i]
       /\ \A i \in DOMAIN up : i \in DOMAIN y.up /\ y.up[i] = up[i]
  <2>1. \A i \in 1 .. (n + 1) : i = n + 1 \/ i \in 1 .. n
    BY <1>6
  <2>2. \A i \in 1 .. n : i \in 1 .. (n + 1)
    BY <1>6
  <2> QED BY <1>5, <1>6, <1>7, <1>10, <2>1, <2>2
<1>12. InStep(y)
  BY <1>10, <1>11, NowIsCopy DEF Good, InStep, Coming
<1>13. Waits(y)
  BY <1>10, NowIsCopy DEF Good, Waits
<1>14. Told(y)
  BY <1>4, <1>10 DEF Told
<1>15. ReadRight(y)
  BY <1>2, <1>10, <1>11, NowIsCopy DEF Good, ReadRight, Coming
<1>16. NotEarly(y)
  BY <1>4, <1>10 DEF NotEarly
<1>17. Good(Now)' /\ NotEarly(Now)'
  BY <1>9, <1>12, <1>13, <1>14, <1>15, <1>16
     DEF Good, InStep, Waits, Told, ReadRight, NotEarly, Coming
<1> QED BY <1>4, <1>8, <1>17 DEF Settled

-----------------------------------------------------------------------------
(* Initially, and in every step *)

LEMMA InitConfigured == ASSUME WellFormed, CommInit PROVE Configured
<1>1. PICK e \in Epid \cup {"none"} :
        /\ radio = [config |-> Factory, saved |-> Factory, on |-> e, proved |-> e # "none"]
        /\ wpan = [joined |-> e # "none", known |-> e # "none"]
  BY DEF CommInit
<1>2. /\ comm = [state |-> "INIT", role |-> "none", delayed |-> FALSE, factory |-> FALSE,
                 install |-> FALSE, save |-> FALSE, wait |-> 0, sas |-> Blank]
      /\ query = 0 /\ up = <<>> /\ fails = 0 /\ tools = 0 /\ roams = 0
      /\ seen = [unanswered |-> FALSE, refused |-> FALSE, moved |-> FALSE, staged |-> FALSE,
                 early |-> FALSE]
  BY DEF CommInit
<1>3. comm \in CommType /\ comm.state = "INIT"
  BY <1>2 DEF CommType, Blank, SasType, StartupControl
<1> DEFINE is == e # "none"
<1>4. is \in BOOLEAN
  OBVIOUS
<1>5. Factory \in ConfigType
  BY DEF Factory, ConfigType, StartupControl
<1>6. /\ radio \in RadioType /\ radio.on = e /\ radio.proved = is
      /\ wpan \in WpanType /\ wpan.joined = is
  <2>1. /\ radio = [config |-> Factory, saved |-> Factory, on |-> e, proved |-> is]
        /\ wpan = [joined |-> is, known |-> is]
    BY <1>1
  <2> HIDE DEF is
  <2> QED BY <1>4, <1>5, <2>1 DEF RadioType, WpanType
<1>7. seen \in SeenType
  BY <1>2 DEF SeenType
<1>8. 0 \in 0 .. MaxFail /\ 0 \in 0 .. Len(Regs) /\ 0 \in 0 .. MaxTool /\ 0 \in 0 .. MaxRoam
  BY DEF WellFormed
<1>9. up \in Seq(Frame) /\ DOMAIN up = {}
  BY <1>2
<1>10. Now \in Copy
  BY <1>2, <1>3, <1>6, <1>7, <1>8, <1>9 DEF Now, Copy
<1>11. /\ Now.comm = comm /\ Now.query = 0 /\ Now.wpan = wpan /\ Now.radio = radio
       /\ Now.up = up
  BY <1>2, <1>10, NowIsCopy
<1>12. InStep(Now)
  BY <1>3, <1>9, <1>11 DEF InStep, Coming
<1>13. Waits(Now) /\ ReadRight(Now)
  BY <1>3, <1>11 DEF Waits, ReadRight
<1>14. Told(Now)
  BY <1>6, <1>9, <1>11 DEF Told
<1>15. NotEarly(Now)
  BY <1>6, <1>9, <1>11 DEF NotEarly, Coming
<1> QED BY <1>2, <1>8, <1>10, <1>12, <1>13, <1>14, <1>15 DEF Configured, Good

LEMMA StepKeeps ==
    ASSUME WellFormed, Configured, CommNext
    PROVE  Configured' /\ (radio'.saved # radio.saved => radio.proved \/ seen.early)
<1>1. Now \in Copy /\ Good(Now) /\ NotEarly(Now)
  BY DEF Configured
<1>2. Settled
  BY <1>1, TickKeeps, DispatchKeeps, ExpiresKeeps, LearnAddressKeeps, ToolKeeps, JoinsKeeps,
     LeavesKeeps, TimePassesKeeps DEF CommNext
<1>3. tools' \in 0 .. MaxTool /\ roams' \in 0 .. MaxRoam
  <2>1. /\ MaxTool \in Nat /\ MaxRoam \in Nat
        /\ tools \in 0 .. MaxTool /\ roams \in 0 .. MaxRoam
    BY DEF WellFormed, Configured
  <2>2. /\ tools' = tools \/ (tools < MaxTool /\ tools' = tools + 1)
        /\ roams' = roams \/ (roams < MaxRoam /\ roams' = roams + 1)
    <3>1. CASE CommTick
      BY <3>1 DEF CommTick
    <3>2. CASE Dispatch
      BY <3>2 DEF Dispatch
    <3>3. CASE Tool
      BY <3>3 DEF Tool
    <3>4. CASE Leaves
      BY <3>4 DEF Leaves
    <3>5. CASE Expires \/ LearnAddress \/ Joins \/ TimePasses
      BY <3>5 DEF Expires, LearnAddress, Joins, TimePasses, counters
    <3> QED BY <3>1, <3>2, <3>3, <3>4, <3>5 DEF CommNext
  <2> QED BY <2>1, <2>2
<1>4. Configured'
  <2>1. Now' \in Copy /\ Good(Now)' /\ NotEarly(Now)'
    BY <1>2 DEF Settled
  <2> QED BY <1>3, <2>1
        DEF Configured, Good, InStep, Waits, Told, ReadRight, NotEarly, Coming
<1>5. radio'.saved # radio.saved => radio.proved \/ seen.early
  BY <1>2 DEF Settled
<1> QED BY <1>4, <1>5

LEMMA StutterKeeps ==
    ASSUME Configured, UNCHANGED commvars PROVE Configured'
<1>1. Now' = Now /\ tools' = tools /\ roams' = roams
  BY DEF commvars, Now
<1>2. Good(Now)' /\ NotEarly(Now)'
  BY <1>1 DEF Configured, Good, InStep, Waits, Told, ReadRight, NotEarly, Coming
<1> QED BY <1>1, <1>2 DEF Configured

LEMMA AlwaysConfigured == CommSpec => []Configured
<1>1. CommInit => Configured
  BY CommAssumption, InitConfigured
<1>2. Configured /\ [CommNext]_commvars => Configured'
  BY CommAssumption, StepKeeps, StutterKeeps
<1> QED BY <1>1, <1>2, PTL DEF CommSpec

-----------------------------------------------------------------------------
(* The theorems *)

\* The type invariant of the commissioning server, for any set of registers, networks
\* and requests of the tool (xbee_commissioning.c, zcl_commissioning.c).
THEOREM CommissioningTypeCorrect == CommSpec => []CommTypeOK
<1>1. Configured => CommTypeOK
  BY NowIsCopy
     DEF Configured, CommTypeOK, CommType, WpanType, RadioType, SeenType, Frame
<1> QED BY <1>1, AlwaysConfigured, PTL

\* A state that waits for the registers has a query to wait for, unless a query was never
\* answered (xbee_comm_reg_callback()).
THEOREM AwaitedHolds == CommSpec => []Awaited
<1>1. Configured => Awaited
  BY NowIsCopy DEF Configured, Good, Waits, Awaited
<1> QED BY <1>1, AlwaysConfigured, PTL

\* In JOINED the set names the network the module is on, in all interleavings of the
\* queries with leaving, joining, restarts and the tool, up to what the property leaves
\* out (xbee_commissioning_tick(), xbee_comm_reg_callback()).
THEOREM TracksNetworkHolds == CommSpec => []TracksNetwork
<1>1. Configured => TracksNetwork
  BY NowIsCopy DEF Configured, Good, ReadRight, Coming, TracksNetwork
<1> QED BY <1>1, AlwaysConfigured, PTL

\* A configuration becomes permanent only when a network has proved it
\* (xbee_commissioning_tick()).
THEOREM SavesWhatJoinedHolds == CommSpec => SavesWhatJoined
<1>1. Configured /\ [CommNext]_commvars
        => [radio'.saved # radio.saved => radio.proved \/ seen.early]_commvars
  BY CommAssumption, StepKeeps
<1> QED BY <1>1, AlwaysConfigured, PTL DEF CommSpec, SavesWhatJoined

\* An undivided write is made as a whole or not at all, up to the records of the attribute
\* that has no place, for every set and every request whose records fit the response
\* (_zcl_write_attributes()).
THEOREM UndividedHolds == CommSpec => []Undivided
<1>1. Configured => Undivided
  BY CommAssumption, NowIsCopy, UndividedIs DEF Configured, CommType
<1> QED BY <1>1, AlwaysConfigured, PTL
===============================================================================
