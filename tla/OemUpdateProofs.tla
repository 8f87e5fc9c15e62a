---------------------------- MODULE OemUpdateProofs ----------------------------
(***************************************************************************)
(* Theorems about OemUpdate, for any image, buffers, setups and line: the  *)
(* types, that an update which is reported as done has brought the whole   *)
(* image, that an answer is not taken for another one, and that a session  *)
(* with a prompt module knows whether it is in command mode.               *)
(***************************************************************************)
EXTENDS OemUpdate, WellFoundedInduction, SequenceTheorems, TLAPS

-----------------------------------------------------------------------------
(* Sequences and numbers *)

\* What is left of a sequence without its first k elements.
LEMMA Rest ==
    ASSUME NEW S, NEW s \in Seq(S), NEW k \in 0 .. Len(s)
    PROVE  /\ Len(s) \in Nat
           /\ SubSeq(s, k + 1, Len(s)) \in Seq(S)
           /\ Len(SubSeq(s, k + 1, Len(s))) = Len(s) - k
           /\ \A i \in 1 .. Len(s) - k : SubSeq(s, k + 1, Len(s))[i] = s[k + i]
<1>1. Len(s) \in Nat /\ \A i \in 1 .. Len(s) : s[i] \in S BY LenProperties, ElementOfSeq
<1> DEFINE n == Len(s)
           t == SubSeq(s, k + 1, n)
<1>2. /\ t \in Seq(S) /\ Len(t) = (IF k + 1 <= n THEN n - (k + 1) + 1 ELSE 0)
      /\ \A i \in 1 .. n - (k + 1) + 1 : t[i] = s[k + 1 + i - 1]
  <2>1. \A i \in k + 1 .. n : s[i] \in S BY <1>1
  <2>2. n \in Int /\ k + 1 \in Int BY <1>1
  <2> HIDE DEF n
  <2> QED BY <2>1, <2>2, SubSeqProperties
<1>3. n \in Nat /\ k \in 0 .. n BY <1>1
<1> HIDE DEF n, t
<1>4. Len(t) = n - k BY <1>2, <1>3
<1>5. \A i \in 1 .. n - k : t[i] = s[k + i]
  <2> TAKE i \in 1 .. n - k
  <2>1. i \in 1 .. n - (k + 1) + 1 /\ k + 1 + i - 1 = k + i BY <1>3
  <2> QED BY <1>2, <2>1
<1> QED BY <1>2, <1>3, <1>4, <1>5 DEF n, t

\* The first n elements.
LEMMA Start ==
    ASSUME NEW S, NEW s \in Seq(S), NEW n \in 0 .. Len(s)
    PROVE  /\ SubSeq(s, 1, n) \in Seq(S)
           /\ Len(SubSeq(s, 1, n)) = n
           /\ \A i \in 1 .. n : SubSeq(s, 1, n)[i] = s[i]
<1>1. Len(s) \in Nat /\ \A i \in 1 .. Len(s) : s[i] \in S BY LenProperties, ElementOfSeq
<1> DEFINE t == SubSeq(s, 1, n)
<1>2. /\ t \in Seq(S) /\ Len(t) = (IF 1 <= n THEN n - 1 + 1 ELSE 0)
      /\ \A i \in 1 .. n - 1 + 1 : t[i] = s[1 + i - 1]
  <2>1. \A i \in 1 .. n : s[i] \in S BY <1>1
  <2>2. n \in Int /\ 1 \in Int BY <1>1
  <2> QED BY <2>1, <2>2, SubSeqProperties
<1> HIDE DEF t
<1>3. n \in Nat BY <1>1
<1>4. Len(t) = n BY <1>2, <1>3
<1>5. \A i \in 1 .. n : t[i] = s[i]
  <2> TAKE i \in 1 .. n
  <2>1. i \in 1 .. n - 1 + 1 /\ 1 + i - 1 = i BY <1>3
  <2> QED BY <1>2, <2>1
<1> QED BY <1>2, <1>4, <1>5 DEF t

\* The smaller and the greater of two numbers.
LEMMA OfTwo ==
    ASSUME NEW a \in Int, NEW b \in Int
    PROVE  /\ Min({a, b}) = IF a <= b THEN a ELSE b
           /\ Max({a, b}) = IF a >= b THEN a ELSE b
<1>1. \E x \in {a, b} : \A y \in {a, b} : x <= y OBVIOUS
<1>2. \E x \in {a, b} : \A y \in {a, b} : x >= y OBVIOUS
<1> DEFINE m == CHOOSE x \in {a, b} : \A y \in {a, b} : x <= y
           n == CHOOSE x \in {a, b} : \A y \in {a, b} : x >= y
<1>3. m \in {a, b} /\ m <= a /\ m <= b BY <1>1
<1>4. n \in {a, b} /\ n >= a /\ n >= b BY <1>2
<1>5. Min({a, b}) = m /\ Max({a, b}) = n BY DEF Min, Max
<1> HIDE DEF m, n
<1> QED BY <1>3, <1>4, <1>5

\* The least of three.
LEMMA OfThree ==
    ASSUME NEW a \in Int, NEW b \in Int, NEW c \in Int
    PROVE  LET m == Min({a, b, c}) IN m \in {a, b, c} /\ m <= a /\ m <= b /\ m <= c
<1>1. \E x \in {a, b, c} : \A y \in {a, b, c} : x <= y OBVIOUS
<1>2. Min({a, b, c}) = CHOOSE x \in {a, b, c} : \A y \in {a, b, c} : x <= y BY DEF Min
<1> QED BY <1>1, <1>2

\* A set with a greatest number has one when a number is added.
LEMMA GreatestOfMore ==
    ASSUME NEW S \in SUBSET Nat, NEW x \in Nat, \E m \in S : \A y \in S : m >= y
    PROVE  \E m \in S \cup {x} : \A y \in S \cup {x} : m >= y
<1>1. PICK m \in S : \A y \in S : m >= y OBVIOUS
<1>2. CASE m >= x BY <1>1, <1>2
<1>3. CASE ~(m >= x) BY <1>1, <1>3
<1> QED BY <1>2, <1>3

\* The times that are counted, which go one further than each wait.
LEMMA WaitedCounts ==
    /\ Waited \subseteq Nat /\ 0 \in Waited
    /\ 0 .. PlusWait + 1 \subseteq Waited
<1> DEFINE S1 == {Guard}
           S2 == S1 \cup {AnswerWait}
           S3 == S2 \cup {CommandWait}
           S4 == S3 \cup {BreakWait}
           S5 == S4 \cup {PlusWait}
           S6 == S5 \cup {ReplyWait}
           S7 == S6 \cup {FinalWait}
<1>1. S1 \in SUBSET Nat /\ S2 \in SUBSET Nat /\ S3 \in SUBSET Nat /\ S4 \in SUBSET Nat
      /\ S5 \in SUBSET Nat /\ S6 \in SUBSET Nat /\ S7 \in SUBSET Nat
  BY AtModeAssumption, OemAssumption
<1>2. \E m \in S1 : \A y \in S1 : m >= y BY <1>1
<1>3. PlusWait \in S7 /\ S7 = {Guard, AnswerWait, CommandWait, BreakWait, PlusWait, ReplyWait, FinalWait}
  OBVIOUS
<1>4. /\ AnswerWait \in Nat /\ CommandWait \in Nat /\ BreakWait \in Nat /\ PlusWait \in Nat
      /\ ReplyWait \in Nat /\ FinalWait \in Nat
  BY AtModeAssumption, OemAssumption
<1> HIDE DEF S1
<1>5. \E m \in S2 : \A y \in S2 : m >= y BY <1>1, <1>2, <1>4, GreatestOfMore
<1> HIDE DEF S2
<1>6. \E m \in S3 : \A y \in S3 : m >= y BY <1>1, <1>5, <1>4, GreatestOfMore
<1> HIDE DEF S3
<1>7. \E m \in S4 : \A y \in S4 : m >= y BY <1>1, <1>6, <1>4, GreatestOfMore
<1> HIDE DEF S4
<1>8. \E m \in S5 : \A y \in S5 : m >= y BY <1>1, <1>7, <1>4, GreatestOfMore
<1> HIDE DEF S5
<1>9. \E m \in S6 : \A y \in S6 : m >= y BY <1>1, <1>8, <1>4, GreatestOfMore
<1> HIDE DEF S6
<1>10. \E m \in S7 : \A y \in S7 : m >= y BY <1>1, <1>9, <1>4, GreatestOfMore
<1> HIDE DEF S7
<1>11. Max(S7) \in S7 /\ \A y \in S7 : Max(S7) >= y BY <1>10 DEF Max
<1>12. Max(S7) \in Nat /\ Max(S7) >= PlusWait BY <1>1, <1>3, <1>11
<1>13. Waited = 0 .. Max(S7) + 1 BY <1>3 DEF Waited
<1> QED BY <1>4, <1>12, <1>13

-----------------------------------------------------------------------------
(* The operators of AtMode *)

\* A device with items of I and characters of C in its buffers.
Port(I, C) == {d \in Device(Waited, I, C) : Len(d.line) <= Room /\ Len(d.back) <= RxRoom}

\* Everything but the mode and its timer.
SameBut(t, d) ==
    /\ t.line = d.line /\ t.back = d.back /\ t.asked = d.asked /\ t.baud = d.baud
    /\ t.broken = d.broken

\* A change of the mode.
LEMMA ModeChanges ==
    ASSUME NEW I, NEW C, NEW d \in Port(I, C), NEW mode \in Modes
    PROVE  /\ Goes(d, mode) \in Port(I, C) /\ SameBut(Goes(d, mode), d)
           /\ Goes(d, mode).mode = mode
           /\ Stamped(d, mode) \in Port(I, C) /\ SameBut(Stamped(d, mode), d)
           /\ Stamped(d, mode).mode = mode
<1>1. 0 \in Waited BY WaitedCounts
<1> QED BY <1>1 DEF Goes, Stamped, Port, Device, SameBut

\* The buffers of a device are replaced.
LEMMA BuffersChange ==
    ASSUME NEW I, NEW C, NEW d \in Port(I, C), NEW s \in Seq(I), Len(s) <= Room,
           NEW b \in Seq(C), Len(b) <= RxRoom
    PROVE  /\ [d EXCEPT !.line = s] \in Port(I, C) /\ [d EXCEPT !.back = b] \in Port(I, C)
BY DEF Port, Device

\* A write.
LEMMA WriteIs ==
    ASSUME NEW I, NEW C, NEW d \in Port(I, C), NEW x \in I
    PROVE  /\ Write(d, x) \in Port(I, C)
           /\ Write(d, x).mode = d.mode /\ Write(d, x).back = d.back
           /\ Write(d, x).asked = d.asked /\ Write(d, x).baud = d.baud
           /\ Write(d, x).broken = d.broken
           /\ Write(d, x).line = IF Len(d.line) < Room THEN Append(d.line, x) ELSE d.line
<1> DEFINE l == d.line
<1>1. d \in Device(Waited, I, C) /\ l \in Seq(I) /\ Len(l) <= Room /\ Len(d.back) <= RxRoom
  BY DEF Port, Device
<1>2. Len(l) \in Nat /\ Room \in Nat BY <1>1, LenProperties, AtModeAssumption
<1>3. CASE Len(l) < Room
  <2>1. Append(l, x) \in Seq(I) /\ Len(Append(l, x)) = Len(l) + 1 BY <1>1, AppendProperties
  <2> DEFINE a == Append(l, x)
  <2>2. Len(a) <= Room BY <1>2, <1>3, <2>1
  <2>3. Write(d, x) = [d EXCEPT !.line = a] BY <1>2, <1>3 DEF Write, Free
  <2>4. a \in Seq(I) BY <2>1
  <2> HIDE DEF a
  <2>5. Write(d, x) \in Port(I, C) BY <1>1, <2>2, <2>3, <2>4 DEF Port, Device
  <2>6. Write(d, x).line = a BY <1>1, <2>3 DEF Device
  <2>7. a = Append(d.line, x) BY DEF a
  <2> QED BY <1>1, <1>3, <2>3, <2>5, <2>6, <2>7 DEF Device
<1>4. CASE ~(Len(l) < Room)
  <2>1. Write(d, x) = d BY <1>2, <1>4 DEF Write, Free
  <2> QED BY <1>4, <2>1
<1> QED BY <1>3, <1>4

\* How a mode ends when its time is over.
Expires(from, to) ==
    \/ from \in {"POST_ESCAPE", "COMMAND", "WAIT_IDLE"} /\ to = "IDLE"
    \/ from = "WAIT_RESPONSE" /\ to = "COMMAND"

\* A tick.
LEMMA TickedIs ==
    ASSUME NEW I, NEW C, NEW d \in Port(I, C), Item("+++", d.asked, 0) \in I
    PROVE  LET t == Ticked(d)
           IN  /\ t \in Port(I, C)
               /\ t.asked = d.asked /\ t.baud = d.baud /\ t.broken = d.broken
               /\ \/ t = d
                  \/ /\ d.mode = "PRE_ESCAPE" /\ t.mode = "POST_ESCAPE" /\ t.back = <<>>
                     /\ t.line = IF Len(d.line) < Room
                                 THEN Append(d.line, Item("+++", d.asked, 0)) ELSE d.line
                  \/ /\ d.mode = "POST_ESCAPE" /\ t.mode \in {"COMMAND", "IDLE"}
                     /\ Len(d.back) >= 2 /\ t.back = Tail(Tail(d.back)) /\ t.line = d.line
                  \/ Expires(d.mode, t.mode) /\ t.line = d.line /\ t.back = d.back
<1> DEFINE b == d.back
           x == Item("+++", d.asked, 0)
<1>1. /\ d \in Device(Waited, I, C) /\ b \in Seq(C) /\ Len(b) <= RxRoom /\ Len(d.line) <= Room
      /\ d.mode \in Modes
  BY DEF Port, Device
<1>2. RxRoom \in Nat /\ Len(b) \in Nat /\ <<>> \in Seq(C) /\ Len(<<>>) = 0
  BY <1>1, LenProperties, EmptySeq, OemAssumption
<1>3. "POST_ESCAPE" \in Modes /\ "COMMAND" \in Modes /\ "IDLE" \in Modes BY DEF Modes
<1>11. /\ Goes(d, "IDLE") \in Port(I, C) /\ SameBut(Goes(d, "IDLE"), d) /\ Goes(d, "IDLE").mode = "IDLE"
       /\ Goes(d, "COMMAND") \in Port(I, C) /\ SameBut(Goes(d, "COMMAND"), d)
       /\ Goes(d, "COMMAND").mode = "COMMAND"
       /\ Stamped(d, "COMMAND") \in Port(I, C) /\ SameBut(Stamped(d, "COMMAND"), d)
       /\ Stamped(d, "COMMAND").mode = "COMMAND"
  BY <1>3, ModeChanges
<1>4. CASE d.mode = "PRE_ESCAPE" /\ d.age > Guard
  <2> DEFINE w == Write(d, x)
             s == Stamped(w, "POST_ESCAPE")
  <2>1. /\ w \in Port(I, C) /\ w.asked = d.asked /\ w.baud = d.baud /\ w.broken = d.broken
        /\ w.line = IF Len(d.line) < Room THEN Append(d.line, x) ELSE d.line
    BY WriteIs
  <2> HIDE DEF w
  <2>2. s \in Port(I, C) /\ SameBut(s, w) /\ s.mode = "POST_ESCAPE" BY <1>3, <2>1, ModeChanges
  <2>3. Ticked(d) = [s EXCEPT !.back = <<>>] BY <1>4 DEF Ticked, w
  <2> HIDE DEF s
  <2>4. [s EXCEPT !.back = <<>>] \in Port(I, C)
    <3> DEFINE e == <<>>
    <3>1. e \in Seq(C) /\ Len(e) <= RxRoom /\ Len(s.line) <= Room /\ s.line \in Seq(I)
      BY <1>2, <2>2 DEF Port, Device
    <3> HIDE DEF e
    <3>2. [s EXCEPT !.back = e] \in Port(I, C) BY <2>2, <3>1, BuffersChange
    <3> QED BY <3>2 DEF e
  <2>5. /\ Ticked(d).back = <<>> /\ Ticked(d).line = w.line /\ Ticked(d).mode = "POST_ESCAPE"
        /\ Ticked(d).asked = d.asked /\ Ticked(d).baud = d.baud /\ Ticked(d).broken = d.broken
    BY <2>1, <2>2, <2>3 DEF Port, Device, SameBut
  <2> QED BY <1>4, <2>1, <2>3, <2>4, <2>5
<1>5. CASE d.mode = "POST_ESCAPE" /\ Len(b) >= 2
  <2> DEFINE s == IF Greeted(d) THEN Stamped(d, "COMMAND") ELSE Goes(d, "IDLE")
             r == Tail(Tail(b))
  <2>1. s \in Port(I, C) /\ SameBut(s, d) /\ s.mode \in {"COMMAND", "IDLE"}
    <3>1. CASE Greeted(d)
      <4>1. s = Stamped(d, "COMMAND") BY <3>1
      <4> HIDE DEF s
      <4> QED BY <1>11, <4>1
    <3>2. CASE ~Greeted(d)
      <4>1. s = Goes(d, "IDLE") BY <3>2
      <4> HIDE DEF s
      <4> QED BY <1>11, <4>1
    <3> QED BY <3>1, <3>2
  <2>2. Ticked(d) = [s EXCEPT !.back = Tail(Tail(@))] BY <1>5 DEF Ticked
  <2> HIDE DEF s
  <2>3. s.back = b BY <2>1 DEF SameBut
  <2>4. Ticked(d) = [s EXCEPT !.back = r] BY <2>1, <2>2, <2>3 DEF Port, Device
  <2>5. r \in Seq(C) /\ Len(r) <= RxRoom
    <3>5. b # <<>> BY <1>2, <1>5
    <3>6. b \in Seq(C) BY <1>1
    <3>7. Len(b) \in Nat /\ Len(b) >= 2 /\ Len(<<>>) = 0 BY <1>2, <1>5
    <3> HIDE DEF b
    <3>1. b # <<>> /\ Tail(b) \in Seq(C) /\ Len(Tail(b)) = Len(b) - 1
      BY <3>5, <3>6, HeadTailProperties
    <3>2. Tail(b) # <<>>
      <4> DEFINE u == Tail(b)
      <4>1. Len(u) >= 1 BY <3>7, <3>1
      <4> HIDE DEF u
      <4>2. u # <<>> BY <3>7, <4>1
      <4> QED BY <4>2 DEF u
    <3>3. r \in Seq(C) /\ Len(r) = Len(Tail(b)) - 1 BY <3>1, <3>2, HeadTailProperties
    <3> QED BY <1>1, <1>2, <3>1, <3>3
  <2> HIDE DEF r
  <2>6. [s EXCEPT !.back = r] \in Port(I, C) BY <2>1, <2>5 DEF Port, Device
  <2>7. /\ Ticked(d).back = r /\ Ticked(d).line = d.line /\ Ticked(d).mode = s.mode
        /\ Ticked(d).asked = d.asked /\ Ticked(d).baud = d.baud /\ Ticked(d).broken = d.broken
    BY <2>1, <2>4 DEF Port, Device, SameBut
  <2>8. r = Tail(Tail(d.back)) BY DEF r
  <2> QED BY <1>5, <2>1, <2>4, <2>6, <2>7, <2>8
<1>6. CASE d.mode = "POST_ESCAPE" /\ Len(b) < 2 /\ d.age > Guard
  <2>1. Ticked(d) = Goes(d, "IDLE") BY <1>2, <1>6 DEF Ticked
  <2> QED BY <1>6, <1>11, <2>1 DEF SameBut, Expires
<1>7. CASE d.mode = "WAIT_RESPONSE" /\ d.age > AnswerWait
  <2>1. Ticked(d) = Goes(d, "COMMAND") BY <1>7 DEF Ticked
  <2> QED BY <1>7, <1>11, <2>1 DEF SameBut, Expires
<1>8. CASE d.mode = "WAIT_IDLE" /\ d.age > AnswerWait
  <2>1. Ticked(d) = Goes(d, "IDLE") BY <1>8 DEF Ticked
  <2> QED BY <1>8, <1>11, <2>1 DEF SameBut, Expires
<1>9. CASE d.mode = "COMMAND" /\ d.age > CommandWait
  <2>1. Ticked(d) = Goes(d, "IDLE") BY <1>9 DEF Ticked
  <2> QED BY <1>9, <1>11, <2>1 DEF SameBut, Expires
<1>10. CASE ~(d.mode = "PRE_ESCAPE" /\ d.age > Guard) /\ ~(d.mode = "POST_ESCAPE" /\ Len(b) >= 2)
            /\ ~(d.mode = "POST_ESCAPE" /\ Len(b) < 2 /\ d.age > Guard)
            /\ ~(d.mode = "WAIT_RESPONSE" /\ d.age > AnswerWait)
            /\ ~(d.mode = "WAIT_IDLE" /\ d.age > AnswerWait)
            /\ ~(d.mode = "COMMAND" /\ d.age > CommandWait)
  <2>1. Ticked(d) = d BY <1>10 DEF Ticked
  <2> QED BY <2>1
<1> QED BY <1>4, <1>5, <1>6, <1>7, <1>8, <1>9, <1>10

\* xbee_atmode_enter()
LEMMA EnteredIs ==
    ASSUME NEW I, NEW C, NEW d \in Port(I, C), Item("+++", d.asked, 0) \in I
    PROVE  LET t == Ticked(d)
           IN  /\ Entered(d) \in Port(I, C) /\ SameBut(Entered(d), t)
               /\ \/ Entered(d) = t /\ t.mode \notin {"UNKNOWN", "IDLE"}
                  \/ Entered(d).mode = "PRE_ESCAPE" /\ t.mode \in {"UNKNOWN", "IDLE"}
<1> DEFINE t == Ticked(d)
<1>1. t \in Port(I, C) BY TickedIs
<1>2. Entered(d) = IF t.mode \in {"UNKNOWN", "IDLE"} THEN Stamped(t, "PRE_ESCAPE") ELSE t
  BY DEF Entered
<1>3. "PRE_ESCAPE" \in Modes BY DEF Modes
<1> HIDE DEF t
<1>4. CASE t.mode \in {"UNKNOWN", "IDLE"}
  <2>1. Entered(d) = Stamped(t, "PRE_ESCAPE") BY <1>2, <1>4
  <2>2. /\ Stamped(t, "PRE_ESCAPE") \in Port(I, C) /\ SameBut(Stamped(t, "PRE_ESCAPE"), t)
        /\ Stamped(t, "PRE_ESCAPE").mode = "PRE_ESCAPE"
    BY <1>1, <1>3, ModeChanges
  <2> QED BY <1>4, <2>1, <2>2 DEF t
<1>5. CASE t.mode \notin {"UNKNOWN", "IDLE"}
  <2>1. Entered(d) = t BY <1>2, <1>5
  <2> QED BY <1>1, <1>5, <2>1 DEF t, SameBut
<1> QED BY <1>4, <1>5

\* xbee_atmode_send_request()
LEMMA RequestedIs ==
    ASSUME NEW I, NEW C, NEW d \in Port(I, C), NEW command,
           Item(command, d.asked + 1, 0) \in I
    PROVE  LET r == Requested(d, command)
           IN  /\ r \in Port(I, C)
               /\ r.back = d.back /\ r.baud = d.baud /\ r.broken = d.broken
               /\ \/ Len(d.line) >= Room /\ r = d
                  \/ /\ Len(d.line) < Room /\ r.line = Append(d.line, Item(command, d.asked + 1, 0))
                     /\ r.mode = "WAIT_RESPONSE" /\ r.asked = d.asked + 1
<1> DEFINE x == Item(command, d.asked + 1, 0)
           w == Write(d, x)
           s == Stamped(w, "WAIT_RESPONSE")
<1>1. Len(d.line) \in Nat /\ Len(d.line) <= Room /\ Room \in Nat \ {0} /\ d.asked \in Nat
  BY LenProperties, AtModeAssumption DEF Port, Device
<1>2. CASE Len(d.line) >= Room
  <2>1. Requested(d, command) = d BY <1>1, <1>2 DEF Requested, Free
  <2> QED BY <1>2, <2>1
<1>3. CASE Len(d.line) < Room
  <2>1. /\ w \in Port(I, C) /\ w.back = d.back /\ w.asked = d.asked /\ w.baud = d.baud
        /\ w.broken = d.broken /\ w.line = Append(d.line, x)
    BY <1>3, WriteIs
  <2>2. Requested(d, command) = [s EXCEPT !.asked = @ + 1] BY <1>1, <1>3 DEF Requested, Free
  <2>3. "WAIT_RESPONSE" \in Modes BY DEF Modes
  <2> HIDE DEF w
  <2>4. s \in Port(I, C) /\ SameBut(s, w) /\ s.mode = "WAIT_RESPONSE" BY <2>1, <2>3, ModeChanges
  <2> HIDE DEF s
  <2>5. s.asked \in Nat BY <2>4 DEF Port, Device
  <2>6. [s EXCEPT !.asked = @ + 1] \in Port(I, C)
    <3> DEFINE k == s.asked + 1
    <3>1. k \in Nat BY <2>5
    <3> HIDE DEF k
    <3>2. [s EXCEPT !.asked = k] \in Port(I, C) BY <2>4, <3>1 DEF Port, Device
    <3>3. [s EXCEPT !.asked = @ + 1] = [s EXCEPT !.asked = k] BY DEF k
    <3> QED BY <3>2, <3>3
  <2>7. /\ [s EXCEPT !.asked = @ + 1].asked = s.asked + 1
        /\ [s EXCEPT !.asked = @ + 1].mode = s.mode
        /\ SameBut([s EXCEPT !.asked = @ + 1], [s EXCEPT !.asked = @ + 1])
        /\ [s EXCEPT !.asked = @ + 1].line = s.line /\ [s EXCEPT !.asked = @ + 1].back = s.back
        /\ [s EXCEPT !.asked = @ + 1].baud = s.baud /\ [s EXCEPT !.asked = @ + 1].broken = s.broken
    BY <2>4 DEF Port, Device, SameBut
  <2> QED BY <1>3, <2>1, <2>2, <2>4, <2>6, <2>7 DEF SameBut
<1> QED BY <1>1, <1>2, <1>3

\* xbee_atmode_exit()
LEMMA ExitedIs ==
    ASSUME NEW I, NEW C, NEW d \in Port(I, C), Item("+++", d.asked, 0) \in I,
           Item("CN", d.asked + 1, 0) \in I
    PROVE  LET t == Ticked(d)
               r == Requested(t, "CN")
           IN  /\ Exited(d) \in Port(I, C) /\ r \in Port(I, C)
               /\ \/ t.mode = "PRE_ESCAPE" /\ Exited(d).mode = "IDLE" /\ SameBut(Exited(d), t)
                  \/ t.mode = "COMMAND" /\ Exited(d).mode = "WAIT_IDLE" /\ SameBut(Exited(d), r)
                  \/ t.mode \notin {"PRE_ESCAPE", "COMMAND"} /\ Exited(d) = t
<1> DEFINE t == Ticked(d)
           r == Requested(t, "CN")
<1>1. t \in Port(I, C) /\ t.asked = d.asked BY TickedIs
<1>2. Exited(d) = IF t.mode = "PRE_ESCAPE" THEN Goes(t, "IDLE")
                  ELSE IF t.mode = "COMMAND" THEN Goes(r, "WAIT_IDLE") ELSE t
  BY DEF Exited
<1>3. "IDLE" \in Modes /\ "WAIT_IDLE" \in Modes BY DEF Modes
<1> HIDE DEF t
<1>4. Item("CN", t.asked + 1, 0) \in I BY <1>1
<1>5. r \in Port(I, C) BY <1>1, <1>4, RequestedIs
<1> HIDE DEF r
<1>6. /\ Goes(t, "IDLE") \in Port(I, C) /\ SameBut(Goes(t, "IDLE"), t) /\ Goes(t, "IDLE").mode = "IDLE"
      /\ Goes(r, "WAIT_IDLE") \in Port(I, C) /\ SameBut(Goes(r, "WAIT_IDLE"), r)
      /\ Goes(r, "WAIT_IDLE").mode = "WAIT_IDLE"
  BY <1>1, <1>3, <1>5, ModeChanges
<1>7. CASE t.mode = "PRE_ESCAPE" BY <1>2, <1>5, <1>6, <1>7 DEF t, r
<1>8. CASE t.mode = "COMMAND" BY <1>2, <1>5, <1>6, <1>8 DEF t, r
<1>9. CASE t.mode \notin {"PRE_ESCAPE", "COMMAND"} BY <1>1, <1>2, <1>5, <1>9 DEF t, r
<1> QED BY <1>7, <1>8, <1>9

\* A set of numbers has a least one.
LEMMA LeastNumber ==
    ASSUME NEW S \in SUBSET Nat, S # {}
    PROVE  Min(S) \in S /\ \A y \in S : Min(S) <= y
<1> DEFINE R == {ss \in Nat \X Nat : ss[1] < ss[2]}
<1>1. IsWellFoundedOn(R, Nat) BY NatLessThanWellFounded DEF OpToRel
<1>2. PICK x \in S : \A y \in S : <<y, x>> \notin R
  <2> HIDE DEF R
  <2> QED BY <1>1, WFMin
<1>3. \A y \in S : x <= y
  <2> TAKE y \in S
  <2>1. x \in Nat /\ y \in Nat /\ (y < x => <<y, x>> \in R) OBVIOUS
  <2> HIDE DEF R
  <2> QED BY <1>2, <2>1
<1>4. \E z \in S : \A y \in S : z <= y BY <1>3
<1> QED BY <1>4 DEF Min

Awaiting == {"WAIT_IDLE", "WAIT_RESPONSE"}

\* A response has ended.
LEMMA EndedIs ==
    ASSUME NEW I, NEW C, NEW d \in Port(I, C), d.mode \in Awaiting
    PROVE  /\ Ended(d) \in Port(I, C) /\ SameBut(Ended(d), d)
           /\ Ended(d).mode = IF d.mode = "WAIT_IDLE" THEN "IDLE" ELSE "COMMAND"
           /\ Ended(d).age = d.age
<1>1. "IDLE" \in Modes /\ "COMMAND" \in Modes BY DEF Modes
<1>2. /\ Goes(d, "IDLE") \in Port(I, C) /\ SameBut(Goes(d, "IDLE"), d) /\ Goes(d, "IDLE").mode = "IDLE"
      /\ Goes(d, "COMMAND") \in Port(I, C) /\ SameBut(Goes(d, "COMMAND"), d)
      /\ Goes(d, "COMMAND").mode = "COMMAND"
  BY <1>1, ModeChanges
<1>5. Goes(d, "IDLE").age = d.age /\ Goes(d, "COMMAND").age = d.age BY DEF Goes, Port, Device
<1>3. CASE d.mode = "WAIT_IDLE"
  <2>1. Ended(d) = Goes(d, "IDLE") BY <1>3 DEF Ended
  <2> QED BY <1>2, <1>3, <1>5, <2>1
<1>4. CASE d.mode = "WAIT_RESPONSE"
  <2>1. Ended(d) = Goes(d, "COMMAND") BY <1>4 DEF Ended
  <2> QED BY <1>2, <1>4, <1>5, <2>1
<1> QED BY <1>3, <1>4 DEF Awaiting

\* What a read takes from the front of the buffer leaves the rest.
Without(d, n) == [d EXCEPT !.back = SubSeq(@, n + 1, Len(@))]
LEMMA TakenFrom ==
    ASSUME NEW I, NEW C, NEW d \in Port(I, C), NEW buffer \in Seq(C), NEW n \in 0 .. Len(d.back)
    PROVE  LET left == Without(d, n)
           IN  /\ left \in Port(I, C) /\ left.back = SubSeq(d.back, n + 1, Len(d.back))
               /\ left.line = d.line /\ left.asked = d.asked /\ left.baud = d.baud
               /\ left.broken = d.broken /\ left.mode = d.mode /\ left.age = d.age
               /\ buffer \o SubSeq(d.back, 1, n) \in Seq(C)
<1> DEFINE b == d.back
           u == SubSeq(b, n + 1, Len(b))
           v == SubSeq(b, 1, n)
<1>1. b \in Seq(C) /\ Len(b) <= RxRoom /\ RxRoom \in Nat BY OemAssumption DEF Port, Device
<1>2. u \in Seq(C) /\ Len(u) = Len(b) - n /\ Len(b) \in Nat BY <1>1, Rest
<1>3. v \in Seq(C) BY <1>1, Start
<1> HIDE DEF u, v
<1>4. Len(u) <= RxRoom BY <1>1, <1>2
<1>5. [d EXCEPT !.back = u] \in Port(I, C) BY <1>2, <1>4 DEF Port, Device
<1>6. buffer \o v \in Seq(C) BY <1>3, ConcatProperties
<1>7. /\ [d EXCEPT !.back = u].back = u /\ [d EXCEPT !.back = u].line = d.line
      /\ [d EXCEPT !.back = u].asked = d.asked /\ [d EXCEPT !.back = u].baud = d.baud
      /\ [d EXCEPT !.back = u].broken = d.broken /\ [d EXCEPT !.back = u].mode = d.mode
      /\ [d EXCEPT !.back = u].age = d.age
  BY DEF Port, Device
<1>8. Without(d, n) = [d EXCEPT !.back = u] BY DEF u, Without
<1> QED BY <1>5, <1>6, <1>7, <1>8 DEF u, v

\* xbee_atmode_read_response(): k characters are taken; a response ends with a return, and
\* nothing else takes one.
LEMMA ReadIs ==
    ASSUME NEW I, NEW C, NEW d \in Port(I, C), NEW buffer \in Seq(C)
    PROVE  LET r == Read(d, buffer)
           IN  /\ r.dev \in Port(I, C) /\ r.buffer \in Seq(C)
               /\ r.dev.line = d.line /\ r.dev.asked = d.asked /\ r.dev.baud = d.baud
               /\ r.dev.broken = d.broken /\ r.dev.age = d.age
               /\ r.ret = "ETIMEDOUT" => d.age > AnswerWait
               /\ \E k \in 0 .. Len(d.back) :
                     /\ r.dev.back = SubSeq(d.back, k + 1, Len(d.back))
                     /\ r.ret = "0" => k >= 1 /\ d.back[k].ch = "CR"
                     /\ r.ret # "0" => \A i \in 1 .. k : d.back[i].ch # "CR"
               /\ \/ r.ret = "EPERM" /\ d.mode \notin Awaiting /\ r.dev = d
                  \/ r.ret \in {"ENOSPC", "EAGAIN"} /\ d.mode \in Awaiting /\ r.dev.mode = d.mode
                  \/ /\ r.ret \in {"0", "ETIMEDOUT"} /\ d.mode \in Awaiting
                     /\ r.dev.mode = IF d.mode = "WAIT_IDLE" THEN "IDLE" ELSE "COMMAND"
<1> DEFINE b == d.back
           returns == {i \in 1 .. Len(b) : b[i].ch = "CR"}
           text == IF returns = {} THEN Len(b) ELSE Min(returns) - 1
           room == Max({RespSize - 1 - Len(buffer), 0})
           n == Min({text, room})
           longer == buffer \o SubSeq(b, 1, n)
           left == Without(d, n)
           r == Read(d, buffer)
<1>1. b \in Seq(C) /\ Len(b) \in Nat /\ Len(b) <= RxRoom /\ Len(buffer) \in Nat /\ RespSize \in Nat
  BY LenProperties, AtModeAssumption DEF Port, Device
<1>2. /\ text \in 0 .. Len(b) /\ (returns # {} => text + 1 \in returns)
      /\ \A i \in 1 .. text : b[i].ch # "CR"
  <2>1. CASE returns = {} BY <1>1, <2>1
  <2>2. CASE returns # {}
    <3>1. returns \in SUBSET Nat BY <1>1
    <3> DEFINE m == Min(returns)
    <3>2. m \in returns /\ \A y \in returns : m <= y BY <2>2, <3>1, LeastNumber
    <3>3. text = m - 1 BY <2>2
    <3> HIDE DEF m
    <3>4. m \in 1 .. Len(b) BY <3>2
    <3>5. text + 1 = m BY <3>3, <3>4
    <3>6. text \in 0 .. Len(b) BY <1>1, <3>3, <3>4
    <3>7. \A i \in 1 .. text : b[i].ch # "CR"
      <4> TAKE i \in 1 .. text
      <4>1. i \in 1 .. Len(b) /\ ~(m <= i) BY <1>1, <3>3, <3>4
      <4> QED BY <3>2, <4>1 DEF returns
    <3> QED BY <3>2, <3>5, <3>6, <3>7
  <2> QED BY <2>1, <2>2
<1>3. room \in Int /\ room >= 0
  <2> DEFINE x == RespSize - 1 - Len(buffer)
  <2>1. x \in Int /\ 0 \in Int BY <1>1
  <2> HIDE DEF x
  <2>2. Max({x, 0}) = IF x >= 0 THEN x ELSE 0 BY <2>1, OfTwo
  <2>3. room = Max({x, 0}) BY DEF x
  <2> QED BY <2>1, <2>2, <2>3
<1>4. n \in 0 .. text /\ (text < room => n = text)
  <2> HIDE DEF room, text
  <2>1. n = IF text <= room THEN text ELSE room BY <1>2, <1>3, OfTwo
  <2> QED BY <1>2, <1>3, <2>1
<1>5. n \in 0 .. Len(b) /\ \A i \in 1 .. n : b[i].ch # "CR"
  <2>1. text \in 0 .. Len(b) /\ Len(b) \in Nat /\ n \in 0 .. text BY <1>1, <1>2, <1>4
  <2>2. \A i \in 1 .. text : b[i].ch # "CR" BY <1>2
  <2> HIDE DEF text, n, b
  <2>3. n \in 0 .. Len(b) /\ 1 .. n \subseteq 1 .. text BY <2>1
  <2> QED BY <2>2, <2>3
<1>17. r = CASE d.mode \notin {"WAIT_IDLE", "WAIT_RESPONSE"} -> Response(d, buffer, "EPERM")
             [] d.mode \in {"WAIT_IDLE", "WAIT_RESPONSE"} /\ text >= room ->
                   Response(left, longer, "ENOSPC")
             [] d.mode \in {"WAIT_IDLE", "WAIT_RESPONSE"} /\ text < room /\ returns # {} ->
                   Response([Ended(left) EXCEPT !.back = Tail(@)], longer, "0")
             [] OTHER -> IF d.age > AnswerWait THEN Response(Ended(left), longer, "ETIMEDOUT")
                         ELSE Response(left, longer, "EAGAIN")
  BY DEF Read, Without
<1>18. text \in Int BY <1>1, <1>2
<1> HIDE DEF room, r, text, n, returns, left, longer
<1> DEFINE full == text >= room
<1>19. full <=> ~(text < room) BY <1>3, <1>18
<1>6. d.mode \notin Awaiting => r = Response(d, buffer, "EPERM") BY <1>17 DEF Awaiting
<1>7. d.mode \in Awaiting /\ text >= room => r = Response(left, longer, "ENOSPC")
  BY <1>17, <1>19 DEF Awaiting
<1>8. d.mode \in Awaiting /\ text < room /\ returns # {} =>
         r = Response([Ended(left) EXCEPT !.back = Tail(@)], longer, "0")
  BY <1>17, <1>19 DEF Awaiting
<1>9. d.mode \in Awaiting /\ text < room /\ returns = {} =>
         r = IF d.age > AnswerWait THEN Response(Ended(left), longer, "ETIMEDOUT")
             ELSE Response(left, longer, "EAGAIN")
  BY <1>17, <1>19 DEF Awaiting
<1>10. /\ left \in Port(I, C) /\ left.back = SubSeq(b, n + 1, Len(b)) /\ left.line = d.line
       /\ left.asked = d.asked /\ left.baud = d.baud /\ left.broken = d.broken
       /\ left.mode = d.mode /\ left.age = d.age /\ longer \in Seq(C)
  BY <1>5, TakenFrom DEF left, longer
<1>11. CASE d.mode \notin Awaiting
  <2>1. r = Response(d, buffer, "EPERM") BY <1>6, <1>11
  <2>2. r.dev = d /\ r.buffer = buffer /\ r.ret = "EPERM" BY <2>1 DEF Response
  <2>3. b = SubSeq(b, 0 + 1, Len(b)) BY <1>1, SubSeqFull
  <2>4. 0 \in 0 .. Len(b) BY <1>1
  <2> QED BY <1>11, <2>2, <2>3, <2>4 DEF r
<1>12. CASE d.mode \in Awaiting /\ text >= room
  <2>1. r.dev = left /\ r.buffer = longer /\ r.ret = "ENOSPC" BY <1>7, <1>12 DEF Response
  <2> QED BY <1>5, <1>10, <1>12, <2>1 DEF r
<1>13. CASE d.mode \in Awaiting /\ text < room /\ returns = {} /\ ~(d.age > AnswerWait)
  <2>1. r.dev = left /\ r.buffer = longer /\ r.ret = "EAGAIN" BY <1>9, <1>13 DEF Response
  <2> QED BY <1>5, <1>10, <1>13, <2>1 DEF r
<1>14. /\ d.mode \in Awaiting =>
            /\ Ended(left) \in Port(I, C) /\ SameBut(Ended(left), left)
            /\ Ended(left).mode = IF d.mode = "WAIT_IDLE" THEN "IDLE" ELSE "COMMAND"
            /\ Ended(left).age = d.age
  BY <1>10, EndedIs
<1>15. CASE d.mode \in Awaiting /\ text < room /\ returns = {} /\ d.age > AnswerWait
  <2>1. r.dev = Ended(left) /\ r.buffer = longer /\ r.ret = "ETIMEDOUT" BY <1>9, <1>15 DEF Response
  <2> QED BY <1>5, <1>10, <1>14, <1>15, <2>1 DEF r, SameBut
<1>16. CASE d.mode \in Awaiting /\ text < room /\ returns # {}
  <2> DEFINE e == Ended(left)
             u == SubSeq(b, n + 2, Len(b))
  <2>1. r.dev = [e EXCEPT !.back = Tail(@)] /\ r.buffer = longer /\ r.ret = "0"
    <3> DEFINE f == [e EXCEPT !.back = Tail(@)]
    <3>1. r = Response(f, longer, "0") BY <1>8, <1>16
    <3> HIDE DEF f
    <3>2. r.dev = f /\ r.buffer = longer /\ r.ret = "0" BY <3>1 DEF Response
    <3> QED BY <3>2 DEF f
  <2>2. e \in Port(I, C) /\ SameBut(e, left) /\ e.age = d.age
        /\ e.mode = IF d.mode = "WAIT_IDLE" THEN "IDLE" ELSE "COMMAND"
    BY <1>14, <1>16
  <2>3. n + 1 \in returns BY <1>2, <1>4, <1>16
  <2>4. n + 1 \in 1 .. Len(b) /\ b[n + 1].ch = "CR" BY <2>3 DEF returns
  <2> HIDE DEF e
  <2>5. Tail(left.back) = u
    <3>1. Len(b) \in n + 1 .. Len(b) BY <1>1, <2>4
    <3>2. Tail(SubSeq(b, n + 1, Len(b))) = SubSeq(b, n + 1 + 1, Len(b))
      BY <1>1, <2>4, <3>1, HeadTailOfSubSeq
    <3>3. n + 1 + 1 = n + 2 BY <1>5
    <3> QED BY <1>10, <3>2, <3>3
  <2>6. u \in Seq(C) /\ Len(u) = Len(b) - (n + 1)
    <3> DEFINE k == n + 1
    <3>1. k \in 0 .. Len(b) /\ n + 2 = k + 1 BY <1>1, <1>5, <2>4
    <3> HIDE DEF k
    <3>2. SubSeq(b, k + 1, Len(b)) \in Seq(C) /\ Len(SubSeq(b, k + 1, Len(b))) = Len(b) - k
      BY <1>1, <3>1, Rest
    <3> QED BY <3>1, <3>2 DEF k
  <2>7. Len(u) <= RxRoom
    <3> DEFINE k == Len(u)
               m == Len(b)
    <3>1. k = m - (n + 1) /\ m \in Nat /\ m <= RxRoom /\ n \in 0 .. m BY <1>1, <1>5, <2>6
    <3>2. RxRoom \in Nat BY OemAssumption
    <3> HIDE DEF k, m
    <3>3. k <= RxRoom BY <3>1, <3>2
    <3> QED BY <3>3 DEF k
  <2>8. e.back = left.back BY <2>2 DEF SameBut
  <2>9. r.dev = [e EXCEPT !.back = u] BY <2>1, <2>2, <2>5, <2>8 DEF Port, Device
  <2>10. u = SubSeq(b, (n + 1) + 1, Len(b))
    <3>1. n + 2 = (n + 1) + 1 BY <1>5
    <3> QED BY <3>1
  <2> HIDE DEF u
  <2>11. [e EXCEPT !.back = u] \in Port(I, C) BY <2>2, <2>6, <2>7 DEF Port, Device
  <2>12. /\ r.dev.back = u /\ r.dev.line = e.line /\ r.dev.asked = e.asked /\ r.dev.baud = e.baud
         /\ r.dev.broken = e.broken /\ r.dev.mode = e.mode /\ r.dev.age = e.age
    BY <2>2, <2>9 DEF Port, Device
  <2>13. \E k \in 0 .. Len(b) : u = SubSeq(b, k + 1, Len(b)) /\ k >= 1 /\ b[k].ch = "CR"
    <3>1. n + 1 \in 0 .. Len(b) /\ n + 1 >= 1 BY <1>1, <1>5, <2>4
    <3> QED BY <2>4, <2>10, <3>1
  <2>14. \E k \in 0 .. Len(b) :
            /\ r.dev.back = SubSeq(b, k + 1, Len(b))
            /\ r.ret = "0" => k >= 1 /\ b[k].ch = "CR"
            /\ r.ret # "0" => \A i \in 1 .. k : b[i].ch # "CR"
    <3>1. PICK k \in 0 .. Len(b) : u = SubSeq(b, k + 1, Len(b)) /\ k >= 1 /\ b[k].ch = "CR"
      BY <2>13
    <3>2. r.dev.back = u /\ r.ret = "0" BY <2>1, <2>12
    <3> HIDE DEF b, u, e
    <3>3. r.dev.back = SubSeq(b, k + 1, Len(b)) BY <3>1, <3>2
    <3> QED BY <3>1, <3>2, <3>3
  <2> QED BY <1>10, <1>16, <2>1, <2>2, <2>9, <2>11, <2>12, <2>14 DEF r, SameBut
<1> QED BY <1>11, <1>12, <1>13, <1>15, <1>16, <1>1, <1>2, <1>3

-----------------------------------------------------------------------------
(* The inductive invariant of WholeImage *)

\* A character that could be part of the response to a block comes from the bootloader,
\* which sends it when it has written the block; a block is a block of the image.
Letters(has) == {c \in CharRecord : c.ch \in {"U", "R"} /\ c.of \in 1 .. Blocks => c.of \in has}
Pieces == {i \in Items : i.kind = "data" => i.of \in 1 .. Blocks}

\* The states in which a command was answered.
Answered == {"HV", "COMPAT", "VR", "CF1", "SL", "PROG", "FR"}

\* The tries of a driver that goes on, what is left of a block, and of its response.
Sized(s) ==
    /\ s.ret = "0" => s.tries \in {0} \cup 1 .. Tries
    /\ s.next \in Answered \cup {"INIT"}
    /\ s.state \in {"SENDING", "RX_BLOCK"} => s.block <= Blocks
    /\ s.state = "SENDING" => s.left \in 1 .. Parts
    /\ s.state = "RX_BLOCK" => s.left <= Len(Reply)

\* The blocks before the one that is sent have been written.
Brought(s, r, h) ==
    /\ h.crossed \/ 1 .. s.block - 1 \subseteq r.has
    /\ s.state \in {"FINAL_PROMPT", "SUCCESS"} \/ s.ret = "1" =>
          r.has = 1 .. Blocks \/ h.crossed \/ h.misread

SourceOK(s, has) == s \in SourceRecord /\ s.buffer \in Seq(Letters(has)) /\ Sized(s)
RadioOK(r) == r \in RadioRecord /\ r.got \in Seq(Pieces)

IInv ==
    /\ setup \in SetupRecord /\ idle \in 0 .. MaxGap /\ faults \in 0 .. MaxFault
    /\ SourceOK(source, radio.has)
    /\ dev \in Port(Pieces, Letters(radio.has))
    /\ RadioOK(radio) /\ history \in HistoryRecord
    /\ Brought(source, radio, history)

\* What a step of the program leaves.
Stepped ==
    /\ SourceOK(source', radio.has) /\ dev' \in Port(Pieces, Letters(radio.has))
    /\ RadioOK(radio') /\ radio'.has = radio.has /\ history' \in HistoryRecord
    /\ Brought(source', radio', history')

-----------------------------------------------------------------------------
(* The operators of OemUpdate *)

\* Characters and items that are well formed.
LEMMA Written ==
    ASSUME NEW of \in Nat, NEW has
    PROVE  /\ \A kind \in Commands \cup {"+++", "+", "stale"} : Item(kind, of, 0) \in Pieces
           /\ \A kind \in {"data", "stale"}, part \in Nat :
                 of \in 1 .. Blocks => Item(kind, of, part) \in Pieces
           /\ \A ch \in Texts \cup {"CR", "N", "junk"} : Char(ch, of) \in Letters(has)
           /\ \A ch \in Chars : of = 0 \/ of \in has => Char(ch, of) \in Letters(has)
BY DEF Item, Char, Pieces, Items, Kinds, Letters, CharRecord, Chars, Texts, Commands

\* More blocks written, more characters genuine.
LEMMA LettersGrow ==
    ASSUME NEW has, NEW more, has \subseteq more
    PROVE  Letters(has) \subseteq Letters(more)
BY DEF Letters

\* Of a source, another state or the end of it.
Kin(t, s) ==
    /\ t.buffer = s.buffer /\ t.block = s.block /\ t.bad = s.bad /\ t.next = s.next
    /\ t.tries \in {s.tries, 0} /\ (t.ret = "0" => s.ret = "0")
LEMMA SourceMoves ==
    ASSUME NEW s \in SourceRecord
    PROVE  /\ \A state \in States :
                 /\ Turns(s, state) \in SourceRecord /\ Kin(Turns(s, state), s)
                 /\ Turns(s, state).state = state /\ Turns(s, state).ret = s.ret
                 /\ Turns(s, state).left = s.left
           /\ \A ret \in {"EIO", "EILSEQ", "EBADMSG", "ENOTSUP"} :
                 /\ Fails(s, ret) \in SourceRecord /\ Kin(Fails(s, ret), s)
                 /\ Fails(s, ret).state = "FAILURE" /\ Fails(s, ret).ret = ret
<1>1. ASSUME NEW state \in States
      PROVE  /\ Turns(s, state) \in SourceRecord /\ Kin(Turns(s, state), s)
             /\ Turns(s, state).state = state /\ Turns(s, state).ret = s.ret
             /\ Turns(s, state).left = s.left
  BY DEF SourceRecord, Turns, Kin
<1>2. ASSUME NEW ret \in {"EIO", "EILSEQ", "EBADMSG", "ENOTSUP"}
      PROVE  /\ Fails(s, ret) \in SourceRecord /\ Kin(Fails(s, ret), s)
             /\ Fails(s, ret).state = "FAILURE" /\ Fails(s, ret).ret = ret
  <2>1. "FAILURE" \in States BY DEF States
  <2> QED BY <2>1 DEF SourceRecord, Fails, Kin
<1> QED BY <1>1, <1>2

\* A request.
LEMMA AsksIs ==
    ASSUME NEW has, NEW s, SourceOK(s, has), NEW next \in Answered
    PROVE  /\ SourceOK(Asks(s, next), has) /\ Asks(s, next).block = s.block
           /\ Asks(s, next).state = "PARSE_RESPONSE" /\ Asks(s, next).ret = s.ret
           /\ Asks(s, next).next = next /\ Asks(s, next).buffer = <<>>
           /\ Asks(s, next).bad = s.bad
<1> DEFINE e == <<>>
<1>1. e \in Seq(Letters(has)) /\ e \in Seq(CharRecord) BY EmptySeq
<1>2. Asks(s, next) = [s EXCEPT !.buffer = e, !.state = "PARSE_RESPONSE", !.next = next]
  BY DEF Asks
<1>3. s \in SourceRecord /\ Sized(s) BY DEF SourceOK
<1>4. next \in States /\ "PARSE_RESPONSE" \in States BY DEF Answered, States
<1>5. e = <<>> OBVIOUS
<1> HIDE DEF e
<1>6. /\ Asks(s, next) \in SourceRecord
      /\ Asks(s, next).block = s.block /\ Asks(s, next).bad = s.bad
      /\ Asks(s, next).state = "PARSE_RESPONSE" /\ Asks(s, next).ret = s.ret
      /\ Asks(s, next).next = next /\ Asks(s, next).buffer = e
      /\ Asks(s, next).tries = s.tries
  BY <1>1, <1>2, <1>3, <1>4 DEF SourceRecord
<1>7. Sized(Asks(s, next)) BY <1>3, <1>6 DEF Sized
<1> QED BY <1>1, <1>5, <1>6, <1>7 DEF SourceOK

\* A port that is opened again.
LEMMA OpenedIs ==
    ASSUME NEW I, NEW C, NEW d \in Port(I, C), NEW baud \in {"slow", "fast", "boot"}
    PROVE  LET o == Opened(d, baud)
           IN  /\ o \in Port(I, C) /\ o.mode = d.mode /\ o.asked = d.asked
               /\ o.line \in {d.line, <<>>} /\ o.back \in {d.back, <<>>}
<1> DEFINE e == <<>>
<1>1. e \in Seq(I) /\ e \in Seq(C) /\ Len(e) = 0 BY EmptySeq
<1>2. Room \in Nat /\ RxRoom \in Nat BY AtModeAssumption, OemAssumption
<1>3. CASE setup.opens
  <2>1. Opened(d, baud) = [d EXCEPT !.baud = baud, !.broken = FALSE, !.line = e, !.back = e]
    BY <1>3 DEF Opened
  <2>2. e = <<>> OBVIOUS
  <2>5. Len(e) <= Room /\ Len(e) <= RxRoom BY <1>1, <1>2
  <2> HIDE DEF e
  <2>6. /\ d \in Device(Waited, I, C) /\ FALSE \in BOOLEAN
        /\ baud \in {"slow", "fast", "boot"} BY DEF Port
  <2> DEFINE o == [d EXCEPT !.baud = baud, !.broken = FALSE, !.line = e, !.back = e]
  <2>7. o \in Device(Waited, I, C) /\ o.line = e /\ o.back = e BY <1>1, <2>6 DEF Device
  <2>3. Opened(d, baud) \in Port(I, C)
    <3> HIDE DEF o
    <3> QED BY <2>1, <2>5, <2>7 DEF Port, o
  <2>4. /\ Opened(d, baud).mode = d.mode /\ Opened(d, baud).asked = d.asked
        /\ Opened(d, baud).line = e /\ Opened(d, baud).back = e
    BY <2>1 DEF Port, Device
  <2> QED BY <2>2, <2>3, <2>4
<1>4. CASE ~setup.opens
  <2>1. Opened(d, baud) = [d EXCEPT !.baud = baud] BY <1>4 DEF Opened
  <2> QED BY <2>1 DEF Port, Device
<1> QED BY <1>3, <1>4

\* A step that takes nothing as brought keeps what has been said of the image.
LEMMA StaysBrought ==
    ASSUME NEW s, NEW r, NEW h, Brought(s, r, h), NEW t, NEW k,
           t.block = s.block, t.state \notin {"FINAL_PROMPT", "SUCCESS"}, t.ret # "1",
           h.crossed => k.crossed
    PROVE  Brought(t, r, k)
BY DEF Brought

\* A step that changes the source only.
LEMMA SourceSteps ==
    ASSUME IInv, UNCHANGED <<dev, radio>>, history' \in HistoryRecord,
           history.crossed => history'.crossed,
           NEW t, source' = t, SourceOK(t, radio.has), t.block = source.block,
           t.state \notin {"FINAL_PROMPT", "SUCCESS"}, t.ret # "1"
    PROVE  Stepped
BY StaysBrought DEF IInv, Stepped

\* A step that changes source and device.
LEMMA DriverSteps ==
    ASSUME IInv, UNCHANGED radio, history' \in HistoryRecord,
           history.crossed => history'.crossed,
           NEW t, source' = t, SourceOK(t, radio.has), t.block = source.block,
           t.state \notin {"FINAL_PROMPT", "SUCCESS"}, t.ret # "1",
           dev' \in Port(Pieces, Letters(radio.has))
    PROVE  Stepped
BY StaysBrought DEF IInv, Stepped

\* The device may be told anything that the driver asks for.
LEMMA MayBeTold ==
    ASSUME IInv
    PROVE  /\ dev.asked \in Nat /\ radio.has \subseteq 1 .. Blocks /\ radio.has \subseteq Nat
           /\ Item("+++", dev.asked, 0) \in Pieces
           /\ \A command \in Commands : Item(command, dev.asked + 1, 0) \in Pieces
<1>1. dev.asked \in Nat BY DEF IInv, Port, Device
<1>2. dev.asked + 1 \in Nat BY <1>1
<1>3. radio.has \subseteq 1 .. Blocks BY DEF IInv, RadioOK, RadioRecord
<1>4. Blocks \in Nat BY OemAssumption
<1> QED BY <1>1, <1>2, <1>3, <1>4, Written

-----------------------------------------------------------------------------
(* The steps of the driver *)

\* A step that only goes to another state, or fails.
LEMMA PlainSteps ==
    ASSUME IInv, UNCHANGED <<dev, radio>>, source.ret = "0", history' \in HistoryRecord,
           history.crossed => history'.crossed,
           NEW t \in SourceRecord, Kin(t, source), source' = t,
           t.ret # "1", t.state \notin {"SENDING", "RX_BLOCK", "FINAL_PROMPT", "SUCCESS"}
    PROVE  Stepped
<1>1. SourceOK(t, radio.has) BY DEF IInv, SourceOK, Sized, Kin
<1> QED BY <1>1, SourceSteps DEF Kin

\* A step that asks for the next register.
LEMMA AskingSteps ==
    ASSUME IInv, NEW command \in Commands, NEW next \in Answered, source.ret = "0",
           Asking(command, next)
    PROVE  Stepped
<1>1. Requested(dev, command) \in Port(Pieces, Letters(radio.has))
  BY MayBeTold, RequestedIs DEF IInv
<1>2. SourceOK(source, radio.has) /\ history \in HistoryRecord BY DEF IInv
<1> DEFINE t == Asks(source, next)
<1>3. SourceOK(t, radio.has) /\ t.block = source.block /\ t.state = "PARSE_RESPONSE" /\ t.ret = source.ret
  BY <1>2, AsksIs
<1>4. source' = t /\ dev' = Requested(dev, command) /\ UNCHANGED <<radio, history>> BY DEF Asking
<1> HIDE DEF t
<1> QED BY <1>1, <1>2, <1>3, <1>4, DriverSteps

\* The device in the source's own state.
LEMMA InstallType ==
    ASSUME IInv
    PROVE  /\ source \in SourceRecord /\ history \in HistoryRecord
           /\ SourceOK(source, radio.has) /\ Sized(source)
           /\ dev \in Port(Pieces, Letters(radio.has)) /\ RadioOK(radio) /\ radio \in RadioRecord
BY DEF IInv, SourceOK, RadioOK

\* What GivenUp and Accepted leave.
LEMMA HistoryGrows ==
    ASSUME IInv
    PROVE  /\ GivenUp(dev) \in HistoryRecord /\ GivenUp(dev).crossed = history.crossed
           /\ \A r : /\ Accepted(dev, r) \in HistoryRecord
                     /\ history.crossed => Accepted(dev, r).crossed
           /\ [history EXCEPT !.missed = TRUE] \in HistoryRecord
           /\ [history EXCEPT !.missed = TRUE].crossed = history.crossed
<1>1. history \in HistoryRecord BY DEF IInv
<1>2. \A a \in BOOLEAN : /\ [history EXCEPT !.missed = a] \in HistoryRecord
                         /\ [history EXCEPT !.missed = a].crossed = history.crossed
  BY <1>1 DEF HistoryRecord
<1>3. GivenUp(dev) \in HistoryRecord /\ GivenUp(dev).crossed = history.crossed
  <2> DEFINE t == Ticked(dev)
             a == history.missed \/ (dev.mode = "POST_ESCAPE" /\ t.mode = "IDLE")
                     \/ (dev.mode \in {"WAIT_RESPONSE", "WAIT_IDLE"} /\ t.mode # dev.mode)
  <2>1. a \in BOOLEAN OBVIOUS
  <2>2. GivenUp(dev) = [history EXCEPT !.missed = a] BY DEF GivenUp
  <2> HIDE DEF a
  <2> QED BY <1>2, <2>1, <2>2
<1>4. ASSUME NEW r PROVE /\ Accepted(dev, r) \in HistoryRecord
                         /\ history.crossed => Accepted(dev, r).crossed
  <2> DEFINE taken == r.buffer \o SubSeq(dev.back, 1, Len(dev.back) - Len(r.dev.back))
             a == history.crossed \/ \E i \in 1 .. Len(taken) : taken[i].of # dev.asked
  <2>1. a \in BOOLEAN /\ (history.crossed => a) OBVIOUS
  <2>2. Accepted(dev, r) = [history EXCEPT !.crossed = a] BY DEF Accepted
  <2> HIDE DEF a
  <2>3. [history EXCEPT !.crossed = a] \in HistoryRecord /\ [history EXCEPT !.crossed = a].crossed = a
    BY <1>1, <2>1 DEF HistoryRecord
  <2> QED BY <2>1, <2>2, <2>3
<1> QED BY <1>2, <1>3, <1>4

LEMMA VerifySteps ==
    ASSUME IInv, Verify
    PROVE  Stepped
<1>1. source.ret = "0" /\ UNCHANGED <<dev, radio, history>> BY DEF Verify, Running
<1>2. source \in SourceRecord /\ history \in HistoryRecord BY InstallType
<1>3. CASE ~source.bad /\ setup.file = "good" /\ source' = [Turns(source, "RESET") EXCEPT !.tries = 0]
  <2> DEFINE t == [Turns(source, "RESET") EXCEPT !.tries = 0]
  <2>1. "RESET" \in States BY DEF States
  <2>2. Turns(source, "RESET") \in SourceRecord /\ Kin(Turns(source, "RESET"), source)
        /\ Turns(source, "RESET").state = "RESET" /\ Turns(source, "RESET").ret = "0"
    BY <1>1, <1>2, <2>1, SourceMoves
  <2>3. 0 \in 0 .. Tries + 1 BY OemAssumption
  <2>4. t \in SourceRecord /\ Kin(t, source) /\ t.state = "RESET" /\ t.ret = "0"
    BY <2>2, <2>3 DEF SourceRecord, Kin
  <2> HIDE DEF t
  <2> QED BY <1>1, <1>2, <1>3, <2>4, PlainSteps DEF t
<1>4. ASSUME NEW ret \in {"EIO", "EILSEQ", "EBADMSG"}, source' = Fails(source, ret) PROVE Stepped
  <2>1. ret \in {"EIO", "EILSEQ", "EBADMSG", "ENOTSUP"} /\ ret # "1" OBVIOUS
  <2>2. Fails(source, ret) \in SourceRecord /\ Kin(Fails(source, ret), source)
        /\ Fails(source, ret).state = "FAILURE" /\ Fails(source, ret).ret = ret
    BY <1>2, <2>1, SourceMoves
  <2> QED BY <1>1, <1>2, <1>4, <2>1, <2>2, PlainSteps
<1>5. setup.file \in {"good", "EILSEQ", "EBADMSG"} BY DEF IInv, SetupRecord
<1> QED BY <1>3, <1>4, <1>5 DEF Verify

LEMMA ResetSteps ==
    ASSUME IInv, Reset
    PROVE  Stepped
<1> DEFINE baud == IF source.tries = 0 THEN "fast" ELSE "slow"
           o == Opened(dev, baud)
           t == Turns(source, "CMD_PENDING")
<1>1. source.ret = "0" /\ UNCHANGED <<radio, history>> /\ dev' = Entered(o) /\ source' = t
  BY DEF Reset, Running
<1>2. SourceOK(source, radio.has) /\ dev \in Port(Pieces, Letters(radio.has)) BY InstallType
<1>3. baud \in {"slow", "fast", "boot"} OBVIOUS
<1> HIDE DEF baud
<1>4. o \in Port(Pieces, Letters(radio.has)) /\ o.asked = dev.asked BY <1>2, <1>3, OpenedIs
<1> HIDE DEF o
<1>5. Item("+++", o.asked, 0) \in Pieces BY <1>4, MayBeTold
<1>6. Entered(o) \in Port(Pieces, Letters(radio.has)) BY <1>4, <1>5, EnteredIs
<1>7. "CMD_PENDING" \in States BY DEF States
<1>8. t \in SourceRecord /\ Kin(t, source) /\ t.state = "CMD_PENDING" /\ t.ret = "0"
  BY <1>1, <1>2, <1>7, SourceMoves DEF SourceOK
<1> HIDE DEF t
<1>9. SourceOK(t, radio.has) BY <1>2, <1>8 DEF SourceOK, Sized, Kin
<1>10. history' \in HistoryRecord BY <1>1, InstallType
<1> QED BY <1>1, <1>6, <1>8, <1>9, <1>10, DriverSteps DEF Kin

LEMMA CmdPendingSteps ==
    ASSUME IInv, CmdPending
    PROVE  Stepped
<1> DEFINE u == Ticked(dev)
<1>1. source.ret = "0" /\ UNCHANGED radio /\ history' = GivenUp(dev) BY DEF CmdPending, Running
<1>2. SourceOK(source, radio.has) /\ source \in SourceRecord /\ dev \in Port(Pieces, Letters(radio.has))
  BY InstallType
<1>3. u \in Port(Pieces, Letters(radio.has)) /\ u.asked = dev.asked BY <1>2, MayBeTold, TickedIs
<1>4. history' \in HistoryRecord /\ history'.crossed = history.crossed BY <1>1, HistoryGrows
<1>5. \/ source' = Asks(source, "HV") /\ dev' = Requested(u, "HV")
      \/ source' = Retries(source) /\ dev' = u
      \/ source' = source /\ dev' = u
  BY DEF CmdPending
<1> HIDE DEF u
<1>6. CASE source' = Asks(source, "HV") /\ dev' = Requested(u, "HV")
  <2>1. "HV" \in Answered /\ "HV" \in Commands BY DEF Answered, Commands
  <2>2. Item("HV", u.asked + 1, 0) \in Pieces BY <1>3, <2>1, MayBeTold
  <2>3. Requested(u, "HV") \in Port(Pieces, Letters(radio.has)) BY <1>3, <2>2, RequestedIs
  <2> DEFINE t == Asks(source, "HV")
  <2>4. SourceOK(t, radio.has) /\ t.block = source.block /\ t.state = "PARSE_RESPONSE"
        /\ t.ret = source.ret
    BY <1>2, <2>1, AsksIs
  <2> HIDE DEF t
  <2> QED BY <1>1, <1>4, <1>6, <2>3, <2>4, DriverSteps DEF t
<1>7. CASE source' = Retries(source) /\ dev' = u
  <2> DEFINE t == Retries(source)
  <2>1. /\ t \in SourceRecord /\ t.state \in {"RESET", "FAILURE"} /\ t.ret \in {"0", "EIO"}
        /\ t.buffer = source.buffer /\ t.block = source.block /\ t.next = source.next
        /\ (t.ret = "0" => t.tries \in 1 .. Tries)
    <3>1. CASE source.tries = 0
      <4>1. t = [Turns(source, "RESET") EXCEPT !.tries = 1] BY <3>1 DEF Retries
      <4>2. "RESET" \in States BY DEF States
      <4>3. Turns(source, "RESET") \in SourceRecord /\ Kin(Turns(source, "RESET"), source)
            /\ Turns(source, "RESET").state = "RESET" /\ Turns(source, "RESET").ret = "0"
        BY <1>1, <1>2, <4>2, SourceMoves
      <4>4. 1 \in 0 .. Tries + 1 /\ 1 \in 1 .. Tries BY OemAssumption
      <4> DEFINE s == Turns(source, "RESET")
      <4>5. s \in SourceRecord /\ Kin(s, source) /\ s.state = "RESET" /\ s.ret = "0" BY <4>3
      <4>6. t = [s EXCEPT !.tries = 1] BY <4>1
      <4> HIDE DEF s, t
      <4> QED BY <4>4, <4>5, <4>6 DEF SourceRecord, Kin
    <3>2. CASE source.tries # 0
      <4>1. t = Fails(source, "EIO") BY <3>2 DEF Retries
      <4> HIDE DEF t
      <4>2. /\ Fails(source, "EIO") \in SourceRecord /\ Kin(Fails(source, "EIO"), source)
            /\ Fails(source, "EIO").state = "FAILURE" /\ Fails(source, "EIO").ret = "EIO"
        BY <1>2, SourceMoves
      <4> QED BY <4>1, <4>2 DEF Kin
    <3> QED BY <3>1, <3>2
  <2> HIDE DEF t
  <2>2. SourceOK(t, radio.has) BY <1>2, <2>1 DEF SourceOK, Sized
  <2> QED BY <1>1, <1>3, <1>4, <1>7, <2>1, <2>2, DriverSteps DEF t
<1>8. CASE source' = source /\ dev' = u
  <2>1. \A r : Brought(source, radio, history) /\ r.crossed = history.crossed /\ r.misread = history.misread
                  => Brought(source, radio, r)
    BY DEF Brought
  <2>2. history'.misread = history.misread
    BY <1>1, InstallType DEF GivenUp, HistoryRecord
  <2>3. Brought(source', radio', history') BY <1>1, <1>4, <1>8, <2>1, <2>2 DEF IInv
  <2> QED BY <1>1, <1>2, <1>3, <1>4, <1>8, <2>3, InstallType DEF Stepped
<1> QED BY <1>5, <1>6, <1>7, <1>8

LEMMA ParseResponseSteps ==
    ASSUME IInv, ParseResponse
    PROVE  Stepped
<1> DEFINE r == Read(dev, source.buffer)
           C == Letters(radio.has)
           s == [source EXCEPT !.buffer = r.buffer]
<1>1. source.ret = "0" /\ UNCHANGED radio /\ dev' = r.dev BY DEF ParseResponse, Running
<1>2. source \in SourceRecord /\ source.buffer \in Seq(C) /\ Sized(source) /\ dev \in Port(Pieces, C)
  BY InstallType DEF SourceOK
<1>3. r.dev \in Port(Pieces, C) /\ r.buffer \in Seq(C) BY <1>2, ReadIs
<1>4. \/ source' = Turns(s, source.next) \/ source' = s \/ source' = Fails(s, "EIO")
  BY DEF ParseResponse
<1>5. history' \in HistoryRecord /\ (history.crossed => history'.crossed)
  <2>1. history' = Accepted(dev, r) \/ history' = history BY DEF ParseResponse
  <2> HIDE DEF r
  <2> QED BY <2>1, HistoryGrows, InstallType
<1>6. C \subseteq CharRecord BY DEF Letters
<1>7. r.buffer \in Seq(CharRecord) BY <1>3, <1>6, SeqMonotonic
<1> HIDE DEF r, C
<1>8. /\ s \in SourceRecord /\ s.buffer = r.buffer /\ s.block = source.block /\ s.bad = source.bad
      /\ s.next = source.next /\ s.state = source.state /\ s.left = source.left /\ s.ret = "0"
      /\ s.tries = source.tries
  BY <1>1, <1>2, <1>7 DEF SourceRecord
<1>9. source.state = "PARSE_RESPONSE" BY DEF ParseResponse, Running
<1> HIDE DEF s
<1>10. ASSUME NEW t \in SourceRecord, Kin(t, s), source' = t, t.ret # "1",
              t.state \notin {"SENDING", "RX_BLOCK", "FINAL_PROMPT", "SUCCESS"}
       PROVE  Stepped
  <2>1. SourceOK(t, radio.has) BY <1>1, <1>2, <1>3, <1>8, <1>10 DEF SourceOK, Sized, Kin, C
  <2>2. t.block = source.block BY <1>8, <1>10 DEF Kin
  <2> QED BY <1>1, <1>3, <1>5, <1>10, <2>1, <2>2, DriverSteps DEF C
<1>11. CASE source' = Turns(s, source.next)
  <2>1. source.next \in States /\ source.next \in Answered \cup {"INIT"}
    BY <1>2 DEF Sized, Answered, States
  <2>2. Turns(s, source.next) \in SourceRecord /\ Kin(Turns(s, source.next), s)
        /\ Turns(s, source.next).state = source.next /\ Turns(s, source.next).ret = "0"
    BY <1>8, <2>1, SourceMoves
  <2>3. source.next \notin {"SENDING", "RX_BLOCK", "FINAL_PROMPT", "SUCCESS"} BY <2>1 DEF Answered
  <2> QED BY <1>10, <1>11, <2>2, <2>3
<1>12. CASE source' = s BY <1>8, <1>9, <1>10, <1>12 DEF Kin
<1>13. CASE source' = Fails(s, "EIO")
  <2>1. Fails(s, "EIO") \in SourceRecord /\ Kin(Fails(s, "EIO"), s)
        /\ Fails(s, "EIO").state = "FAILURE" /\ Fails(s, "EIO").ret = "EIO"
    BY <1>8, SourceMoves
  <2> QED BY <1>10, <1>13, <2>1
<1> QED BY <1>4, <1>11, <1>12, <1>13

LEMMA NotSupportedSteps ==
    ASSUME IInv, NEW state \in Answered, NotSupported(state)
    PROVE  Stepped
<1> DEFINE t == [source EXCEPT !.ret = "ENOTSUP"]
<1>1. source.ret = "0" /\ source.state = state /\ UNCHANGED <<dev, radio, history>> /\ source' = t
  BY DEF NotSupported, Running
<1>2. source \in SourceRecord /\ history \in HistoryRecord BY InstallType
<1>3. t \in SourceRecord /\ Kin(t, source) /\ t.ret = "ENOTSUP" /\ t.state = state
  BY <1>1, <1>2 DEF SourceRecord, Kin
<1>4. state \notin {"SENDING", "RX_BLOCK", "FINAL_PROMPT", "SUCCESS"} BY DEF Answered
<1> HIDE DEF t
<1> QED BY <1>1, <1>2, <1>3, <1>4, PlainSteps

LEMMA QuestionSteps ==
    ASSUME IInv,
           \/ HardwareVersion \/ Compatibility \/ Version \/ SerialFormat \/ SerialNumber
           \/ NotProgramming
    PROVE  Stepped
<1>1. source.ret = "0"
  BY DEF HardwareVersion, Compatibility, Version, SerialFormat, SerialNumber, NotProgramming, Running
<1>2. \E command \in Commands, next \in Answered : Asking(command, next)
  <2>1. /\ "%C" \in Commands /\ "VR" \in Commands /\ "CF1" \in Commands /\ "SL" \in Commands
        /\ "%P" \in Commands /\ "FR" \in Commands
    BY DEF Commands
  <2>2. /\ "COMPAT" \in Answered /\ "VR" \in Answered /\ "CF1" \in Answered /\ "SL" \in Answered
        /\ "PROG" \in Answered /\ "FR" \in Answered
    BY DEF Answered
  <2> QED BY <2>1, <2>2
      DEF HardwareVersion, Compatibility, Version, SerialFormat, SerialNumber, NotProgramming
<1> QED BY <1>1, <1>2, AskingSteps

LEMMA ProgrammingSteps ==
    ASSUME IInv, Programming
    PROVE  Stepped
<1>1. source.ret = "0" /\ UNCHANGED <<dev, radio, history>> /\ source' = Turns(source, "BOOTLOADER")
  BY DEF Programming, Running
<1>2. source \in SourceRecord /\ history \in HistoryRecord BY InstallType
<1>3. "BOOTLOADER" \in States BY DEF States
<1> DEFINE t == Turns(source, "BOOTLOADER")
<1>4. t \in SourceRecord /\ Kin(t, source) /\ t.state = "BOOTLOADER" /\ t.ret = "0"
  BY <1>1, <1>2, <1>3, SourceMoves
<1> HIDE DEF t
<1> QED BY <1>1, <1>2, <1>4, PlainSteps DEF t

LEMMA BreakSteps ==
    ASSUME IInv, Break
    PROVE  Stepped
<1> DEFINE t == [Turns(source, "BREAK") EXCEPT !.timer = 0]
           d == [dev EXCEPT !.broken = TRUE]
           s == Turns(source, "BREAK")
<1>1. source.ret = "0" /\ UNCHANGED <<radio, history>> /\ source' = t /\ dev' = d
  BY DEF Break, Running
<1>2. SourceOK(source, radio.has) /\ dev \in Port(Pieces, Letters(radio.has)) /\ history \in HistoryRecord
  BY InstallType
<1>3. "BREAK" \in States /\ 0 \in Waited BY WaitedCounts DEF States
<1>4. s \in SourceRecord /\ Kin(s, source) /\ s.state = "BREAK" /\ s.ret = "0"
  BY <1>1, <1>2, <1>3, SourceMoves DEF SourceOK
<1>5. t = [s EXCEPT !.timer = 0] OBVIOUS
<1> HIDE DEF s, t
<1>6. t \in SourceRecord /\ Kin(t, source) /\ t.state = "BREAK" /\ t.ret = "0"
  BY <1>3, <1>4, <1>5 DEF SourceRecord, Kin
<1>7. SourceOK(t, radio.has) BY <1>2, <1>6 DEF SourceOK, Sized, Kin
<1>8. d \in Port(Pieces, Letters(radio.has)) BY <1>2 DEF Port, Device
<1> HIDE DEF d
<1> QED BY <1>1, <1>2, <1>6, <1>7, <1>8, DriverSteps DEF Kin

\* A step of the driver that changes nothing.
LEMMA IdleSteps ==
    ASSUME IInv, UNCHANGED <<source, dev, radio, history>>
    PROVE  Stepped
BY InstallType DEF IInv, Stepped

\* A character is read.
LEMMA LeftIs ==
    ASSUME NEW I, NEW C, NEW d \in Port(I, C)
    PROVE  /\ Left(d) \in Port(I, C) /\ Left(d).line = d.line /\ Left(d).mode = d.mode
           /\ Left(d).back = IF d.back = <<>> THEN <<>> ELSE Tail(d.back)
<1>1. d.back \in Seq(C) /\ Len(d.back) <= RxRoom /\ RxRoom \in Nat BY OemAssumption DEF Port, Device
<1>2. CASE d.back = <<>> BY <1>2 DEF Left
<1>3. CASE d.back # <<>>
  <2> DEFINE u == Tail(d.back)
  <2>1. u \in Seq(C) /\ Len(u) = Len(d.back) - 1 /\ Len(d.back) \in Nat
    BY <1>1, <1>3, HeadTailProperties, LenProperties
  <2>2. Left(d) = [d EXCEPT !.back = u] BY <1>3 DEF Left
  <2> HIDE DEF u
  <2>3. Len(u) <= RxRoom BY <1>1, <2>1
  <2>4. [d EXCEPT !.back = u] \in Port(I, C) BY <2>1, <2>3 DEF Port, Device
  <2>5. [d EXCEPT !.back = u].line = d.line /\ [d EXCEPT !.back = u].back = u
        /\ [d EXCEPT !.back = u].mode = d.mode
    BY DEF Port, Device
  <2> QED BY <1>3, <2>2, <2>4, <2>5 DEF u
<1> QED BY <1>2, <1>3

\* The first answer of the bootloader is waited for, from any timer.
LEMMA TxStartSteps ==
    ASSUME IInv, source.ret = "0", NEW s \in SourceRecord, Kin(s, source), s.ret = "0",
           NEW d \in Port(Pieces, Letters(radio.has)), TxStart(s, d)
    PROVE  Stepped
<1> DEFINE t == CASE Got(d) = "none" /\ s.timer <= PlusWait -> Turns(s, "TX_START")
                  [] Got(d) \in {"U", "N"} -> [Turns(s, "TX_BLOCK") EXCEPT !.tries = 0, !.block = 1]
                  [] OTHER -> Fails(s, "EIO")
<1>1. source' = t /\ dev' = Left(d) /\ UNCHANGED <<radio, history>> BY DEF TxStart
<1>2. Left(d) \in Port(Pieces, Letters(radio.has)) BY LeftIs
<1>3. SourceOK(source, radio.has) /\ history \in HistoryRecord BY InstallType
<1>4. \/ t = Turns(s, "TX_START") \/ t = [Turns(s, "TX_BLOCK") EXCEPT !.tries = 0, !.block = 1]
      \/ t = Fails(s, "EIO")
  OBVIOUS
<1> HIDE DEF t
<1>5. "TX_START" \in States /\ "TX_BLOCK" \in States BY DEF States
<1>6. ASSUME NEW u \in SourceRecord, Kin(u, source), t = u, u.ret # "1",
             u.state \notin {"SENDING", "RX_BLOCK", "FINAL_PROMPT", "SUCCESS"}
      PROVE  Stepped
  <2>1. SourceOK(u, radio.has) BY <1>3, <1>6 DEF SourceOK, Sized, Kin
  <2> QED BY <1>1, <1>2, <1>3, <1>6, <2>1, DriverSteps DEF Kin
<1>7. CASE t = Turns(s, "TX_START")
  <2>1. Turns(s, "TX_START") \in SourceRecord /\ Kin(Turns(s, "TX_START"), s)
        /\ Turns(s, "TX_START").state = "TX_START" /\ Turns(s, "TX_START").ret = "0"
    BY <1>5, SourceMoves
  <2> QED BY <1>6, <1>7, <2>1 DEF Kin
<1>8. CASE t = Fails(s, "EIO")
  <2>1. Fails(s, "EIO") \in SourceRecord /\ Kin(Fails(s, "EIO"), s)
        /\ Fails(s, "EIO").state = "FAILURE" /\ Fails(s, "EIO").ret = "EIO"
    BY SourceMoves
  <2> QED BY <1>6, <1>8, <2>1 DEF Kin
<1>9. CASE t = [Turns(s, "TX_BLOCK") EXCEPT !.tries = 0, !.block = 1]
  <2> DEFINE u == Turns(s, "TX_BLOCK")
  <2>1. u \in SourceRecord /\ Kin(u, s) /\ u.state = "TX_BLOCK" /\ u.ret = "0" BY <1>5, SourceMoves
  <2>2. t = [u EXCEPT !.tries = 0, !.block = 1] BY <1>9
  <2> HIDE DEF u
  <2>3. 0 \in 0 .. Tries + 1 /\ 1 \in 1 .. Blocks + 1 BY OemAssumption
  <2>4. /\ t \in SourceRecord /\ t.buffer = u.buffer /\ t.next = u.next /\ t.block = 1
        /\ t.tries = 0 /\ t.state = "TX_BLOCK" /\ t.ret = "0"
    BY <2>1, <2>2, <2>3 DEF SourceRecord
  <2>5. SourceOK(t, radio.has) BY <1>3, <2>1, <2>4 DEF SourceOK, Sized, Kin
  <2>6. Brought(t, radio, history)
    <3>1. 1 .. t.block - 1 = {} BY <2>4
    <3> QED BY <2>4, <3>1 DEF Brought
  <2> QED BY <1>1, <1>2, <1>3, <2>5, <2>6, InstallType DEF Stepped
<1> QED BY <1>4, <1>7, <1>8, <1>9

LEMMA BootloaderSteps ==
    ASSUME IInv, Bootloader
    PROVE  Stepped
<1>1. source.ret = "0" BY DEF Bootloader, Running
<1>2. source \in SourceRecord /\ dev \in Port(Pieces, Letters(radio.has)) BY InstallType
<1>3. PICK timer \in Timers :
         TxStart([source EXCEPT !.timer = timer], Write(Opened(dev, "boot"), Item("+", 0, 0)))
  BY DEF Bootloader
<1> DEFINE o == Opened(dev, "boot")
           s == [source EXCEPT !.timer = timer]
           d == Write(o, Item("+", 0, 0))
<1>4. o \in Port(Pieces, Letters(radio.has)) BY <1>2, OpenedIs
<1>5. Item("+", 0, 0) \in Pieces BY Written
<1> HIDE DEF o
<1>6. d \in Port(Pieces, Letters(radio.has)) BY <1>4, <1>5, WriteIs
<1>7. timer \in Waited \cup {Unset}
  <2>1. source.timer \in Waited \cup {Unset} BY <1>2 DEF SourceRecord
  <2>2. timer \in 0 .. PlusWait + 1 \/ timer = source.timer BY DEF Timers
  <2> QED BY <2>1, <2>2, WaitedCounts
<1>8. s \in SourceRecord /\ Kin(s, source) /\ s.ret = "0" BY <1>1, <1>2, <1>7 DEF SourceRecord, Kin
<1>9. TxStart(s, d) BY <1>3 DEF o
<1> HIDE DEF s, d
<1> QED BY <1>1, <1>6, <1>8, <1>9, TxStartSteps

LEMMA AwaitsBootloaderSteps ==
    ASSUME IInv, AwaitsBootloader
    PROVE  Stepped
<1>1. source.ret = "0" /\ TxStart(source, dev) BY DEF AwaitsBootloader, Running
<1>2. source \in SourceRecord /\ dev \in Port(Pieces, Letters(radio.has)) /\ Kin(source, source)
  BY InstallType DEF Kin
<1> QED BY <1>1, <1>2, TxStartSteps

LEMMA TxBlockSteps ==
    ASSUME IInv, TxBlock
    PROVE  Stepped
<1> DEFINE u == Turns(source, "SENDING")
           t == [u EXCEPT !.left = Parts]
<1>1. source.ret = "0" /\ UNCHANGED <<dev, radio, history>> /\ source' = t /\ source.block <= Blocks
  BY DEF TxBlock, Running
<1>2. SourceOK(source, radio.has) /\ history \in HistoryRecord BY InstallType
<1>3. "SENDING" \in States BY DEF States
<1>4. u \in SourceRecord /\ Kin(u, source) /\ u.state = "SENDING" /\ u.ret = "0"
  BY <1>1, <1>2, <1>3, SourceMoves DEF SourceOK
<1> HIDE DEF u
<1>5. Parts \in Nat \ {0} BY OemAssumption
<1>6. t \in SourceRecord /\ Kin(t, source) /\ t.state = "SENDING" /\ t.ret = "0" /\ t.left = Parts
  BY <1>4, <1>5 DEF SourceRecord, Kin
<1> HIDE DEF t
<1>7. t.left \in 1 .. Parts /\ t.block <= Blocks BY <1>1, <1>5, <1>6 DEF Kin
<1>8. SourceOK(t, radio.has) BY <1>2, <1>6, <1>7 DEF SourceOK, Sized, Kin
<1> QED BY <1>1, <1>2, <1>6, <1>8, SourceSteps DEF Kin

\* The end of the image: every block before this one has been written.
LEMMA EndOfImageSteps ==
    ASSUME IInv, EndOfImage
    PROVE  Stepped
<1> DEFINE u == Turns(source, "FINAL_PROMPT")
           t == [u EXCEPT !.timer = 0]
           o == Opened(dev, "slow")
           k == [history EXCEPT !.misread = @ \/ source.block <= Blocks]
           e == <<>>
           r == [radio EXCEPT !.phase = IF dev.broken THEN "boot" ELSE "app", !.got = e]
<1>1. source.ret = "0" /\ source' = t /\ dev' = Goes(o, "UNKNOWN") /\ radio' = r /\ history' = k
  BY DEF EndOfImage, Running
<1>2. SourceOK(source, radio.has) /\ source \in SourceRecord /\ history \in HistoryRecord
      /\ dev \in Port(Pieces, Letters(radio.has)) /\ RadioOK(radio) /\ radio \in RadioRecord
  BY InstallType
<1>3. "FINAL_PROMPT" \in States /\ "UNKNOWN" \in Modes /\ 0 \in Waited
  BY WaitedCounts DEF States, Modes
<1>4. u \in SourceRecord /\ Kin(u, source) /\ u.state = "FINAL_PROMPT" /\ u.ret = "0"
  BY <1>1, <1>2, <1>3, SourceMoves
<1> HIDE DEF u
<1>5. t \in SourceRecord /\ Kin(t, source) /\ t.state = "FINAL_PROMPT" /\ t.ret = "0"
  BY <1>3, <1>4 DEF SourceRecord, Kin
<1> HIDE DEF t
<1>6. SourceOK(t, radio.has) BY <1>2, <1>5 DEF SourceOK, Sized, Kin
<1>7. o \in Port(Pieces, Letters(radio.has)) BY <1>2, OpenedIs
<1> HIDE DEF o
<1>8. Goes(o, "UNKNOWN") \in Port(Pieces, Letters(radio.has)) BY <1>3, <1>7, ModeChanges
<1>9. e \in Seq(Items) /\ e \in Seq(Pieces) BY EmptySeq
<1> HIDE DEF e
<1>10. RadioOK(r) /\ r.has = radio.has
  <2>1. (IF dev.broken THEN "boot" ELSE "app") \in {"app", "escaped", "command", "resetting", "boot"}
    OBVIOUS
  <2> DEFINE p == IF dev.broken THEN "boot" ELSE "app"
  <2>2. p \in {"app", "escaped", "command", "resetting", "boot"} BY <2>1
  <2> HIDE DEF p
  <2>3. [radio EXCEPT !.phase = p, !.got = e] \in RadioRecord
        /\ [radio EXCEPT !.phase = p, !.got = e].got = e
        /\ [radio EXCEPT !.phase = p, !.got = e].has = radio.has
    BY <1>2, <1>9, <2>2 DEF RadioRecord
  <2> QED BY <1>9, <2>3 DEF RadioOK, p
<1> HIDE DEF r
<1>11. k \in HistoryRecord /\ (history.crossed => k.crossed)
       /\ (k.misread <=> history.misread \/ source.block <= Blocks)
  <2> DEFINE a == history.misread \/ source.block <= Blocks
  <2>1. a \in BOOLEAN OBVIOUS
  <2>2. k = [history EXCEPT !.misread = a] OBVIOUS
  <2> HIDE DEF a, k
  <2>3. k \in HistoryRecord /\ k.misread = a /\ k.crossed = history.crossed
    BY <1>2, <2>1, <2>2 DEF HistoryRecord
  <2> QED BY <2>3 DEF a
<1> HIDE DEF k
<1>12. source.block \in 1 .. Blocks + 1 /\ Blocks \in Nat /\ r.has \subseteq 1 .. Blocks
  BY <1>2, <1>10, OemAssumption DEF SourceRecord, RadioRecord
<1>13. history.crossed \/ 1 .. source.block - 1 \subseteq radio.has BY DEF IInv, Brought
<1>14. r.has = 1 .. Blocks \/ k.crossed \/ k.misread
  <2>1. CASE source.block <= Blocks BY <1>11, <2>1
  <2>2. CASE source.block > Blocks
    <3>1. source.block - 1 = Blocks BY <1>12, <2>2
    <3> QED BY <1>10, <1>11, <1>12, <1>13, <3>1
  <2> QED BY <1>12, <2>1, <2>2
<1>15. k.crossed \/ 1 .. t.block - 1 \subseteq r.has BY <1>5, <1>10, <1>11, <1>13 DEF Kin
<1>16. Brought(t, r, k) BY <1>14, <1>15 DEF Brought
<1> QED BY <1>1, <1>6, <1>8, <1>10, <1>11, <1>16 DEF Stepped

LEMMA SendingSteps ==
    ASSUME IInv, Sending
    PROVE  Stepped
<1> DEFINE sent == Min({Free(dev), source.left, 1})
           left == source.left - sent
           kind == IF source.bad THEN "stale" ELSE "data"
           piece == Item(kind, source.block, Parts - source.left + 1)
           n == IF source.bad THEN 0 ELSE Len(Reply)
           u == Turns(source, "RX_BLOCK")
<1>1. source.ret = "0" /\ source.state = "SENDING" /\ UNCHANGED <<radio, history>>
  BY DEF Sending, Running
<1>2. SourceOK(source, radio.has) /\ source \in SourceRecord /\ history \in HistoryRecord
      /\ dev \in Port(Pieces, Letters(radio.has)) /\ Sized(source)
  BY InstallType
<1>3. /\ source.left \in 1 .. Parts /\ source.block \in 1 .. Blocks /\ Parts \in Nat /\ Blocks \in Nat
      /\ Free(dev) \in Nat
  <2>1. source.left \in 1 .. Parts /\ source.block <= Blocks /\ source.block \in 1 .. Blocks + 1
    BY <1>1, <1>2 DEF Sized, SourceRecord
  <2>2. Parts \in Nat /\ Blocks \in Nat BY OemAssumption
  <2>3. Free(dev) \in Nat
    <3>1. dev.line \in Seq(Pieces) /\ Len(dev.line) <= Room /\ Room \in Nat
      BY <1>2, AtModeAssumption DEF Port, Device
    <3>2. Len(dev.line) \in Nat BY <3>1, LenProperties
    <3> QED BY <3>1, <3>2 DEF Free
  <2> QED BY <2>1, <2>2, <2>3
<1>4. sent \in {0, 1} /\ sent <= source.left
  <2> DEFINE a == Free(dev)
             b == source.left
             c == 1
  <2>1. a \in Nat /\ b \in Nat /\ b >= 1 /\ a \in Int /\ b \in Int /\ c \in Int BY <1>3
  <2>2. c = 1 OBVIOUS
  <2> HIDE DEF a, b, c
  <2>3. LET m == Min({a, b, c}) IN m \in {a, b, c} /\ m <= a /\ m <= b /\ m <= c
    BY <2>1, OfThree
  <2>4. Min({a, b, c}) \in {0, 1} /\ Min({a, b, c}) <= b BY <2>1, <2>2, <2>3
  <2> QED BY <2>4 DEF a, b, c
<1>5. /\ dev' = IF sent = 1 THEN Write(dev, piece) ELSE dev
      /\ source' = IF left > 0 THEN [source EXCEPT !.left = left]
                   ELSE [u EXCEPT !.left = n, !.timer = 0]
  BY DEF Sending
<1>6. piece \in Pieces
  <2> DEFINE part == Parts - source.left + 1
  <2>1. part \in Nat /\ source.block \in Nat /\ source.block \in 1 .. Blocks BY <1>3
  <2>2. kind \in {"data", "stale"} OBVIOUS
  <2> HIDE DEF part, kind
  <2>3. Item(kind, source.block, part) \in Pieces BY <2>1, <2>2, Written
  <2> QED BY <2>3 DEF part
<1> HIDE DEF piece, sent
<1>7. dev' \in Port(Pieces, Letters(radio.has))
  <2>1. Write(dev, piece) \in Port(Pieces, Letters(radio.has)) BY <1>2, <1>6, WriteIs
  <2> QED BY <1>2, <1>5, <2>1
<1>8. CASE left > 0
  <2> DEFINE t == [source EXCEPT !.left = left]
  <2>1. left \in 1 .. Parts /\ left \in Nat BY <1>3, <1>4, <1>8
  <2> HIDE DEF left
  <2>2. /\ t \in SourceRecord /\ Kin(t, source) /\ t.state = "SENDING" /\ t.ret = "0" /\ t.left = left
    BY <1>1, <1>2, <2>1 DEF SourceRecord, Kin
  <2>3. source' = t BY <1>5, <1>8
  <2> HIDE DEF t
  <2>4. t.block <= Blocks BY <1>3, <2>2 DEF Kin
  <2>5. SourceOK(t, radio.has) BY <1>2, <2>1, <2>2, <2>4 DEF SourceOK, Sized, Kin
  <2> QED BY <1>1, <1>2, <1>7, <2>2, <2>3, <2>5, DriverSteps DEF Kin
<1>9. CASE ~(left > 0)
  <2> DEFINE t == [u EXCEPT !.left = n, !.timer = 0]
  <2>1. "RX_BLOCK" \in States /\ 0 \in Waited BY WaitedCounts DEF States
  <2>2. u \in SourceRecord /\ Kin(u, source) /\ u.state = "RX_BLOCK" /\ u.ret = "0"
    BY <1>1, <1>2, <2>1, SourceMoves
  <2>3. n \in Nat /\ n <= Len(Reply)
    <3>1. Len(Reply) \in Nat BY LenProperties, OemAssumption
    <3> QED BY <3>1
  <2>4. source' = t BY <1>5, <1>9
  <2> HIDE DEF u, n
  <2>5. t \in SourceRecord /\ Kin(t, source) /\ t.state = "RX_BLOCK" /\ t.ret = "0" /\ t.left = n
    BY <2>1, <2>2, <2>3 DEF SourceRecord, Kin
  <2> HIDE DEF t
  <2>6. t.block <= Blocks BY <1>3, <2>5 DEF Kin
  <2>7. SourceOK(t, radio.has) BY <1>2, <2>3, <2>5, <2>6 DEF SourceOK, Sized, Kin
  <2> QED BY <1>1, <1>2, <1>7, <2>4, <2>5, <2>7, DriverSteps DEF Kin
<1> QED BY <1>8, <1>9

\* The response that is taken.
LEMMA ComeIs ==
    ASSUME IInv
    PROVE  /\ Come \in 0 .. Len(dev.back) /\ Come <= source.left /\ Len(dev.back) \in Nat
           /\ source.left \in Nat
           /\ TakesReply => dev' = Without(dev, Come)
           /\ Without(dev, Come) \in Port(Pieces, Letters(radio.has))
<1>1. source.left \in Nat /\ dev.back \in Seq(Letters(radio.has))
      /\ dev \in Port(Pieces, Letters(radio.has))
  BY InstallType DEF SourceRecord, Port, Device
<1>2. Len(dev.back) \in Nat BY <1>1, LenProperties
<1> DEFINE a == source.left
           b == Len(dev.back)
<1>3. a \in Nat /\ b \in Nat /\ a \in Int /\ b \in Int BY <1>1, <1>2
<1>4. Come = Min({a, b}) BY DEF Come
<1>5. Come = IF a <= b THEN a ELSE b
  <2> HIDE DEF a, b
  <2> QED BY <1>3, <1>4, OfTwo
<1>6. Come \in 0 .. b /\ Come <= a
  <2> HIDE DEF a, b
  <2> QED BY <1>3, <1>5
<1>7. TakesReply => dev' = Without(dev, Come) BY DEF TakesReply, Without
<1>8. <<>> \in Seq(Letters(radio.has)) BY EmptySeq
<1>9. Without(dev, Come) \in Port(Pieces, Letters(radio.has)) BY <1>1, <1>6, <1>8, TakenFrom
<1> QED BY <1>1, <1>2, <1>6, <1>7, <1>9

\* A response that is as expected is that of a block which has been written.
LEMMA RxGoodSteps ==
    ASSUME IInv, RxGood
    PROVE  Stepped
<1> DEFINE C == Letters(radio.has)
           a == \E i \in 1 .. Come : dev.back[i].of # source.block
           k == [history EXCEPT !.crossed = @ \/ a]
           u == Turns(source, "TX_BLOCK")
<1>1. /\ source.ret = "0" /\ source.state = "RX_BLOCK" /\ UNCHANGED radio /\ TakesReply /\ Expected
      /\ Come > 0 /\ history' = k
      /\ source' = IF source.left > Come THEN [source EXCEPT !.left = @ - Come]
                   ELSE [u EXCEPT !.left = 0, !.tries = 0, !.block = @ + 1]
  BY DEF RxGood, TakesReply, Running
<1>2. SourceOK(source, radio.has) /\ source \in SourceRecord /\ history \in HistoryRecord
      /\ dev \in Port(Pieces, C) /\ Sized(source)
  BY InstallType
<1>3. /\ Come \in 0 .. Len(dev.back) /\ Come <= source.left /\ Len(dev.back) \in Nat
      /\ source.left \in Nat /\ dev' \in Port(Pieces, C)
  BY <1>1, ComeIs
<1>4. /\ source.block \in 1 .. Blocks /\ source.left <= Len(Reply) /\ Blocks \in Nat
      /\ Len(Reply) \in Nat
  <2>1. source.block \in 1 .. Blocks + 1 /\ source.block <= Blocks /\ source.left <= Len(Reply)
    BY <1>1, <1>2 DEF SourceRecord, Sized
  <2> QED BY <2>1, OemAssumption, LenProperties
<1>5. k \in HistoryRecord /\ (history.crossed => k.crossed) /\ (k.crossed <=> history.crossed \/ a)
      /\ k.misread = history.misread
  <2> DEFINE c == history.crossed \/ a
  <2>1. c \in BOOLEAN OBVIOUS
  <2>2. k = [history EXCEPT !.crossed = c] OBVIOUS
  <2> HIDE DEF c, k
  <2>3. k \in HistoryRecord /\ k.crossed = c /\ k.misread = history.misread
    BY <1>2, <2>1, <2>2 DEF HistoryRecord
  <2> QED BY <2>3 DEF c
<1>6. k.crossed \/ source.block \in radio.has
  <2> DEFINE c == dev.back[1]
             j == Len(Reply) - source.left + 1
  <2>1. 1 \in 1 .. Come /\ 1 \in 1 .. Len(dev.back) /\ j \in 1 .. Len(Reply) BY <1>1, <1>3, <1>4
  <2>2. c.ch = Reply[j] BY <1>1, <2>1 DEF Expected
  <2>3. Reply[j] \in {"U", "R"} BY <2>1, OemAssumption, ElementOfSeq
  <2>4. c \in C
    <3>1. dev.back \in Seq(C) BY <1>2 DEF Port, Device
    <3> HIDE DEF C
    <3> QED BY <2>1, <3>1, ElementOfSeq
  <2>5. c.of \in 1 .. Blocks => c.of \in radio.has
    <3> HIDE DEF c, j
    <3> QED BY <2>2, <2>3, <2>4 DEF Letters
  <2>6. CASE c.of = source.block BY <1>4, <2>5, <2>6
  <2>7. CASE c.of # source.block BY <1>5, <2>1, <2>7
  <2> QED BY <2>6, <2>7
<1>7. history.crossed \/ 1 .. source.block - 1 \subseteq radio.has BY DEF IInv, Brought
<1> HIDE DEF k, a, C
<1>8. CASE source.left > Come
  <2> DEFINE n == source.left - Come
             t == [source EXCEPT !.left = n]
  <2>1. n \in Nat /\ n <= Len(Reply) BY <1>1, <1>3, <1>4, <1>8
  <2>2. source' = t BY <1>1, <1>8
  <2> HIDE DEF n
  <2>3. /\ t \in SourceRecord /\ Kin(t, source) /\ t.state = "RX_BLOCK" /\ t.ret = "0" /\ t.left = n
    BY <1>1, <1>2, <2>1 DEF SourceRecord, Kin
  <2> HIDE DEF t
  <2>4. t.block <= Blocks BY <1>4, <2>3 DEF Kin
  <2>5. SourceOK(t, radio.has) BY <1>2, <2>1, <2>3, <2>4 DEF SourceOK, Sized, Kin
  <2> QED BY <1>1, <1>3, <1>5, <2>2, <2>3, <2>5, DriverSteps DEF Kin, C
<1>9. CASE ~(source.left > Come)
  <2> DEFINE b == source.block + 1
             t == [u EXCEPT !.left = 0, !.tries = 0, !.block = b]
  <2>1. "TX_BLOCK" \in States BY DEF States
  <2>2. u \in SourceRecord /\ Kin(u, source) /\ u.state = "TX_BLOCK" /\ u.ret = "0"
    BY <1>1, <1>2, <2>1, SourceMoves
  <2>3. source' = t
    <3>1. source' = [u EXCEPT !.left = 0, !.tries = 0, !.block = u.block + 1] BY <1>1, <1>9
    <3> QED BY <2>2, <3>1 DEF Kin
  <2>9. 0 \in 0 .. Tries + 1 BY OemAssumption
  <2>4. b \in 1 .. Blocks + 1 /\ b - 1 = source.block BY <1>4
  <2> HIDE DEF u, b
  <2>5. /\ t \in SourceRecord /\ t.buffer = source.buffer /\ t.next = source.next /\ t.block = b
        /\ t.tries = 0 /\ t.state = "TX_BLOCK" /\ t.ret = "0"
    BY <2>2, <2>4, <2>9 DEF SourceRecord, Kin
  <2> HIDE DEF t
  <2>6. SourceOK(t, radio.has) BY <1>2, <2>5 DEF SourceOK, Sized
  <2>7. k.crossed \/ 1 .. b - 1 \subseteq radio.has
    <3>1. 1 .. b - 1 \subseteq (1 .. source.block - 1) \cup {source.block} BY <1>4, <2>4
    <3> QED BY <1>5, <1>6, <1>7, <3>1
  <2>8. Brought(t, radio, k) BY <2>5, <2>7 DEF Brought
  <2> QED BY <1>1, <1>3, <1>5, <2>3, <2>6, <2>8, InstallType DEF Stepped, C
<1> QED BY <1>8, <1>9

LEMMA RxWrongSteps ==
    ASSUME IInv, RxWrong
    PROVE  Stepped
<1> DEFINE t == Turns(source, "RX_FAIL")
<1>1. source.ret = "0" /\ UNCHANGED <<radio, history>> /\ source' = t /\ TakesReply
  BY DEF RxWrong, TakesReply, Running
<1>2. SourceOK(source, radio.has) /\ source \in SourceRecord /\ history \in HistoryRecord BY InstallType
<1>3. dev' \in Port(Pieces, Letters(radio.has)) BY <1>1, ComeIs
<1>4. "RX_FAIL" \in States BY DEF States
<1>5. t \in SourceRecord /\ Kin(t, source) /\ t.state = "RX_FAIL" /\ t.ret = "0"
  BY <1>1, <1>2, <1>4, SourceMoves
<1> HIDE DEF t
<1>6. SourceOK(t, radio.has) BY <1>2, <1>5 DEF SourceOK, Sized, Kin
<1> QED BY <1>1, <1>2, <1>3, <1>5, <1>6, DriverSteps DEF Kin

LEMMA AgainSteps ==
    ASSUME IInv, RxTimeout \/ RxFail
    PROVE  Stepped
<1> DEFINE t == SendsAgain(source)
           k == [history EXCEPT !.missed = TRUE]
           u == Turns(source, "TX_BLOCK")
           v == Fails(source, "EIO")
           n == source.tries + 1
<1>1. source.ret = "0" /\ UNCHANGED <<dev, radio>> /\ source' = t /\ history' = k
  BY DEF RxTimeout, RxFail, Running
<1>2. source \in SourceRecord /\ SourceOK(source, radio.has) BY InstallType
<1>3. k \in HistoryRecord /\ k.crossed = history.crossed BY HistoryGrows
<1>4. source.tries \in 0 .. Tries /\ Tries \in Nat BY <1>1, <1>2, OemAssumption DEF SourceOK, Sized
<1>5. n \in 0 .. Tries + 1 /\ (source.tries < Tries => n \in 1 .. Tries) BY <1>4
<1>6. "TX_BLOCK" \in States BY DEF States
<1>7. u \in SourceRecord /\ Kin(u, source) /\ u.state = "TX_BLOCK" /\ u.ret = "0" /\ u.tries = source.tries
  <2>1. u.tries = source.tries BY <1>2 DEF Turns, SourceRecord
  <2> QED BY <1>1, <1>2, <1>6, <2>1, SourceMoves
<1>8. v \in SourceRecord /\ Kin(v, source) /\ v.state = "FAILURE" /\ v.ret = "EIO" /\ v.tries = source.tries
  <2>1. v.tries = source.tries BY <1>2 DEF Fails, SourceRecord
  <2> QED BY <1>2, <2>1, SourceMoves
<1>9. source.tries < Tries => t = [u EXCEPT !.tries = n] BY <1>7 DEF SendsAgain
<1>10. ~(source.tries < Tries) => t = [v EXCEPT !.tries = n] BY <1>8 DEF SendsAgain
<1> HIDE DEF t, u, v, n, k
<1>11. CASE source.tries < Tries
  <2>1. /\ t \in SourceRecord /\ t.buffer = source.buffer /\ t.block = source.block
        /\ t.next = source.next /\ t.tries = n /\ t.state = "TX_BLOCK" /\ t.ret = "0"
    BY <1>5, <1>7, <1>9, <1>11 DEF SourceRecord, Kin
  <2>2. SourceOK(t, radio.has) BY <1>2, <1>5, <1>11, <2>1 DEF SourceOK, Sized
  <2> QED BY <1>1, <1>3, <2>1, <2>2, SourceSteps
<1>12. CASE ~(source.tries < Tries)
  <2>1. /\ t \in SourceRecord /\ t.buffer = source.buffer /\ t.block = source.block
        /\ t.next = source.next /\ t.state = "FAILURE" /\ t.ret = "EIO"
    BY <1>5, <1>8, <1>10, <1>12 DEF SourceRecord, Kin
  <2>2. SourceOK(t, radio.has) BY <1>2, <2>1 DEF SourceOK, Sized
  <2> QED BY <1>1, <1>3, <2>1, <2>2, SourceSteps
<1> QED BY <1>11, <1>12

LEMMA FinalPromptSteps ==
    ASSUME IInv, FinalPrompt
    PROVE  Stepped
<1> DEFINE u == Turns(source, "SUCCESS")
           t == [u EXCEPT !.ret = "1"]
<1>1. /\ source.ret = "0" /\ source.state = "FINAL_PROMPT" /\ UNCHANGED <<dev, radio, history>>
      /\ source' = IF source.timer > FinalWait THEN t ELSE source
  BY DEF FinalPrompt, Running
<1>2. source \in SourceRecord /\ SourceOK(source, radio.has) /\ history \in HistoryRecord
      /\ dev \in Port(Pieces, Letters(radio.has)) /\ RadioOK(radio)
  BY InstallType
<1>3. "SUCCESS" \in States BY DEF States
<1>4. u \in SourceRecord /\ Kin(u, source) /\ u.state = "SUCCESS" BY <1>2, <1>3, SourceMoves
<1> HIDE DEF u
<1>5. /\ t \in SourceRecord /\ t.buffer = source.buffer /\ t.block = source.block
      /\ t.next = source.next /\ t.state = "SUCCESS" /\ t.ret = "1"
  BY <1>4 DEF SourceRecord, Kin
<1> HIDE DEF t
<1>6. Brought(source, radio, history) BY DEF IInv
<1>7. Brought(t, radio, history) BY <1>1, <1>5, <1>6 DEF Brought
<1>8. SourceOK(t, radio.has) BY <1>2, <1>5 DEF SourceOK, Sized
<1> QED BY <1>1, <1>2, <1>6, <1>7, <1>8 DEF Stepped

LEMMA InstallSteps ==
    ASSUME IInv, Install
    PROVE  Stepped
<1>1. BreakLasts \/ RxWaits => UNCHANGED <<source, dev, radio, history>> BY DEF BreakLasts, RxWaits
<1>2. "HV" \in Answered /\ "COMPAT" \in Answered BY DEF Answered
<1>3. CASE NotSupported("HV") \/ NotSupported("COMPAT") BY <1>2, <1>3, NotSupportedSteps
<1>4. CASE Verify \/ Reset \/ CmdPending \/ ParseResponse
  BY <1>4, VerifySteps, ResetSteps, CmdPendingSteps, ParseResponseSteps
<1>5. CASE HardwareVersion \/ Compatibility \/ Version \/ SerialFormat \/ SerialNumber
           \/ NotProgramming
  BY <1>5, QuestionSteps
<1>6. CASE Programming \/ Break \/ BreakLasts \/ Bootloader \/ AwaitsBootloader \/ RxWaits
  BY <1>1, <1>6, ProgrammingSteps, BreakSteps, IdleSteps, BootloaderSteps, AwaitsBootloaderSteps
<1>7. CASE TxBlock \/ EndOfImage \/ Sending \/ RxGood \/ RxWrong \/ RxTimeout \/ RxFail
           \/ FinalPrompt
  BY <1>7, TxBlockSteps, EndOfImageSteps, SendingSteps, RxGoodSteps, RxWrongSteps, AgainSteps,
     FinalPromptSteps
<1> QED BY <1>3, <1>4, <1>5, <1>6, <1>7 DEF Install

-----------------------------------------------------------------------------
(* The steps of the application *)

\* What a step of AT command mode does not say of the file.
LEMMA MisreadStays ==
    ASSUME IInv
    PROVE  /\ GivenUp(dev).misread = history.misread
           /\ \A r : Accepted(dev, r).misread = history.misread
           /\ [history EXCEPT !.missed = TRUE].misread = history.misread
<1>1. history \in HistoryRecord BY DEF IInv
<1>2. \A a \in BOOLEAN : /\ [history EXCEPT !.missed = a].misread = history.misread
                         /\ [history EXCEPT !.crossed = a].misread = history.misread
  BY <1>1 DEF HistoryRecord
<1>3. GivenUp(dev).misread = history.misread
  <2> DEFINE t == Ticked(dev)
             a == history.missed \/ (dev.mode = "POST_ESCAPE" /\ t.mode = "IDLE")
                     \/ (dev.mode \in {"WAIT_RESPONSE", "WAIT_IDLE"} /\ t.mode # dev.mode)
  <2>1. a \in BOOLEAN OBVIOUS
  <2>2. GivenUp(dev) = [history EXCEPT !.missed = a] BY DEF GivenUp
  <2> HIDE DEF a
  <2> QED BY <1>2, <2>1, <2>2
<1>4. ASSUME NEW r PROVE Accepted(dev, r).misread = history.misread
  <2> DEFINE taken == r.buffer \o SubSeq(dev.back, 1, Len(dev.back) - Len(r.dev.back))
             a == history.crossed \/ \E i \in 1 .. Len(taken) : taken[i].of # dev.asked
  <2>1. a \in BOOLEAN OBVIOUS
  <2>2. Accepted(dev, r) = [history EXCEPT !.crossed = a] BY DEF Accepted
  <2> HIDE DEF a
  <2> QED BY <1>2, <2>1, <2>2
<1> QED BY <1>2, <1>3, <1>4

\* A step that changes the response and the device.
LEMMA ResponseSteps ==
    ASSUME IInv, UNCHANGED radio, history' \in HistoryRecord,
           history.crossed => history'.crossed, history.misread => history'.misread,
           NEW b \in Seq(Letters(radio.has)), source' = [source EXCEPT !.buffer = b],
           dev' \in Port(Pieces, Letters(radio.has))
    PROVE  Stepped
<1> DEFINE t == [source EXCEPT !.buffer = b]
<1>1. source \in SourceRecord /\ Sized(source) /\ RadioOK(radio) /\ Brought(source, radio, history)
  BY InstallType DEF IInv
<1>2. b \in Seq(CharRecord) BY SeqMonotonic DEF Letters
<1>3. /\ t \in SourceRecord /\ t.buffer = b /\ t.block = source.block /\ t.next = source.next
      /\ t.state = source.state /\ t.ret = source.ret /\ t.tries = source.tries
      /\ t.left = source.left
  BY <1>1, <1>2 DEF SourceRecord
<1>4. source' = t OBVIOUS
<1> HIDE DEF t
<1>5. SourceOK(t, radio.has) BY <1>1, <1>3 DEF SourceOK, Sized
<1>6. Brought(t, radio, history') BY <1>1, <1>3 DEF Brought
<1> QED BY <1>1, <1>4, <1>5, <1>6 DEF Stepped

LEMMA ApplicationSteps ==
    ASSUME IInv, Application
    PROVE  Stepped
<1> DEFINE e == <<>>
           C == Letters(radio.has)
<1>1. source \in SourceRecord /\ source.buffer \in Seq(C) /\ dev \in Port(Pieces, C)
      /\ history \in HistoryRecord
  BY InstallType DEF SourceOK
<1>2. e \in Seq(C) /\ source = [source EXCEPT !.buffer = source.buffer]
  <2>1. source = [source EXCEPT !.buffer = source.buffer] BY <1>1 DEF SourceRecord
  <2> QED BY <2>1, EmptySeq
<1>3. /\ GivenUp(dev) \in HistoryRecord /\ GivenUp(dev).crossed = history.crossed
      /\ GivenUp(dev).misread = history.misread
  BY HistoryGrows, MisreadStays
<1>4. /\ Item("+++", dev.asked, 0) \in Pieces
      /\ Item("CN", dev.asked + 1, 0) \in Pieces /\ Item("VR", dev.asked + 1, 0) \in Pieces
  BY MayBeTold DEF Commands
<1>5. /\ Ticked(dev) \in Port(Pieces, C) /\ Entered(dev) \in Port(Pieces, C)
      /\ Exited(dev) \in Port(Pieces, C) /\ Requested(dev, "VR") \in Port(Pieces, C)
  BY <1>1, <1>4, TickedIs, EnteredIs, ExitedIs, RequestedIs
<1>6. CASE AppEnters \/ AppTicks
  <2>1. /\ dev' \in {Entered(dev), Ticked(dev)} /\ history' = GivenUp(dev)
        /\ UNCHANGED <<source, radio>>
    BY <1>6 DEF AppEnters, AppTicks
  <2> QED BY <1>1, <1>2, <1>3, <1>5, <2>1, ResponseSteps
<1>7. CASE AppSends
  <2>1. /\ dev' = Requested(dev, "VR") /\ source' = [source EXCEPT !.buffer = e]
        /\ UNCHANGED <<radio, history>>
    BY <1>7 DEF AppSends
  <2> HIDE DEF e
  <2> QED BY <1>1, <1>2, <1>5, <2>1, ResponseSteps
<1>8. CASE AppReads
  <2> DEFINE r == Read(dev, source.buffer)
             b == IF r.ret = "EAGAIN" THEN r.buffer ELSE e
             k == [history EXCEPT !.missed = TRUE]
  <2>1. /\ dev' = r.dev /\ source' = [source EXCEPT !.buffer = b] /\ UNCHANGED radio
        /\ history' = CASE r.ret = "0" -> Accepted(dev, r) [] r.ret = "ETIMEDOUT" -> k
                        [] OTHER -> history
    BY <1>8 DEF AppReads
  <2>2. r.dev \in Port(Pieces, C) /\ r.buffer \in Seq(C) BY <1>1, ReadIs
  <2>3. /\ Accepted(dev, r) \in HistoryRecord /\ Accepted(dev, r).misread = history.misread
        /\ (history.crossed => Accepted(dev, r).crossed)
        /\ k \in HistoryRecord /\ k.crossed = history.crossed /\ k.misread = history.misread
    BY HistoryGrows, MisreadStays
  <2> HIDE DEF r, e, k, C
  <2>4. b \in Seq(C) BY <1>2, <2>2
  <2>5. history' \in {Accepted(dev, r), k, history} BY <2>1
  <2> HIDE DEF b
  <2>6. history' \in HistoryRecord /\ (history.crossed => history'.crossed)
        /\ (history.misread => history'.misread)
    BY <1>1, <2>3, <2>5
  <2> QED BY <2>1, <2>2, <2>4, <2>6, ResponseSteps DEF C
<1>9. CASE AppExits
  <2> DEFINE b == IF dev.mode = "COMMAND" THEN e ELSE source.buffer
  <2>1. /\ dev' = Exited(dev) /\ history' = GivenUp(dev) /\ UNCHANGED radio
        /\ source' = [source EXCEPT !.buffer = b]
    BY <1>9 DEF AppExits
  <2>2. b \in Seq(C) BY <1>1, <1>2
  <2> HIDE DEF b
  <2> QED BY <1>3, <1>5, <2>1, <2>2, ResponseSteps
<1> QED BY <1>6, <1>7, <1>8, <1>9 DEF Application

\* A call of the program.
LEMMA TickSteps ==
    ASSUME IInv, Tick
    PROVE  IInv'
<1>1. Stepped BY InstallSteps, ApplicationSteps DEF Tick
<1>2. idle' = 0 /\ UNCHANGED <<setup, faults>> BY DEF Tick
<1>3. 0 \in 0 .. MaxGap BY OemAssumption
<1> QED BY <1>1, <1>2, <1>3 DEF IInv, Stepped

-----------------------------------------------------------------------------
(* The steps of the module *)

\* A sequence without its first element.
LEMMA TailIs ==
    ASSUME NEW S, NEW s \in Seq(S), s # <<>>
    PROVE  /\ Tail(s) \in Seq(S) /\ Head(s) \in S /\ Head(s) = s[1]
           /\ Len(s) \in Nat \ {0} /\ Len(Tail(s)) = Len(s) - 1
           /\ \A i \in 1 .. Len(s) - 1 : Tail(s)[i] = s[i + 1]
<1>1. Len(s) \in Nat \ {0} BY LenProperties, EmptySeq
<1>2. /\ Head(s) \in S /\ Tail(s) \in Seq(S) /\ Len(Tail(s)) = Len(s) - 1
      /\ \A i \in 1 .. Len(Tail(s)) : Tail(s)[i] = s[i + 1]
  BY HeadTailProperties
<1> QED BY <1>1, <1>2

\* What comes back is added at the end, or is lost.
LEMMA SaysIs ==
    ASSUME NEW I, NEW C, NEW d \in Port(I, C), NEW chars \in Seq(C)
    PROVE  /\ Says(d, chars) \in Port(I, C) /\ Says(d, chars).line = d.line
           /\ Says(d, chars).mode = d.mode /\ Says(d, chars).asked = d.asked
           /\ Says(d, chars).back \in {d.back, d.back \o chars}
<1> DEFINE b == d.back \o chars
<1>1. d.back \in Seq(C) /\ RxRoom \in Nat BY OemAssumption DEF Port, Device
<1>2. b \in Seq(C) /\ Len(b) = Len(d.back) + Len(chars) BY <1>1, ConcatProperties
<1>3. CASE Len(d.back) + Len(chars) <= RxRoom
  <2>1. Says(d, chars) = [d EXCEPT !.back = b] BY <1>3 DEF Says
  <2>2. b = d.back \o chars OBVIOUS
  <2> HIDE DEF b
  <2>3. Len(b) <= RxRoom BY <1>2, <1>3
  <2>4. /\ [d EXCEPT !.back = b] \in Port(I, C) /\ [d EXCEPT !.back = b].back = b
        /\ [d EXCEPT !.back = b].line = d.line /\ [d EXCEPT !.back = b].mode = d.mode
        /\ [d EXCEPT !.back = b].asked = d.asked
    BY <1>2, <2>3 DEF Port, Device
  <2> QED BY <2>1, <2>2, <2>4
<1>4. CASE ~(Len(d.back) + Len(chars) <= RxRoom)
  <2>1. Says(d, chars) = d BY <1>4 DEF Says
  <2> QED BY <2>1
<1> QED BY <1>3, <1>4

\* More characters are genuine.
LEMMA PortGrows ==
    ASSUME NEW I, NEW C, NEW D, C \subseteq D, NEW d \in Port(I, C)
    PROVE  d \in Port(I, D)
<1>1. d.back \in Seq(D)
  <2>1. d.back \in Seq(C) BY DEF Port, Device
  <2> QED BY <2>1, SeqMonotonic
<1> QED BY <1>1 DEF Port, Device

\* An item is read.
LEMMA ItemIsTaken ==
    ASSUME NEW I, NEW C, NEW d \in Port(I, C), d.line # <<>>
    PROVE  LET t == [d EXCEPT !.line = Tail(@)]
           IN  /\ t \in Port(I, C) /\ Head(d.line) \in I
               /\ t.back = d.back /\ t.mode = d.mode /\ t.asked = d.asked /\ t.line = Tail(d.line)
<1> DEFINE u == Tail(d.line)
<1>1. d.line \in Seq(I) /\ Len(d.line) <= Room /\ Room \in Nat BY AtModeAssumption DEF Port, Device
<1>2. u \in Seq(I) /\ Head(d.line) \in I /\ Len(u) = Len(d.line) - 1 /\ Len(d.line) \in Nat
  BY <1>1, TailIs
<1> HIDE DEF u
<1>3. Len(u) <= Room BY <1>1, <1>2
<1>4. /\ [d EXCEPT !.line = u] \in Port(I, C) /\ [d EXCEPT !.line = u].line = u
      /\ [d EXCEPT !.line = u].back = d.back /\ [d EXCEPT !.line = u].mode = d.mode
      /\ [d EXCEPT !.line = u].asked = d.asked
  BY <1>2, <1>3 DEF Port, Device
<1> QED BY <1>2, <1>4 DEF u

\* A step of the module, by which no block is lost.
LEMMA ModuleActs ==
    ASSUME IInv, UNCHANGED <<setup, source, idle, faults, history>>,
           RadioOK(radio'), radio.has \subseteq radio'.has,
           dev' \in Port(Pieces, Letters(radio'.has))
    PROVE  IInv'
<1>1. SourceOK(source, radio.has) /\ Brought(source, radio, history) BY DEF IInv
<1>2. PICK has : has = radio'.has OBVIOUS
<1>3. radio.has \subseteq has /\ has \subseteq 1 .. Blocks BY <1>2 DEF RadioOK, RadioRecord
<1>4. source.buffer \in Seq(Letters(has))
  <2>1. source.buffer \in Seq(Letters(radio.has)) BY <1>1 DEF SourceOK
  <2>2. Letters(radio.has) \subseteq Letters(has) BY <1>3, LettersGrow
  <2> QED BY <2>1, <2>2, SeqMonotonic
<1>5. SourceOK(source, has) BY <1>1, <1>4 DEF SourceOK
<1>6. Brought(source', radio', history') BY <1>1, <1>2, <1>3 DEF Brought
<1> QED BY <1>2, <1>5, <1>6 DEF IInv

\* The text of an answer.
LEMMA AnswerIs ==
    ASSUME IInv, NEW item \in Items, NEW has
    PROVE  /\ Answer(item) \in Seq(Letters(has)) /\ Len(Answer(item)) = 2
           /\ Answer(item)[1] = Char(TextOf(item.kind), item.of)
           /\ Answer(item)[2] = Char("CR", item.of)
           /\ TextOf(item.kind) \in Texts
<1> DEFINE t == TextOf(item.kind)
<1>1. setup.hv \in Texts /\ setup.compat \in Texts /\ setup.prog \in Texts
  BY DEF IInv, SetupRecord, Texts
<1>2. t \in {setup.hv, setup.compat, setup.prog, "other", "OK"}
  <2> DEFINE k == item.kind
  <2>1. t = CASE k = "HV" -> setup.hv [] k = "%C" -> setup.compat [] k = "%P" -> setup.prog
              [] k \in {"VR", "SL"} -> "other" [] OTHER -> "OK"
    BY DEF TextOf
  <2> HIDE DEF t, k
  <2> QED BY <2>1
<1>3. t \in Texts BY <1>1, <1>2 DEF Texts
<1> HIDE DEF t
<1>4. item.of \in Nat BY DEF Items
<1> DEFINE c == Char(t, item.of)
           d == Char("CR", item.of)
<1>5. c \in Letters(has) /\ d \in Letters(has) BY <1>3, <1>4, Written
<1>6. Answer(item) = <<c, d>> BY DEF Answer, t
<1>7. Char(TextOf(item.kind), item.of) = c BY DEF t
<1>8. TextOf(item.kind) \in Texts BY <1>3 DEF t
<1>9. Char("CR", item.of) = d OBVIOUS
<1> HIDE DEF c, d
<1>10. <<c, d>> \in Seq(Letters(has)) BY <1>5
<1> QED BY <1>6, <1>7, <1>8, <1>9, <1>10

\* Where a module is, and since when.
Phases == {"app", "escaped", "command", "resetting", "boot"}
Placed(r, phase, quiet, got, has) ==
    [r EXCEPT !.phase = phase, !.quiet = quiet, !.got = got, !.has = has]
LEMMA PlacedIs ==
    ASSUME NEW r, RadioOK(r), NEW phase \in Phases, NEW quiet \in Waited,
           NEW got \in Seq(Pieces), NEW has \in SUBSET (1 .. Blocks)
    PROVE  /\ RadioOK(Placed(r, phase, quiet, got, has))
           /\ Placed(r, phase, quiet, got, has).phase = phase
           /\ Placed(r, phase, quiet, got, has).quiet = quiet
           /\ Placed(r, phase, quiet, got, has).got = got
           /\ Placed(r, phase, quiet, got, has).has = has
<1>1. got \in Seq(Items)
  <2>1. Pieces \subseteq Items BY DEF Pieces
  <2> QED BY <2>1, SeqMonotonic
<1>2. r \in RadioRecord BY DEF RadioOK
<1> DEFINE t == [r EXCEPT !.phase = phase, !.quiet = quiet, !.got = got, !.has = has]
<1>3. t \in RadioRecord /\ t.phase = phase /\ t.quiet = quiet /\ t.got = got /\ t.has = has
  BY <1>1, <1>2 DEF RadioRecord, Phases
<1>5. t = Placed(r, phase, quiet, got, has) BY DEF Placed
<1> HIDE DEF t
<1>4. RadioOK(t) BY <1>3 DEF RadioOK
<1> QED BY <1>3, <1>4, <1>5

\* A piece of a block: of a whole block, the response.
LEMMA PieceTakenIs ==
    ASSUME NEW has \in SUBSET (1 .. Blocks), NEW got \in Seq(Pieces), got # <<>>,
           NEW C, Letters(has) \subseteq C,
           \A n \in 1 .. Blocks : n \in has \/ n = got[Len(got)].of => \A ch \in Chars : Char(ch, n) \in C,
           \A n \in Nat : Char("N", n) \in C,
           NEW d \in Port(Pieces, C)
    PROVE  LET b == PieceTaken(got, d)
               n == Len(got)
               of == got[n].of
               reply == [i \in 1 .. Len(Reply) |-> Char(Reply[i], of)]
           IN  /\ n \in Nat \ {0} /\ of \in Nat
               /\ b.dev \in Port(Pieces, C) /\ b.got \in Seq(Pieces)
               /\ \/ /\ \E i \in 1 .. n : got[i] # Item("data", of, i)
                     /\ b.got = <<>> /\ b.has = {} /\ b.dev = Says(d, <<Char("N", of)>>)
                  \/ /\ \A i \in 1 .. n : got[i] = Item("data", of, i)
                     /\ n < Parts /\ b.got = got /\ b.has = {} /\ b.dev = d
                  \/ /\ \A i \in 1 .. n : got[i] = Item("data", of, i)
                     /\ n >= Parts /\ of \in 1 .. Blocks
                     /\ b.got = <<>> /\ b.has = {of} /\ b.dev = Says(d, reply)
<1> DEFINE n == Len(got)
           of == got[n].of
           inOrder == \A i \in 1 .. n : got[i] = Item("data", of, i)
           reply == [i \in 1 .. Len(Reply) |-> Char(Reply[i], of)]
           no == <<Char("N", of)>>
           e == <<>>
           b == PieceTaken(got, d)
<1>1. n \in Nat \ {0} BY LenProperties, EmptySeq
<1>2. got[n] \in Pieces /\ of \in Nat
  <2>1. got[n] \in Pieces BY <1>1, ElementOfSeq
  <2> QED BY <2>1 DEF Pieces, Items
<1>3. inOrder => of \in 1 .. Blocks
  <2>1. HAVE inOrder
  <2>2. got[n] = Item("data", of, n) BY <1>1, <2>1
  <2>3. got[n].kind = "data" BY <2>2 DEF Item
  <2> QED BY <1>2, <2>3 DEF Pieces
<1>4. b = CASE ~inOrder -> [got |-> e, dev |-> Says(d, no), has |-> {}]
            [] inOrder /\ n < Parts -> [got |-> got, dev |-> d, has |-> {}]
            [] OTHER -> [got |-> e, has |-> {of}, dev |-> Says(d, reply)]
  BY DEF PieceTaken
<1>5. no \in Seq(C)
  <2> DEFINE c == Char("N", of)
  <2>1. c \in C BY <1>2
  <2> HIDE DEF c
  <2>2. <<c>> \in Seq(C) BY <2>1
  <2> QED BY <2>2 DEF c
<1>6. inOrder => reply \in Seq(C)
  <2>1. HAVE inOrder
  <2>2. of \in 1 .. Blocks BY <1>3, <2>1
  <2>3. Reply \in Seq({"U", "R"}) /\ Len(Reply) \in Nat BY OemAssumption, LenProperties
  <2>4. \A i \in 1 .. Len(Reply) : Char(Reply[i], of) \in C
    <3>1. \A i \in 1 .. Len(Reply) : Reply[i] \in Chars
      <4>1. \A i \in 1 .. Len(Reply) : Reply[i] \in {"U", "R"} BY <2>3, ElementOfSeq
      <4> QED BY <4>1 DEF Chars
    <3> QED BY <2>2, <3>1
  <2> HIDE DEF of
  <2>5. [i \in 1 .. Len(Reply) |-> Char(Reply[i], of)] \in [1 .. Len(Reply) -> C] BY <2>4
  <2>6. [i \in 1 .. Len(Reply) |-> Char(Reply[i], of)] \in Seq(C) BY <2>3, <2>5, SeqDef
  <2> QED BY <2>6
<1>7. e \in Seq(Pieces) BY EmptySeq
<1>8. Says(d, no) \in Port(Pieces, C) BY <1>5, SaysIs
<1>9. inOrder => Says(d, reply) \in Port(Pieces, C) BY <1>6, SaysIs
<1>14. e = <<>> /\ no = <<Char("N", of)>> /\ (inOrder <=> \A i \in 1 .. n : got[i] = Item("data", of, i))
  OBVIOUS
<1> HIDE DEF reply, no, e, inOrder, b, of, n
<1>10. CASE ~inOrder
  <2>1. b = [got |-> e, dev |-> Says(d, no), has |-> {}] BY <1>4, <1>10
  <2>2. b.got = e /\ b.dev = Says(d, no) /\ b.has = {} BY <2>1
  <2> QED BY <1>1, <1>2, <1>7, <1>8, <1>10, <1>14, <2>2 DEF reply, b, of, n
<1>11. CASE inOrder /\ n < Parts
  <2>1. b = [got |-> got, dev |-> d, has |-> {}] BY <1>4, <1>11
  <2>2. b.got = got /\ b.dev = d /\ b.has = {} BY <2>1
  <2> QED BY <1>1, <1>2, <1>11, <1>14, <2>2 DEF b, of, n
<1>12. CASE inOrder /\ ~(n < Parts)
  <2>1. b = [got |-> e, has |-> {of}, dev |-> Says(d, reply)] BY <1>4, <1>12
  <2>2. b.got = e /\ b.dev = Says(d, reply) /\ b.has = {of} BY <2>1
  <2>3. n >= Parts BY <1>1, <1>12, OemAssumption
  <2> QED BY <1>1, <1>2, <1>3, <1>7, <1>9, <1>12, <1>14, <2>2, <2>3 DEF reply, b, of, n
<1> QED BY <1>10, <1>11, <1>12

\* What the module makes of an item.
LEMMA ModuleReadsIs ==
    ASSUME IInv, ModuleReads
    PROVE  LET item == Head(dev.line)
               d == [dev EXCEPT !.line = Tail(@)]
               r == [radio EXCEPT !.quiet = 0]
               b == PieceTaken(Append(radio.got, item), d)
           IN  \/ dev' = d /\ radio' \in {radio, r, [r EXCEPT !.phase = "app"]}
               \/ item.kind = "+++" /\ dev' = d /\ radio' = [r EXCEPT !.phase = "escaped"]
               \/ /\ item.kind \in Commands /\ dev' = Says(d, Answer(item))
                  /\ radio' = [r EXCEPT !.phase = PhaseAfter(item.kind)]
               \/ /\ item.kind = "+" /\ radio.phase = "boot" /\ dev' = Says(d, <<Char("U", 0)>>)
                  /\ radio' = [r EXCEPT !.got = <<>>]
               \/ /\ item.kind \in {"data", "stale"} /\ radio.phase = "boot" /\ dev' = b.dev
                  /\ radio' = [r EXCEPT !.got = b.got, !.has = @ \cup b.has]
<1> DEFINE item == Head(dev.line)
           d == [dev EXCEPT !.line = Tail(@)]
           r == [radio EXCEPT !.quiet = 0]
           b == PieceTaken(Append(radio.got, item), d)
<1>1. [r EXCEPT !.phase = r.phase] = r BY InstallType DEF RadioRecord
<1>2. CASE ~Tuned
  <2>1. dev' = d /\ radio' = radio BY <1>2 DEF ModuleReads
  <2> QED BY <2>1
<1>3. CASE Tuned /\ radio.phase = "app"
  <2>1. dev' = d /\ radio' = [r EXCEPT !.phase = IF item.kind = "+++" THEN "escaped" ELSE @]
    BY <1>3 DEF ModuleReads
  <2>2. CASE item.kind = "+++"
    <3>1. radio' = [r EXCEPT !.phase = "escaped"] BY <2>1, <2>2
    <3> QED BY <2>1, <2>2, <3>1
  <2>3. CASE item.kind # "+++"
    <3> HIDE DEF r, d
    <3>1. radio' = [r EXCEPT !.phase = IF item.kind = "+++" THEN "escaped" ELSE r.phase] BY <2>1
    <3>2. radio' = r BY <1>1, <2>3, <3>1
    <3> QED BY <2>1, <3>2 DEF r, d
  <2> QED BY <2>2, <2>3
<1>4. CASE Tuned /\ radio.phase = "escaped"
  <2>1. dev' = d /\ radio' = [r EXCEPT !.phase = "app"] BY <1>4 DEF ModuleReads
  <2> QED BY <2>1
<1>5. CASE Tuned /\ radio.phase = "command" /\ item.kind \in Commands
  <2>1. dev' = Says(d, Answer(item)) /\ radio' = [r EXCEPT !.phase = PhaseAfter(item.kind)]
    BY <1>5 DEF ModuleReads
  <2> QED BY <1>5, <2>1
<1>6. CASE Tuned /\ radio.phase = "boot" /\ item.kind = "+"
  <2>1. dev' = Says(d, <<Char("U", 0)>>) /\ radio' = [r EXCEPT !.got = <<>>]
    BY <1>6 DEF ModuleReads
  <2> QED BY <1>6, <2>1
<1>7. CASE Tuned /\ radio.phase = "boot" /\ item.kind \in {"data", "stale"}
  <2>1. dev' = b.dev /\ radio' = [r EXCEPT !.got = b.got, !.has = @ \cup b.has]
    BY <1>7 DEF ModuleReads
  <2> QED BY <1>7, <2>1
<1>8. CASE /\ Tuned /\ radio.phase \notin {"app", "escaped"}
           /\ ~(radio.phase = "command" /\ item.kind \in Commands)
           /\ ~(radio.phase = "boot" /\ item.kind = "+")
           /\ ~(radio.phase = "boot" /\ item.kind \in {"data", "stale"})
  <2>1. dev' = d /\ radio' = r BY <1>8 DEF ModuleReads
  <2> QED BY <2>1
<1> QED BY <1>2, <1>3, <1>4, <1>5, <1>6, <1>7, <1>8

\* An item is read by the module.
LEMMA ModuleReadsSteps ==
    ASSUME IInv, ModuleReads
    PROVE  IInv'
<1> DEFINE C == Letters(radio.has)
           item == Head(dev.line)
           d == [dev EXCEPT !.line = Tail(@)]
           r == [radio EXCEPT !.quiet = 0]
           got == Append(radio.got, item)
           b == PieceTaken(got, d)
           Acts(p, t) == dev' = p /\ radio' = t
<1>1. dev.line # <<>> /\ UNCHANGED <<setup, source, idle, faults, history>> BY DEF ModuleReads
<1>2. /\ RadioOK(radio) /\ radio \in RadioRecord /\ dev \in Port(Pieces, C)
      /\ radio.got \in Seq(Pieces) /\ radio.has \in SUBSET (1 .. Blocks)
      /\ radio.phase \in Phases /\ radio.quiet \in Waited
  BY InstallType DEF RadioOK, RadioRecord, Phases
<1>3. d \in Port(Pieces, C) /\ item \in Pieces BY <1>1, <1>2, ItemIsTaken
<1>4. item \in Items BY <1>3 DEF Pieces
<1>5. 0 \in Waited BY WaitedCounts
<1>6. \A phase \in Phases :
         RadioOK([r EXCEPT !.phase = phase]) /\ [r EXCEPT !.phase = phase].has = radio.has
  <2> TAKE phase \in Phases
  <2>1. [r EXCEPT !.phase = phase]
        = Placed(radio, phase, 0, radio.got, radio.has)
    BY <1>2 DEF RadioRecord, Placed
  <2>2. /\ RadioOK(Placed(radio, phase, 0, radio.got, radio.has))
        /\ Placed(radio, phase, 0, radio.got, radio.has).has = radio.has
    <3> HIDE DEF r, C, d, item, got, b
    <3> QED BY <1>2, <1>5, PlacedIs
  <2> HIDE DEF r
  <2> QED BY <2>1, <2>2
<1>7. RadioOK(r) /\ r.has = radio.has /\ [r EXCEPT !.phase = r.phase] = r /\ r.phase = radio.phase
  <2>1. [r EXCEPT !.phase = r.phase] = r /\ r.phase = radio.phase BY <1>2 DEF RadioRecord
  <2> QED BY <1>2, <1>6, <2>1
<1>8. \/ Acts(d, radio) \/ Acts(d, r)
      \/ \E phase \in {"app", "escaped"} : Acts(d, [r EXCEPT !.phase = phase])
      \/ Acts(Says(d, Answer(item)), [r EXCEPT !.phase = PhaseAfter(item.kind)])
      \/ Acts(Says(d, <<Char("U", 0)>>), [r EXCEPT !.got = <<>>])
      \/ Acts(b.dev, [r EXCEPT !.got = b.got, !.has = @ \cup b.has])
  BY ModuleReadsIs
<1>9. CASE Acts(d, radio) \/ Acts(d, r)
  <2>1. RadioOK(radio') /\ radio'.has = radio.has BY <1>2, <1>7, <1>9
  <2> QED BY <1>1, <1>3, <1>9, <2>1, ModuleActs
<1>10. CASE \E phase \in {"app", "escaped"} : Acts(d, [r EXCEPT !.phase = phase])
  <2>1. RadioOK(radio') /\ radio'.has = radio.has BY <1>6, <1>10 DEF Phases
  <2>2. dev' = d BY <1>10
  <2> QED BY <1>1, <1>3, <2>1, <2>2, ModuleActs
<1>11. CASE Acts(Says(d, Answer(item)), [r EXCEPT !.phase = PhaseAfter(item.kind)])
  <2>1. PhaseAfter(item.kind) \in Phases BY DEF PhaseAfter, Phases
  <2>2. RadioOK(radio') /\ radio'.has = radio.has BY <1>6, <1>11, <2>1
  <2>3. Answer(item) \in Seq(C) BY <1>4, AnswerIs
  <2>4. dev' \in Port(Pieces, C) BY <1>3, <1>11, <2>3, SaysIs
  <2> QED BY <1>1, <2>2, <2>4, ModuleActs
<1>12. CASE Acts(Says(d, <<Char("U", 0)>>), [r EXCEPT !.got = <<>>])
  <2> DEFINE c == Char("U", 0)
             e == <<>>
  <2>1. c \in C
    <3>1. "U" \in Chars /\ 0 \in Nat BY DEF Chars
    <3> QED BY <3>1, Written
  <2>2. e \in Seq(Pieces) BY EmptySeq
  <2>3. Acts(Says(d, <<c>>), [r EXCEPT !.got = e]) BY <1>12
  <2> HIDE DEF c, e
  <2>4. <<c>> \in Seq(C) BY <2>1
  <2>5. dev' \in Port(Pieces, C) BY <1>3, <2>3, <2>4, SaysIs
  <2>6. [r EXCEPT !.got = e] = Placed(radio, radio.phase, 0, e, radio.has)
    BY <1>2 DEF RadioRecord, Placed
  <2>8. radio' = Placed(radio, radio.phase, 0, e, radio.has) BY <2>3, <2>6
  <2>9. /\ RadioOK(Placed(radio, radio.phase, 0, e, radio.has))
        /\ Placed(radio, radio.phase, 0, e, radio.has).has = radio.has
    BY <1>2, <1>5, <2>2, PlacedIs
  <2>7. RadioOK(radio') /\ radio'.has = radio.has BY <2>8, <2>9
  <2> QED BY <1>1, <2>5, <2>7, ModuleActs
<1>13. CASE Acts(b.dev, [r EXCEPT !.got = b.got, !.has = @ \cup b.has])
  <2> DEFINE n == Len(got)
             of == got[n].of
             has == radio.has \cup ({of} \cap 1 .. Blocks)
             D == Letters(has)
  <2>1. got \in Seq(Pieces) /\ got # <<>> BY <1>2, <1>3, AppendProperties
  <2>2. has \in SUBSET (1 .. Blocks) /\ radio.has \subseteq has BY <1>2
  <2>3. C \subseteq D BY <2>2, LettersGrow
  <2>4. \A m \in 1 .. Blocks : m \in has => \A ch \in Chars : Char(ch, m) \in D
    <3>1. 1 .. Blocks \subseteq Nat BY OemAssumption
    <3> HIDE DEF has
    <3> QED BY <3>1, Written
  <2>5. \A m \in Nat : Char("N", m) \in C /\ Char("N", m) \in D BY Written
  <2>6. \A m \in 1 .. Blocks : m \in radio.has \/ m = of => m \in has OBVIOUS
  <2>7. d \in Port(Pieces, D)
    <3> HIDE DEF d, D, C
    <3> QED BY <1>3, <2>3, PortGrows
  <2>14. of = got[Len(got)].of OBVIOUS
  <2>15. [r EXCEPT !.got = b.got, !.has = @ \cup b.has]
         = Placed(radio, radio.phase, 0, b.got, radio.has \cup b.has)
    <3> HIDE DEF b
    <3> QED BY <1>2 DEF RadioRecord, Placed
  <2>16. radio' = Placed(radio, radio.phase, 0, b.got, radio.has \cup b.has) BY <1>13, <2>15
  <2> HIDE DEF d, got, has
  <2>8. /\ n \in Nat \ {0} /\ of \in Nat /\ b.dev \in Port(Pieces, D) /\ b.got \in Seq(Pieces)
        /\ \/ b.has = {} /\ (b.dev = d \/ b.dev = Says(d, <<Char("N", of)>>))
           \/ of \in 1 .. Blocks /\ b.has = {of}
    BY <1>2, <2>1, <2>3, <2>4, <2>5, <2>6, <2>7, PieceTakenIs
  <2>9. radio.has \cup b.has \in SUBSET (1 .. Blocks) BY <1>2, <2>8
  <2>10. RadioOK(radio') /\ radio'.has = radio.has \cup b.has
    <3> DEFINE p == Placed(radio, radio.phase, 0, b.got, radio.has \cup b.has)
    <3>1. RadioOK(p) /\ p.has = radio.has \cup b.has
      <4> HIDE DEF b, r
      <4> QED BY <1>2, <1>5, <2>8, <2>9, PlacedIs
    <3>2. radio' = p BY <2>16
    <3> HIDE DEF p
    <3> QED BY <3>1, <3>2
  <2>11. b.dev \in Port(Pieces, Letters(radio.has \cup b.has))
    <3>1. CASE of \in 1 .. Blocks /\ b.has = {of}
      <4>1. radio.has \cup b.has = has BY <3>1 DEF has
      <4> QED BY <2>8, <4>1
    <3>2. CASE b.has = {} /\ (b.dev = d \/ b.dev = Says(d, <<Char("N", of)>>))
      <4>1. radio.has \cup b.has = radio.has BY <3>2
      <4> DEFINE c == Char("N", of)
      <4>2. c \in C BY <2>5, <2>8
      <4>5. b.dev = d \/ b.dev = Says(d, <<c>>) BY <3>2
      <4> HIDE DEF c
      <4>3. <<c>> \in Seq(C) BY <4>2
      <4>4. Says(d, <<c>>) \in Port(Pieces, C) BY <1>3, <4>3, SaysIs
      <4> QED BY <1>3, <4>1, <4>4, <4>5
    <3> QED BY <2>8, <3>1, <3>2
  <2>12. dev' = b.dev BY <1>13
  <2>13. dev' \in Port(Pieces, Letters(radio'.has)) BY <2>10, <2>11, <2>12
  <2> QED BY <1>1, <2>10, <2>13, ModuleActs
<1> QED BY <1>8, <1>9, <1>10, <1>11, <1>12, <1>13

\* A radio of which the phase, the pieces or the time change.
LEMMA RadioSteps ==
    ASSUME IInv, UNCHANGED <<setup, source, idle, faults, history>>,
           NEW phase \in Phases, NEW quiet \in Waited, NEW got \in Seq(Pieces),
           radio' = Placed(radio, phase, quiet, got, radio.has),
           dev' \in Port(Pieces, Letters(radio.has))
    PROVE  IInv'
<1>1. RadioOK(radio) /\ radio.has \in SUBSET (1 .. Blocks)
  BY InstallType DEF RadioOK, RadioRecord
<1>2. RadioOK(radio') /\ radio'.has = radio.has BY <1>1, PlacedIs
<1> QED BY <1>2, ModuleActs

LEMMA ModuleSteps ==
    ASSUME IInv, Module
    PROVE  IInv'
<1> DEFINE C == Letters(radio.has)
           e == <<>>
<1>1. /\ radio \in RadioRecord /\ dev \in Port(Pieces, C) /\ radio.got \in Seq(Pieces)
      /\ radio.phase \in Phases /\ radio.quiet \in Waited /\ dev.asked \in Nat
  BY InstallType, MayBeTold DEF RadioOK, RadioRecord, Phases
<1>2. 0 \in Waited /\ e \in Seq(Pieces) BY WaitedCounts, EmptySeq
<1>3. {"app", "boot", "command"} \subseteq Phases BY DEF Phases
<1>4. CASE ModuleGreets
  <2> DEFINE c == Char("OK", dev.asked)
             f == Char("CR", dev.asked)
  <2>1. c \in C /\ f \in C BY <1>1, Written DEF Texts
  <2>2. /\ radio' = [radio EXCEPT !.phase = "command", !.quiet = 0]
        /\ dev' = IF Tuned THEN Says(dev, <<c, f>>) ELSE dev
        /\ UNCHANGED <<setup, source, idle, faults, history>>
    BY <1>4 DEF ModuleGreets
  <2> HIDE DEF c, f
  <2>3. <<c, f>> \in Seq(C) BY <2>1
  <2>4. Says(dev, <<c, f>>) \in Port(Pieces, C) BY <1>1, <2>3, SaysIs
  <2>5. radio' = Placed(radio, "command", 0, radio.got, radio.has)
    BY <1>1, <2>2 DEF RadioRecord, Placed
  <2>6. dev' \in Port(Pieces, C) BY <1>1, <2>2, <2>4
  <2> QED BY <1>1, <1>2, <1>3, <2>2, <2>5, <2>6, RadioSteps
<1>5. CASE ModuleLeaves
  <2>1. radio' = Placed(radio, "app", radio.quiet, radio.got, radio.has)
    BY <1>1, <1>5 DEF RadioRecord, Placed, ModuleLeaves
  <2>2. UNCHANGED <<setup, source, dev, idle, faults, history>> BY <1>5 DEF ModuleLeaves
  <2> QED BY <1>1, <1>3, <2>1, <2>2, RadioSteps
<1>6. CASE ModuleStarts
  <2> DEFINE p == IF dev.broken THEN "boot" ELSE "app"
  <2>1. radio' = [radio EXCEPT !.phase = p, !.got = e]
        /\ UNCHANGED <<setup, source, dev, idle, faults, history>>
    BY <1>6 DEF ModuleStarts
  <2>2. p \in Phases BY <1>3
  <2> HIDE DEF p, e
  <2>3. radio' = Placed(radio, p, radio.quiet, e, radio.has)
    BY <1>1, <2>1 DEF RadioRecord, Placed
  <2> QED BY <1>1, <1>2, <2>1, <2>2, <2>3, RadioSteps
<1> QED BY <1>4, <1>5, <1>6, ModuleReadsSteps DEF Module

-----------------------------------------------------------------------------
(* Faults and time *)

\* The buffer of what was received changes.
LEMMA LineFailsSteps ==
    ASSUME IInv, LineFails
    PROVE  dev' \in Port(Pieces, Letters(radio.has)) /\ history' \in HistoryRecord
           /\ history'.crossed = history.crossed /\ history'.misread = history.misread
<1> DEFINE C == Letters(radio.has)
           b == dev.back
           k == [history EXCEPT !.forged = TRUE]
<1>1. dev \in Port(Pieces, C) /\ history \in HistoryRecord /\ b \in Seq(C) /\ Len(b) <= RxRoom
      /\ RxRoom \in Nat
  BY InstallType, OemAssumption DEF Port, Device
<1>2. k \in HistoryRecord /\ k.crossed = history.crossed /\ k.misread = history.misread
  BY <1>1 DEF HistoryRecord
<1>3. \A s \in Seq(C) : Len(s) <= RxRoom => [dev EXCEPT !.back = s] \in Port(Pieces, C)
  BY <1>1 DEF Port, Device
<1>4. Len(b) \in Nat BY <1>1, LenProperties
<1>5. CASE ItemLost
  <2>1. dev.line # <<>> /\ dev' = [dev EXCEPT !.line = Tail(@)] /\ UNCHANGED history
    BY <1>5 DEF ItemLost
  <2> QED BY <1>1, <2>1, ItemIsTaken
<1>6. CASE CharLost
  <2> DEFINE u == Tail(b)
  <2>1. b # <<>> /\ dev' = [dev EXCEPT !.back = u] /\ UNCHANGED history BY <1>6 DEF CharLost
  <2>2. u \in Seq(C) /\ Len(u) = Len(b) - 1 BY <1>1, <2>1, TailIs
  <2> HIDE DEF u
  <2>3. Len(u) <= RxRoom BY <1>1, <1>4, <2>2
  <2> QED BY <1>1, <1>3, <2>1, <2>2, <2>3
<1>7. CASE CharForged
  <2>1. PICK ch \in Chars :
           \/ b # <<>> /\ dev' = [dev EXCEPT !.back = <<Char(ch, 0)>> \o Tail(b)]
           \/ Len(b) < RxRoom /\ dev' = [dev EXCEPT !.back = Append(b, Char(ch, 0))]
    <3>1. \E ch \in IF Session THEN {"OK", "CR", "junk"} ELSE Chars :
           \/ b # <<>> /\ dev' = [dev EXCEPT !.back = <<Char(ch, 0)>> \o Tail(b)]
           \/ Len(b) < RxRoom /\ dev' = [dev EXCEPT !.back = Append(b, Char(ch, 0))]
      BY <1>7 DEF CharForged
    <3>2. {"OK", "CR", "junk"} \subseteq Chars BY DEF Chars, Texts
    <3> QED BY <3>1, <3>2
  <2>2. history' = k BY <1>7 DEF CharForged
  <2> DEFINE c == Char(ch, 0)
             u == Tail(b)
             v == <<c>> \o u
             w == Append(b, c)
  <2>3. c \in C BY Written
  <2> HIDE DEF c
  <2>4. b # <<>> => u \in Seq(C) /\ Len(u) = Len(b) - 1 BY <1>1, TailIs
  <2>5. w \in Seq(C) /\ Len(w) = Len(b) + 1 BY <1>1, <2>3, AppendProperties
  <2>6. b # <<>> => v \in Seq(C) /\ Len(v) = Len(b)
    <3>1. HAVE b # <<>>
    <3>2. <<c>> \in Seq(C) /\ Len(<<c>>) = 1 BY <2>3
    <3> HIDE DEF u
    <3>3. v \in Seq(C) /\ Len(v) = 1 + Len(u) BY <2>4, <3>1, <3>2, ConcatProperties
    <3> QED BY <1>4, <2>4, <3>1, <3>3
  <2>7. \/ b # <<>> /\ dev' = [dev EXCEPT !.back = v]
        \/ Len(b) < RxRoom /\ dev' = [dev EXCEPT !.back = w]
    BY <2>1 DEF c
  <2> HIDE DEF u, v, w
  <2>8. CASE b # <<>> /\ dev' = [dev EXCEPT !.back = v]
    BY <1>1, <1>2, <1>3, <2>2, <2>6, <2>8
  <2>9. CASE Len(b) < RxRoom /\ dev' = [dev EXCEPT !.back = w]
    <3>1. Len(w) <= RxRoom BY <1>1, <1>4, <2>5, <2>9
    <3> QED BY <1>2, <1>3, <2>2, <2>5, <2>9, <3>1
  <2> QED BY <2>7, <2>8, <2>9
<1> QED BY <1>5, <1>6, <1>7 DEF LineFails

LEMMA FaultSteps ==
    ASSUME IInv, Fault
    PROVE  IInv'
<1>1. /\ faults > 0 /\ faults' = faults - 1 /\ UNCHANGED <<setup, idle>>
      /\ LineFails \/ ModuleResets \/ FileFails
  BY DEF Fault, Spend
<1>2. faults' \in 0 .. MaxFault
  <2>1. faults \in 0 .. MaxFault /\ MaxFault \in Nat BY OemAssumption DEF IInv
  <2> QED BY <1>1, <2>1
<1>3. /\ SourceOK(source, radio.has) /\ source \in SourceRecord /\ Sized(source)
      /\ RadioOK(radio) /\ radio \in RadioRecord /\ Brought(source, radio, history)
      /\ radio.has \in SUBSET (1 .. Blocks)
  BY InstallType DEF IInv, RadioRecord
<1>4. CASE LineFails
  <2>1. UNCHANGED <<source, radio>> BY <1>4 DEF LineFails
  <2>2. /\ dev' \in Port(Pieces, Letters(radio.has)) /\ history' \in HistoryRecord
        /\ history'.crossed = history.crossed /\ history'.misread = history.misread
    BY <1>4, LineFailsSteps
  <2>3. Brought(source, radio, history') BY <1>3, <2>2 DEF Brought
  <2> QED BY <1>1, <1>2, <2>1, <2>2, <2>3 DEF IInv
<1>5. CASE ModuleResets
  <2> DEFINE p == IF dev.broken THEN "boot" ELSE "app"
             e == <<>>
             r == Placed(radio, p, radio.quiet, e, radio.has)
  <2>1. p \in Phases /\ e \in Seq(Pieces) BY EmptySeq DEF Phases
  <2>2. radio' = [radio EXCEPT !.phase = p, !.got = e] /\ UNCHANGED <<source, dev, history>>
    BY <1>5 DEF ModuleResets
  <2> HIDE DEF p, e
  <2>3. radio' = r BY <1>3, <2>2 DEF RadioRecord, Placed
  <2>4. radio.quiet \in Waited BY <1>3 DEF RadioRecord
  <2>5. RadioOK(r) /\ r.has = radio.has BY <1>3, <2>1, <2>4, PlacedIs
  <2> HIDE DEF r
  <2>6. Brought(source, r, history) BY <1>3, <2>5 DEF Brought
  <2> QED BY <1>1, <1>2, <2>2, <2>3, <2>5, <2>6 DEF IInv
<1>6. CASE FileFails
  <2> DEFINE t == [source EXCEPT !.bad = TRUE]
  <2>1. source' = t /\ UNCHANGED <<dev, radio, history>> BY <1>6 DEF FileFails
  <2>2. /\ t \in SourceRecord /\ t.buffer = source.buffer /\ t.block = source.block
        /\ t.next = source.next /\ t.state = source.state /\ t.ret = source.ret
        /\ t.tries = source.tries /\ t.left = source.left
    BY <1>3 DEF SourceRecord
  <2> HIDE DEF t
  <2>3. SourceOK(t, radio.has) BY <1>3, <2>2 DEF SourceOK, Sized
  <2>4. Brought(t, radio, history) BY <1>3, <2>2 DEF Brought
  <2> QED BY <1>1, <1>2, <2>1, <2>3, <2>4 DEF IInv
<1> QED BY <1>1, <1>4, <1>5, <1>6

LEMMA TimePassesSteps ==
    ASSUME IInv, TimePasses
    PROVE  IInv'
<1>1. /\ idle < MaxGap /\ idle' = idle + 1 /\ UNCHANGED <<setup, faults, history>>
      /\ source' = [source EXCEPT !.timer = Later(@, 1)]
      /\ dev' = [dev EXCEPT !.age = Later(@, 1)]
      /\ radio' = [radio EXCEPT !.quiet = Later(@, 1)]
  BY DEF TimePasses
<1>2. idle' \in 0 .. MaxGap
  <2>1. idle \in 0 .. MaxGap /\ MaxGap \in Nat BY OemAssumption DEF IInv
  <2> QED BY <1>1, <2>1
<1>3. Waited \subseteq Nat BY WaitedCounts
<1>4. \A t \in Waited : Later(t, 1) \in Waited BY <1>3 DEF Later, Unset
<1>5. \A t \in Waited \cup {Unset} : Later(t, 1) \in Waited \cup {Unset} BY <1>3 DEF Later, Unset
<1>6. /\ SourceOK(source, radio.has) /\ source \in SourceRecord /\ Sized(source)
      /\ RadioOK(radio) /\ radio \in RadioRecord /\ Brought(source, radio, history)
      /\ dev \in Port(Pieces, Letters(radio.has))
      /\ radio.has \in SUBSET (1 .. Blocks) /\ radio.got \in Seq(Pieces)
      /\ radio.phase \in Phases /\ radio.quiet \in Waited
  BY InstallType DEF IInv, RadioOK, RadioRecord, Phases
<1>7. PICK a : a = Later(source.timer, 1) OBVIOUS
<1>8. PICK q : q = Later(dev.age, 1) OBVIOUS
<1>9. PICK c : c = Later(radio.quiet, 1) OBVIOUS
<1>10. a \in Waited \cup {Unset} BY <1>5, <1>6, <1>7 DEF SourceRecord
<1>11. q \in Waited BY <1>4, <1>6, <1>8 DEF Port, Device
<1>12. c \in Waited BY <1>4, <1>6, <1>9
<1> DEFINE t == [source EXCEPT !.timer = a]
           p == [dev EXCEPT !.age = q]
           r == Placed(radio, radio.phase, c, radio.got, radio.has)
<1>13. source' = t /\ dev' = p BY <1>1, <1>7, <1>8
<1>14. radio' = r BY <1>1, <1>6, <1>9 DEF RadioRecord, Placed
<1>15. /\ t \in SourceRecord /\ t.buffer = source.buffer /\ t.block = source.block
       /\ t.next = source.next /\ t.state = source.state /\ t.ret = source.ret
       /\ t.tries = source.tries /\ t.left = source.left
  BY <1>6, <1>10 DEF SourceRecord
<1>16. p \in Port(Pieces, Letters(radio.has)) BY <1>6, <1>11 DEF Port, Device
<1>17. RadioOK(r) /\ r.has = radio.has BY <1>6, <1>12, PlacedIs
<1> HIDE DEF t, p, r
<1>18. SourceOK(t, radio.has) BY <1>6, <1>15 DEF SourceOK, Sized
<1>19. Brought(t, r, history) BY <1>6, <1>15, <1>17 DEF Brought
<1>20. setup \in SetupRecord /\ faults \in 0 .. MaxFault /\ history \in HistoryRecord BY DEF IInv
<1> QED BY <1>1, <1>2, <1>13, <1>14, <1>16, <1>17, <1>18, <1>19, <1>20 DEF IInv

-----------------------------------------------------------------------------
(* The types, and the whole image *)

LEMMA InvInit ==
    ASSUME Init
    PROVE  IInv
<1> DEFINE e == <<>>
           st == IF setup.use = "install" THEN "INIT" ELSE "SESSION"
           s == [state |-> st, next |-> "INIT", tries |-> 0, timer |-> Unset, buffer |-> e,
                 block |-> 1, left |-> 0, bad |-> FALSE, ret |-> "0"]
           d == [mode |-> setup.mode, age |-> 0, line |-> e, back |-> e, asked |-> 0,
                 baud |-> setup.speed, broken |-> FALSE]
           r == [phase |-> "app", quiet |-> 0, got |-> e, has |-> {}]
           h == [crossed |-> FALSE, missed |-> FALSE, forged |-> FALSE, misread |-> FALSE]
<1>1. source = s /\ dev = d /\ radio = r /\ history = h /\ idle = 0 BY DEF Init
<1>2. faults \in 0 .. MaxFault /\ idle \in 0 .. MaxGap
  <2>1. MaxFault \in Nat /\ MaxGap \in Nat BY OemAssumption
  <2>2. faults = IF setup.prompt THEN 0 ELSE MaxFault BY DEF Init
  <2> QED BY <1>1, <2>1, <2>2
<1>3. setup \in SetupRecord BY SetupsAssumption DEF Init
<1>4. e \in Seq(Items) /\ e \in Seq(Pieces) /\ e \in Seq(CharRecord) /\ e \in Seq(Letters({}))
      /\ Len(e) = 0
  BY EmptySeq
<1>5. 0 \in Waited /\ st \in States /\ "INIT" \in States BY WaitedCounts DEF States
<1>6. setup.mode \in Modes /\ setup.speed \in {"slow", "fast", "boot"}
  BY <1>3 DEF SetupRecord, Modes
<1>7. Blocks \in Nat \ {0} /\ Tries \in Nat /\ Room \in Nat /\ RxRoom \in Nat
  BY OemAssumption, AtModeAssumption
<1>8. st \notin {"SENDING", "RX_BLOCK", "FINAL_PROMPT", "SUCCESS"} OBVIOUS
<1> HIDE DEF e, st
<1>9. s \in SourceRecord
  <2>1. 1 \in 1 .. Blocks + 1 /\ 0 \in 0 .. Tries + 1 /\ 0 \in Nat BY <1>7
  <2> QED BY <1>4, <1>5, <2>1 DEF SourceRecord
<1>10. d \in Port(Pieces, Letters({}))
  <2>1. d \in Device(Waited, Pieces, Letters({})) BY <1>4, <1>5, <1>6 DEF Device
  <2>2. Len(d.line) <= Room /\ Len(d.back) <= RxRoom BY <1>4, <1>7
  <2> HIDE DEF d
  <2> QED BY <2>1, <2>2 DEF Port
<1>11. RadioOK(r) /\ r.has = {}
  <2>1. r \in RadioRecord BY <1>4, <1>5 DEF RadioRecord
  <2> QED BY <1>4, <2>1 DEF RadioOK
<1>12. h \in HistoryRecord BY DEF HistoryRecord
<1>13. SourceOK(s, {})
  <2>1. Sized(s) BY <1>8 DEF Sized
  <2> QED BY <1>4, <1>9, <2>1 DEF SourceOK
<1>14. Brought(s, r, h)
  <2>1. 1 .. 1 - 1 = {} OBVIOUS
  <2> QED BY <1>8, <2>1 DEF Brought
<1> HIDE DEF s, d, r, h
<1> QED BY <1>1, <1>2, <1>3, <1>10, <1>11, <1>12, <1>13, <1>14 DEF IInv

LEMMA InvStep ==
    ASSUME IInv, [Next]_vars
    PROVE  IInv'
<1>1. CASE Next BY <1>1, TickSteps, ModuleSteps, FaultSteps, TimePassesSteps DEF Next
<1>2. CASE UNCHANGED vars
  <2>1. UNCHANGED <<setup, source, dev, radio, idle, faults, history>> BY <1>2 DEF vars
  <2> QED BY <2>1 DEF IInv
<1> QED BY <1>1, <1>2

\* What IInv says of the types.
LEMMA InvType ==
    ASSUME IInv
    PROVE  TypeOK
<1>1. /\ source \in SourceRecord /\ radio \in RadioRecord
      /\ dev \in Port(Pieces, Letters(radio.has))
  BY InstallType
<1>2. Pieces \subseteq Items /\ Letters(radio.has) \subseteq CharRecord BY DEF Pieces, Letters
<1>3. dev.line \in Seq(Items) /\ dev.back \in Seq(CharRecord)
  <2>1. dev.line \in Seq(Pieces) /\ dev.back \in Seq(Letters(radio.has)) BY <1>1 DEF Port, Device
  <2> QED BY <1>2, <2>1, SeqMonotonic
<1>4. dev \in Device(Waited, Items, CharRecord) BY <1>1, <1>3 DEF Port, Device
<1> QED BY <1>1, <1>4 DEF IInv, TypeOK, Port

\* Every variable has its type, whatever is attached: the driver keeps its block number,
\* its tries and what is left within their bounds, and no buffer of the port holds more
\* than it has room for.
THEOREM TypeCorrect == Spec => []TypeOK
<1>1. Init => IInv BY InvInit
<1>2. IInv /\ [Next]_vars => IInv' BY InvStep
<1>3. IInv => TypeOK BY InvType
<1> QED BY <1>1, <1>2, <1>3, PTL DEF Spec

\* An update that is reported as done has brought every block of the image, whatever
\* module, port and line: unless an answer was taken for another one, or the file failed
\* and was taken for its end.
THEOREM WholeImageHolds == Spec => []WholeImage
<1>1. Init => IInv BY InvInit
<1>2. IInv /\ [Next]_vars => IInv' BY InvStep
<1>3. IInv => WholeImage BY DEF IInv, Brought, WholeImage
<1> QED BY <1>1, <1>2, <1>3, PTL DEF Spec

-----------------------------------------------------------------------------
(* The inductive invariant of OwnAnswer: one question at a time *)

Straight(h) == ~h.missed /\ ~h.forged

\* The answer to a request.
Own(n) == {c \in CharRecord : c.of = n}

\* Nothing is on its way, and nothing will come.
Quiet(d, r) == d.line = <<>> /\ d.back = <<>> /\ r.phase # "escaped"

\* The escape sequence is on its way, or is being answered.
Greeting(d, r) ==
    /\ Len(d.line) <= 1 /\ Len(d.back) <= 2
    /\ d.line # <<>> => d.line[1].kind = "+++" /\ d.back = <<>> /\ r.phase # "escaped"
    /\ r.phase = "escaped" => d.back = <<>>

\* A request is on its way, or its answer: nothing follows the return that ends it.
Asked(d, r, buffer) ==
    /\ r.phase # "escaped" /\ Len(d.line) <= 1
    /\ d.line # <<>> => d.line[1].kind \in Commands /\ d.line[1].of = d.asked /\ d.back = <<>>
    /\ d.back \in Seq(Own(d.asked)) /\ buffer \in Seq(Own(d.asked))
    /\ \A i \in 1 .. Len(d.back) : d.back[i].ch = "CR" => i = Len(d.back)

\* As the mode of the device says.
Dialogue(d, r, buffer) ==
    /\ d.mode = "POST_ESCAPE" => Greeting(d, r)
    /\ d.mode \in Awaiting => Asked(d, r, buffer)
    /\ d.mode \notin Awaiting \cup {"POST_ESCAPE"} => Quiet(d, r)

\* The bootloader is asked for its first answer.
Starts(d, r) ==
    /\ r.phase # "escaped" /\ Len(d.line) + Len(d.back) <= 1
    /\ d.line # <<>> => d.line[1].kind = "+"

\* The pieces that were sent of the block.
Sent(s) == IF s.state = "SENDING" THEN Parts - s.left ELSE Parts

\* A block is on its way: its pieces in their order.  What comes back says no, and then the
\* block is not completed, because its first piece was taken already.
Underway(s, d, r) ==
    /\ \A i \in 1 .. Len(d.line) :
          /\ d.line[i].kind \in {"data", "stale"} /\ d.line[i].of = s.block
          /\ d.line[i].part \in 1 .. Sent(s)
    /\ \A i, j \in 1 .. Len(d.line) : i < j => d.line[i].part < d.line[j].part
    /\ \A i \in 1 .. Len(d.back) : d.back[i].ch = "N"
    /\ d.back # <<>> =>
          /\ Sent(s) >= 1 /\ \A i \in 1 .. Len(d.line) : d.line[i].part # 1
          /\ r.got # <<>> => r.got[1].part # 1
    /\ s.state = "RX_BLOCK" => s.bad \/ s.left = Len(Reply)

\* The block was completed, and its response is all that comes.
Replied(s, d) ==
    /\ s.state = "RX_BLOCK" /\ d.line = <<>>
    /\ \A i \in 1 .. Len(d.back) : d.back[i].of = s.block
    /\ s.bad \/ Len(d.back) <= s.left

Sends(s, d, r) == r.phase # "escaped" /\ (Underway(s, d, r) \/ Replied(s, d))

InTurn(s, d, r) ==
    /\ Session => /\ s.state = "SESSION" /\ s.ret = "0"
                  /\ d.mode \notin Awaiting => s.buffer = <<>>
    /\ s.ret = "0" =>
          /\ s.state \in {"INIT", "RESET"} => Quiet(d, r) /\ s.buffer = <<>>
          /\ s.state = "CMD_PENDING" => Dialogue(d, r, s.buffer) /\ s.buffer = <<>>
          /\ s.state = "PARSE_RESPONSE" => Dialogue(d, r, s.buffer) /\ s.next \in Answered
          /\ s.state = "SESSION" => Dialogue(d, r, s.buffer)
          /\ s.state \in Answered \cup {"BREAK", "BOOTLOADER", "TX_BLOCK"} => Quiet(d, r)
          /\ s.state = "TX_START" => Starts(d, r)
          /\ s.state \in {"SENDING", "RX_BLOCK"} => Sends(s, d, r)

Ordered == Straight(history) => ~history.crossed /\ InTurn(source, dev, radio)

-----------------------------------------------------------------------------
(* Turns of the dialogue *)

\* A source that has failed, or goes to a state in which nothing is said.
LEMMA SaysNothing ==
    ASSUME NEW s, NEW d, NEW r, ~Session,
           s.ret # "0" \/ s.state \in {"RX_FAIL", "FINAL_PROMPT", "SUCCESS", "FAILURE"}
    PROVE  InTurn(s, d, r)
BY DEF InTurn, Answered

\* Where nothing is on its way, any mode but that of an escape sequence may be gone to.
LEMMA QuietTalks ==
    ASSUME NEW d, NEW r, Quiet(d, r), NEW buffer, buffer = <<>>
    PROVE  Dialogue(d, r, buffer)
<1> DEFINE e == <<>>
<1>1. e \in Seq(Own(d.asked)) /\ Len(e) = 0 BY EmptySeq
<1>2. d.line = e /\ d.back = e /\ buffer = e /\ r.phase # "escaped" BY DEF Quiet
<1>3. 1 .. Len(e) = {} BY <1>1
<1>4. ~(d.line # <<>>) BY <1>2
<1>5. Asked(d, r, buffer)
  <2> HIDE DEF e
  <2> QED BY <1>1, <1>2, <1>3, <1>4 DEF Asked
<1>6. Greeting(d, r)
  <2> HIDE DEF e
  <2> QED BY <1>1, <1>2, <1>4 DEF Greeting
<1> QED BY <1>5, <1>6 DEF Dialogue

\* Modes in which nothing is on its way.
LEMMA TalksQuietly ==
    ASSUME NEW d, NEW r, NEW buffer, Dialogue(d, r, buffer),
           d.mode \in {"UNKNOWN", "IDLE", "PRE_ESCAPE", "COMMAND"}
    PROVE  Quiet(d, r)
BY DEF Dialogue, Awaiting

\* A sequence is empty when its length is zero.
LEMMA EmptyIs ==
    ASSUME NEW S, NEW s \in Seq(S), NEW n \in Nat, n = Len(s)
    PROVE  s = <<>> <=> n = 0
BY EmptySeq

\* A tick that gives nothing up.
LEMMA TickedTalks ==
    ASSUME NEW I, NEW C, NEW d \in Port(I, C), Item("+++", d.asked, 0) \in I,
           NEW r, NEW buffer, Dialogue(d, r, buffer),
           ~(d.mode = "POST_ESCAPE" /\ Ticked(d).mode = "IDLE"),
           ~(d.mode \in {"WAIT_RESPONSE", "WAIT_IDLE"} /\ Ticked(d).mode # d.mode)
    PROVE  /\ Dialogue(Ticked(d), r, buffer)
           /\ Ticked(d).mode \in Awaiting <=> d.mode \in Awaiting
<1> DEFINE t == Ticked(d)
           x == Item("+++", d.asked, 0)
           e == <<>>
<1>1. /\ t \in Port(I, C) /\ t.asked = d.asked
      /\ \/ t = d
         \/ /\ d.mode = "PRE_ESCAPE" /\ t.mode = "POST_ESCAPE" /\ t.back = <<>>
            /\ t.line = IF Len(d.line) < Room THEN Append(d.line, x) ELSE d.line
         \/ /\ d.mode = "POST_ESCAPE" /\ t.mode \in {"COMMAND", "IDLE"}
            /\ Len(d.back) >= 2 /\ t.back = Tail(Tail(d.back)) /\ t.line = d.line
         \/ Expires(d.mode, t.mode) /\ t.line = d.line /\ t.back = d.back
  BY TickedIs
<1>2. /\ d.line \in Seq(I) /\ d.back \in Seq(C) /\ Len(d.line) \in Nat /\ Len(d.back) \in Nat
  BY LenProperties DEF Port, Device
<1>3. ~(d.mode = "POST_ESCAPE" /\ t.mode = "IDLE")
      /\ ~(d.mode \in {"WAIT_RESPONSE", "WAIT_IDLE"} /\ t.mode # d.mode)
  OBVIOUS
<1>4. x.kind = "+++" BY DEF Item
<1>8. x \in I OBVIOUS
<1> HIDE DEF t, x
<1>5. CASE d.mode = "PRE_ESCAPE" /\ t.mode = "POST_ESCAPE" /\ t.back = <<>>
           /\ t.line = IF Len(d.line) < Room THEN Append(d.line, x) ELSE d.line
  <2>1. Quiet(d, r) BY <1>5, TalksQuietly
  <2>2. d.line = e /\ r.phase # "escaped" BY <2>1 DEF Quiet
  <2>3. e \in Seq(I) /\ Len(e) = 0 BY EmptySeq
  <2>4. t.back = e BY <1>5
  <2>9. ~(e # <<>>) OBVIOUS
  <2> HIDE DEF e
  <2>5. Len(Append(e, x)) = 1 /\ Append(e, x)[1] = x
    <3>1. Len(Append(e, x)) = 0 + 1 /\ Append(e, x)[0 + 1] = x BY <1>8, <2>3, AppendProperties
    <3> QED BY <3>1
  <2>6. t.line \in {e, Append(e, x)} BY <1>5, <2>2
  <2>7. Len(t.line) <= 1 /\ (t.line # <<>> => t.line[1] = x)
    <3>1. CASE t.line = e BY <2>3, <2>9, <3>1
    <3>2. CASE t.line = Append(e, x)
      <4>1. Len(t.line) = 1 /\ t.line[1] = x BY <2>5, <3>2
      <4> QED BY <4>1
    <3> QED BY <2>6, <3>1, <3>2
  <2>8. Greeting(t, r)
    <3>1. t.back = <<>> BY <1>5
    <3>2. Len(t.back) <= 2 BY <2>3, <2>4
    <3> QED BY <1>4, <2>2, <2>7, <3>1, <3>2 DEF Greeting
  <2> QED BY <1>5, <2>8 DEF Dialogue, Awaiting, t
<1>6. CASE /\ d.mode = "POST_ESCAPE" /\ t.mode \in {"COMMAND", "IDLE"}
           /\ Len(d.back) >= 2 /\ t.back = Tail(Tail(d.back)) /\ t.line = d.line
  <2>1. Greeting(d, r) BY <1>6 DEF Dialogue
  <2>2. PICK m \in Nat : m = Len(d.back) BY <1>2
  <2>8. m = 2
    <3>1. m <= 2 BY <2>1, <2>2 DEF Greeting
    <3>2. m >= 2 BY <1>6, <2>2
    <3> QED BY <3>1, <3>2
  <2>5. m # 0 BY <2>8
  <2>9. d.back # <<>> BY <1>2, <2>2, <2>5, EmptyIs
  <2>3. d.line = <<>> /\ r.phase # "escaped" BY <2>1, <2>9 DEF Greeting
  <2> DEFINE u == Tail(d.back)
  <2>4. u \in Seq(C) /\ Len(u) = m - 1 BY <1>2, <2>2, <2>9, TailIs
  <2>6. Tail(u) = <<>>
    <3> DEFINE l == m - 1
               w == Tail(u)
    <3>1. l \in Nat /\ l # 0 /\ l = Len(u) /\ l = 1 /\ u \in Seq(C) BY <2>4, <2>8
    <3> HIDE DEF u, l
    <3>2. u # <<>> BY <3>1, EmptyIs
    <3>3. w \in Seq(C) /\ Len(w) = l - 1 BY <3>1, <3>2, TailIs
    <3> DEFINE n == l - 1
    <3>4. n \in Nat /\ n = 0 /\ n = Len(w) BY <3>1, <3>3
    <3> HIDE DEF n, w
    <3>5. w = <<>> BY <3>3, <3>4, EmptyIs
    <3> QED BY <3>5 DEF w
  <2>7. Quiet(t, r) BY <1>6, <2>3, <2>6 DEF Quiet
  <2> QED BY <1>6, <2>7 DEF Dialogue, Awaiting, t
<1>7. CASE Expires(d.mode, t.mode) /\ t.line = d.line /\ t.back = d.back
  <2>1. d.mode = "COMMAND" /\ t.mode = "IDLE" BY <1>3, <1>7 DEF Expires
  <2>2. Quiet(d, r) BY <2>1, TalksQuietly
  <2>3. Quiet(t, r) BY <1>7, <2>2 DEF Quiet
  <2> QED BY <2>1, <2>3 DEF Dialogue, Awaiting, t
<1>9. CASE t = d BY <1>9 DEF t
<1> QED BY <1>1, <1>5, <1>6, <1>7, <1>9

\* A request where nothing is on its way.
LEMMA RequestedTalks ==
    ASSUME NEW I, NEW C, NEW d \in Port(I, C), NEW command \in Commands,
           Item(command, d.asked + 1, 0) \in I,
           NEW r, Quiet(d, r), NEW buffer, buffer = <<>>
    PROVE  /\ Requested(d, command).mode = "WAIT_RESPONSE"
           /\ Asked(Requested(d, command), r, buffer)
<1> DEFINE q == Requested(d, command)
           x == Item(command, d.asked + 1, 0)
           e == <<>>
<1>1. /\ q \in Port(I, C) /\ q.back = d.back
      /\ \/ Len(d.line) >= Room /\ q = d
         \/ /\ Len(d.line) < Room /\ q.line = Append(d.line, x)
            /\ q.mode = "WAIT_RESPONSE" /\ q.asked = d.asked + 1
  BY RequestedIs
<1>2. d.line = e /\ d.back = e /\ buffer = e /\ r.phase # "escaped" /\ buffer = <<>> BY DEF Quiet
<1>3. /\ e \in Seq(I) /\ e \in Seq(Own(q.asked)) /\ Len(e) = 0 /\ e = <<>> BY EmptySeq
<1>4. Room \in Nat \ {0} BY AtModeAssumption
<1>5. x.kind = command /\ x.of = d.asked + 1 /\ x \in I BY DEF Item
<1> HIDE DEF e, q, x
<1>6. q.line = Append(e, x) /\ q.mode = "WAIT_RESPONSE" /\ q.asked = d.asked + 1
  BY <1>1, <1>2, <1>3, <1>4
<1>7. Len(Append(e, x)) = 1 /\ Append(e, x)[1] = x
  <2>1. Len(Append(e, x)) = 0 + 1 /\ Append(e, x)[0 + 1] = x BY <1>3, <1>5, AppendProperties
  <2> QED BY <2>1
<1>8. 1 .. Len(e) = {} BY <1>3
<1>9. Asked(q, r, buffer)
  <2>1. q.back = <<>> BY <1>1, <1>2, <1>3
  <2>2. q.back \in Seq(Own(q.asked)) /\ buffer \in Seq(Own(q.asked)) BY <1>1, <1>2, <1>3
  <2>3. 1 .. Len(q.back) = {} BY <1>1, <1>2, <1>8
  <2>4. Len(q.line) <= 1 /\ q.line[1].kind \in Commands /\ q.line[1].of = q.asked
    BY <1>5, <1>6, <1>7
  <2> QED BY <1>2, <2>1, <2>2, <2>3, <2>4 DEF Asked
<1> QED BY <1>6, <1>9 DEF q

\* A read of the answer: what is taken answers the request, and with the return nothing is
\* left.
ReadsOwn(d, r, q) ==
    /\ LET taken == q.buffer \o SubSeq(d.back, 1, Len(d.back) - Len(q.dev.back))
       IN  \A i \in 1 .. Len(taken) : taken[i].of = d.asked
    /\ q.ret = "0" => Quiet(q.dev, r) /\ q.dev.mode \in {"IDLE", "COMMAND"}
    /\ q.ret \in {"EAGAIN", "ENOSPC"} =>
          q.dev.mode = d.mode /\ Asked(q.dev, r, q.buffer) /\ Asked(q.dev, r, <<>>)
LEMMA ReadTalks ==
    ASSUME NEW I, NEW C, NEW d \in Port(I, C), d.mode \in Awaiting,
           NEW r, NEW buffer, Asked(d, r, buffer)
    PROVE  ReadsOwn(d, r, Read(d, buffer))
<1> DEFINE n == d.asked
           O == Own(n)
           b == d.back
           q == Read(d, buffer)
           p == q.dev
           e == <<>>
           u == SubSeq(b, 1, Len(b) - Len(p.back))
           taken == q.buffer \o u
<1>1. /\ b \in Seq(O) /\ buffer \in Seq(O) /\ r.phase # "escaped" /\ Len(d.line) <= 1
      /\ \A i \in 1 .. Len(b) : b[i].ch = "CR" => i = Len(b)
      /\ d.line # <<>> => d.line[1].kind \in Commands /\ d.line[1].of = n /\ b = <<>>
  BY DEF Asked
<1>2. Len(b) \in Nat BY <1>1, LenProperties
<1>3. d \in Port(I, O) BY <1>1 DEF Port, Device
<1> HIDE DEF O
<1>4. /\ p \in Port(I, O) /\ q.buffer \in Seq(O) /\ p.line = d.line /\ p.asked = n
      /\ \E k \in 0 .. Len(b) :
            /\ p.back = SubSeq(b, k + 1, Len(b))
            /\ q.ret = "0" => k >= 1 /\ b[k].ch = "CR"
      /\ \/ q.ret = "EPERM" /\ d.mode \notin Awaiting
         \/ q.ret \in {"ENOSPC", "EAGAIN"} /\ d.mode \in Awaiting /\ p.mode = d.mode
         \/ /\ q.ret \in {"0", "ETIMEDOUT"} /\ d.mode \in Awaiting
            /\ p.mode = IF d.mode = "WAIT_IDLE" THEN "IDLE" ELSE "COMMAND"
  BY <1>1, <1>3, ReadIs
<1>6. e \in Seq(O) /\ Len(e) = 0 /\ e = <<>> BY EmptySeq
<1> HIDE DEF n, q, p, e, b
<1>5. PICK k \in 0 .. Len(b) :
         /\ p.back = SubSeq(b, k + 1, Len(b))
         /\ q.ret = "0" => k >= 1 /\ b[k].ch = "CR"
  BY <1>4
<1>7. /\ p.back \in Seq(O) /\ Len(p.back) = Len(b) - k
      /\ \A i \in 1 .. Len(b) - k : p.back[i] = b[k + i]
  <2> DEFINE v == SubSeq(b, k + 1, Len(b))
  <2>1. v \in Seq(O) /\ Len(v) = Len(b) - k /\ \A i \in 1 .. Len(b) - k : v[i] = b[k + i]
    BY <1>1, Rest
  <2>2. p.back = v BY <1>5
  <2> HIDE DEF v
  <2> QED BY <2>1, <2>2
<1>8. Len(b) - Len(p.back) \in 0 .. Len(b) BY <1>2, <1>5, <1>7
<1>9. u \in Seq(O) BY <1>1, <1>8, Start
<1> HIDE DEF u
<1>10. taken \in Seq(O) BY <1>4, <1>9, ConcatProperties
<1> HIDE DEF taken
<1>11. \A i \in 1 .. Len(taken) : taken[i].of = n
  <2>1. \A i \in 1 .. Len(taken) : taken[i] \in O BY <1>10, ElementOfSeq
  <2> QED BY <2>1 DEF O, Own
<1>12. b = <<>> => p.back = <<>>
  <2>1. HAVE b = <<>>
  <2>2. b = e BY <1>6, <2>1
  <2>3. Len(b) = 0 BY <1>6, <2>2
  <2>4. Len(p.back) = 0 BY <1>2, <1>5, <1>7, <2>3
  <2> QED BY <1>7, <2>4, EmptySeq
<1>13. ASSUME q.ret = "0" PROVE Quiet(p, r) /\ p.mode \in {"IDLE", "COMMAND"}
  <2>1. k >= 1 /\ k \in 1 .. Len(b) /\ b[k].ch = "CR" BY <1>2, <1>5, <1>13
  <2>2. k = Len(b) BY <1>1, <2>1
  <2>3. Len(p.back) = 0 BY <1>2, <1>7, <2>2
  <2>4. p.back = <<>> BY <1>7, <2>3, EmptySeq
  <2>5. b # <<>>
    <3>1. b # e BY <1>2, <1>6, <2>1
    <3> QED BY <1>6, <3>1
  <2>6. p.line = <<>> BY <1>1, <1>4, <2>5
  <2>7. p.mode \in {"IDLE", "COMMAND"} BY <1>4, <1>13
  <2> QED BY <1>1, <2>4, <2>6, <2>7 DEF Quiet
<1>14. ASSUME q.ret \in {"EAGAIN", "ENOSPC"}
       PROVE  p.mode = d.mode /\ Asked(p, r, q.buffer) /\ Asked(p, r, <<>>)
  <2>1. p.mode = d.mode BY <1>4, <1>14
  <2>2. \A i \in 1 .. Len(p.back) : p.back[i].ch = "CR" => i = Len(p.back)
    <3> TAKE i \in 1 .. Len(p.back)
    <3>1. i \in 1 .. Len(b) - k /\ k + i \in 1 .. Len(b) BY <1>2, <1>5, <1>7
    <3>2. p.back[i] = b[k + i] BY <1>7, <3>1
    <3>3. p.back[i].ch = "CR" => k + i = Len(b) BY <1>1, <3>1, <3>2
    <3> QED BY <1>2, <1>5, <1>7, <3>1, <3>3
  <2>3. p.back \in Seq(Own(p.asked)) /\ q.buffer \in Seq(Own(p.asked)) /\ e \in Seq(Own(p.asked))
    BY <1>4, <1>6, <1>7 DEF O
  <2>4. Len(p.line) <= 1
        /\ (p.line # <<>> => p.line[1].kind \in Commands /\ p.line[1].of = p.asked /\ p.back = <<>>)
    BY <1>1, <1>4, <1>12
  <2> QED BY <1>1, <1>6, <2>1, <2>2, <2>3, <2>4 DEF Asked
<1> QED BY <1>11, <1>13, <1>14 DEF n, q, p, u, taken, b, ReadsOwn

-----------------------------------------------------------------------------
(* Each step keeps the turns *)

Before == IInv /\ Straight(history) /\ ~history.crossed /\ InTurn(source, dev, radio)
After == Straight(history') => ~history'.crossed /\ InTurn(source', dev', radio')

\* What a running driver may go on to.
LEMMA InTurnWhen ==
    ASSUME NEW s, NEW d, NEW r, ~Session,
           \/ s.state \in {"INIT", "RESET"} /\ Quiet(d, r) /\ s.buffer = <<>>
           \/ s.state = "CMD_PENDING" /\ Dialogue(d, r, s.buffer) /\ s.buffer = <<>>
           \/ s.state = "PARSE_RESPONSE" /\ Dialogue(d, r, s.buffer) /\ s.next \in Answered
           \/ s.state \in Answered \cup {"BREAK", "BOOTLOADER", "TX_BLOCK"} /\ Quiet(d, r)
           \/ s.state = "TX_START" /\ Starts(d, r)
           \/ s.state \in {"SENDING", "RX_BLOCK"} /\ Sends(s, d, r)
    PROVE  InTurn(s, d, r)
<1>1. CASE s.state \in {"INIT", "RESET"} /\ Quiet(d, r) /\ s.buffer = <<>>
  BY <1>1 DEF InTurn, Answered
<1>2. CASE s.state = "CMD_PENDING" /\ Dialogue(d, r, s.buffer) /\ s.buffer = <<>>
  BY <1>2 DEF InTurn, Answered
<1>3. CASE s.state = "PARSE_RESPONSE" /\ Dialogue(d, r, s.buffer) /\ s.next \in Answered
  BY <1>3 DEF InTurn, Answered
<1>4. CASE s.state \in Answered \cup {"BREAK", "BOOTLOADER", "TX_BLOCK"} /\ Quiet(d, r)
  BY <1>4 DEF InTurn, Answered
<1>5. CASE s.state = "TX_START" /\ Starts(d, r) BY <1>5 DEF InTurn, Answered
<1>6. CASE s.state \in {"SENDING", "RX_BLOCK"} /\ Sends(s, d, r) BY <1>6 DEF InTurn, Answered
<1> QED BY <1>1, <1>2, <1>3, <1>4, <1>5, <1>6

\* What a driver that runs comes from.
LEMMA InTurnGives ==
    ASSUME Before, NEW state, Running(state)
    PROVE  /\ ~Session /\ source.state = state /\ source.ret = "0"
           /\ state \in {"INIT", "RESET"} => Quiet(dev, radio) /\ source.buffer = <<>>
           /\ state = "CMD_PENDING" => Dialogue(dev, radio, source.buffer) /\ source.buffer = <<>>
           /\ state = "PARSE_RESPONSE" =>
                 Dialogue(dev, radio, source.buffer) /\ source.next \in Answered
           /\ state \in Answered \cup {"BREAK", "BOOTLOADER", "TX_BLOCK"} => Quiet(dev, radio)
           /\ state = "TX_START" => Starts(dev, radio)
           /\ state \in {"SENDING", "RX_BLOCK"} => Sends(source, dev, radio)
BY DEF Before, InTurn, Running, Session

\* Facts of every step.
LEMMA BeforeIs ==
    ASSUME Before
    PROVE  /\ source \in SourceRecord /\ radio \in RadioRecord /\ history \in HistoryRecord
           /\ source.buffer \in Seq(Letters(radio.has)) /\ Sized(source) /\ RadioOK(radio)
           /\ dev \in Port(Pieces, Letters(radio.has)) /\ dev.asked \in Nat
           /\ dev.line \in Seq(Pieces) /\ dev.back \in Seq(Letters(radio.has))
           /\ Len(dev.line) \in Nat /\ Len(dev.back) \in Nat
           /\ Item("+++", dev.asked, 0) \in Pieces
           /\ \A command \in Commands : Item(command, dev.asked + 1, 0) \in Pieces
           /\ ~history.crossed
<1>1. IInv BY DEF Before
<1>2. dev \in Port(Pieces, Letters(radio.has)) BY <1>1, InstallType
<1>3. dev.line \in Seq(Pieces) /\ dev.back \in Seq(Letters(radio.has)) BY <1>2 DEF Port, Device
<1>4. Len(dev.line) \in Nat /\ Len(dev.back) \in Nat BY <1>3, LenProperties
<1> QED BY <1>1, <1>2, <1>3, <1>4, InstallType, MayBeTold DEF Before, SourceOK

\* What is given up is missed.
LEMMA GivenUpIs ==
    ASSUME Before, Straight(GivenUp(dev))
    PROVE  /\ ~(dev.mode = "POST_ESCAPE" /\ Ticked(dev).mode = "IDLE")
           /\ ~(dev.mode \in {"WAIT_RESPONSE", "WAIT_IDLE"} /\ Ticked(dev).mode # dev.mode)
           /\ ~GivenUp(dev).crossed
<1> DEFINE a == history.missed \/ (dev.mode = "POST_ESCAPE" /\ Ticked(dev).mode = "IDLE")
                     \/ (dev.mode \in {"WAIT_RESPONSE", "WAIT_IDLE"} /\ Ticked(dev).mode # dev.mode)
<1>1. GivenUp(dev) = [history EXCEPT !.missed = a] BY DEF GivenUp
<1>2. history \in HistoryRecord /\ ~history.crossed BY BeforeIs
<1>3. a \in BOOLEAN OBVIOUS
<1> HIDE DEF a
<1>4. GivenUp(dev).missed = a /\ GivenUp(dev).crossed = history.crossed
  BY <1>1, <1>2 DEF HistoryRecord
<1>5. ~a BY <1>4 DEF Straight
<1> QED BY <1>2, <1>4, <1>5 DEF a

LEMMA VerifyTurns ==
    ASSUME Before, Verify
    PROVE  After
<1> DEFINE u == Turns(source, "RESET")
           t == [u EXCEPT !.tries = 0]
<1>1. Running("INIT") /\ UNCHANGED <<dev, radio, history>> BY DEF Verify
<1>2. \/ source' = t \/ \E ret \in {"EIO", "EILSEQ", "EBADMSG"} : source' = Fails(source, ret)
  <2>1. setup.file # "good" => setup.file \in {"EILSEQ", "EBADMSG"}
    BY DEF Before, IInv, SetupRecord
  <2> QED BY <2>1 DEF Verify
<1>3. source \in SourceRecord /\ ~history.crossed BY BeforeIs
<1>4. ~Session /\ Quiet(dev, radio) /\ source.buffer = <<>> BY <1>1, InTurnGives
<1>5. CASE source' = t
  <2>1. "RESET" \in States BY DEF States
  <2>2. u \in SourceRecord /\ Kin(u, source) /\ u.state = "RESET" BY <1>3, <2>1, SourceMoves
  <2> HIDE DEF u
  <2>3. t.state = "RESET" /\ t.buffer = source.buffer BY <2>2 DEF SourceRecord, Kin
  <2> HIDE DEF t
  <2>4. InTurn(t, dev, radio) BY <1>4, <2>3, InTurnWhen
  <2> QED BY <1>1, <1>3, <1>5, <2>4 DEF After
<1>6. CASE \E ret \in {"EIO", "EILSEQ", "EBADMSG"} : source' = Fails(source, ret)
  <2>1. PICK ret \in {"EIO", "EILSEQ", "EBADMSG"} : source' = Fails(source, ret) BY <1>6
  <2> DEFINE f == Fails(source, ret)
  <2>2. f.state = "FAILURE"
    <3>1. ret \in {"EIO", "EILSEQ", "EBADMSG", "ENOTSUP"} OBVIOUS
    <3> QED BY <1>3, <3>1, SourceMoves
  <2> HIDE DEF f
  <2>3. InTurn(f, dev, radio) BY <1>4, <2>2, SaysNothing
  <2> QED BY <1>1, <1>3, <2>1, <2>3 DEF After, f
<1> QED BY <1>2, <1>5, <1>6

\* A port is opened again where nothing is on its way.
LEMMA OpenedQuiet ==
    ASSUME NEW I, NEW C, NEW d \in Port(I, C), NEW baud \in {"slow", "fast", "boot"},
           NEW r, Quiet(d, r)
    PROVE  Quiet(Opened(d, baud), r) /\ Opened(d, baud) \in Port(I, C)
           /\ Opened(d, baud).asked = d.asked
<1> DEFINE o == Opened(d, baud)
<1>1. /\ o \in Port(I, C) /\ o.asked = d.asked
      /\ o.line \in {d.line, <<>>} /\ o.back \in {d.back, <<>>}
  BY OpenedIs
<1> HIDE DEF o
<1> QED BY <1>1 DEF Quiet, o

LEMMA ResetTurns ==
    ASSUME Before, Reset
    PROVE  After
<1> DEFINE C == Letters(radio.has)
           baud == IF source.tries = 0 THEN "fast" ELSE "slow"
           o == Opened(dev, baud)
           u == Ticked(o)
           p == Entered(o)
           t == Turns(source, "CMD_PENDING")
           x == Item("+++", o.asked, 0)
           e == <<>>
<1>1. Running("RESET") /\ UNCHANGED <<radio, history>> /\ dev' = p /\ source' = t BY DEF Reset
<1>2. source \in SourceRecord /\ ~history.crossed /\ dev \in Port(Pieces, C)
      /\ Item("+++", dev.asked, 0) \in Pieces
  BY BeforeIs
<1>3. ~Session /\ Quiet(dev, radio) /\ source.buffer = <<>> BY <1>1, InTurnGives
<1>4. "CMD_PENDING" \in States BY DEF States
<1>5. t.state = "CMD_PENDING" /\ t.buffer = <<>>
  <2>1. t.state = "CMD_PENDING" /\ Kin(t, source) BY <1>2, <1>4, SourceMoves
  <2> HIDE DEF t
  <2> QED BY <1>3, <2>1 DEF Kin
<1>6. baud \in {"slow", "fast", "boot"} OBVIOUS
<1> HIDE DEF t, baud, C
<1>7. Quiet(o, radio) /\ o \in Port(Pieces, C) /\ o.asked = dev.asked BY <1>2, <1>3, <1>6, OpenedQuiet
<1> HIDE DEF o
<1>8. x \in Pieces /\ x.kind = "+++"
  <2>1. x.kind = "+++" BY DEF Item
  <2> QED BY <1>2, <1>7, <2>1
<1>9. /\ u \in Port(Pieces, C)
      /\ \/ u = o
         \/ /\ o.mode = "PRE_ESCAPE" /\ u.mode = "POST_ESCAPE" /\ u.back = <<>>
            /\ u.line = IF Len(o.line) < Room THEN Append(o.line, x) ELSE o.line
         \/ /\ o.mode = "POST_ESCAPE" /\ u.mode \in {"COMMAND", "IDLE"}
            /\ Len(o.back) >= 2 /\ u.back = Tail(Tail(o.back)) /\ u.line = o.line
         \/ Expires(o.mode, u.mode) /\ u.line = o.line /\ u.back = o.back
  BY <1>7, <1>8, TickedIs
<1>10. /\ SameBut(p, u) /\ (p = u \/ p.mode = "PRE_ESCAPE")
       /\ p.mode = "PRE_ESCAPE" \/ p = u
  BY <1>7, <1>8, EnteredIs
<1>11. Len(o.back) = 0 /\ o.line = <<>> /\ o.back = <<>> /\ radio.phase # "escaped"
  BY <1>7, EmptySeq DEF Quiet
<1> HIDE DEF u, p
<1>12. Dialogue(u, radio, <<>>)
  <2>1. CASE u = o BY <1>7, <2>1, QuietTalks
  <2>2. CASE Expires(o.mode, u.mode) /\ u.line = o.line /\ u.back = o.back
    <3>1. Quiet(u, radio) BY <1>11, <2>2 DEF Quiet
    <3> QED BY <3>1, QuietTalks
  <2>3. CASE /\ o.mode = "PRE_ESCAPE" /\ u.mode = "POST_ESCAPE" /\ u.back = <<>>
             /\ u.line = IF Len(o.line) < Room THEN Append(o.line, x) ELSE o.line
    <3>1. Ticked(o) = u BY DEF u
    <3>2. Dialogue(o, radio, <<>>) BY <1>7, QuietTalks
    <3>3. Item("+++", o.asked, 0) \in Pieces BY <1>8
    <3>4. ~(o.mode = "POST_ESCAPE" /\ Ticked(o).mode = "IDLE")
          /\ ~(o.mode \in {"WAIT_RESPONSE", "WAIT_IDLE"} /\ Ticked(o).mode # o.mode)
      BY <2>3
    <3>5. Dialogue(Ticked(o), radio, <<>>) BY <1>7, <3>2, <3>3, <3>4, TickedTalks
    <3> QED BY <3>1, <3>5
  <2>4. ~(Len(o.back) >= 2) BY <1>11
  <2> QED BY <1>9, <2>1, <2>2, <2>3, <2>4
<1>13. Dialogue(p, radio, <<>>)
  <2>1. CASE p = u BY <1>12, <2>1
  <2>2. CASE p.mode = "PRE_ESCAPE" /\ p # u
    <3>1. u.mode \in {"UNKNOWN", "IDLE"}
      <4>1. \/ p = u /\ u.mode \notin {"UNKNOWN", "IDLE"}
            \/ p.mode = "PRE_ESCAPE" /\ u.mode \in {"UNKNOWN", "IDLE"}
        BY <1>7, <1>8, EnteredIs DEF u, p
      <4> QED BY <2>2, <4>1
    <3>2. Quiet(u, radio) BY <1>12, <3>1, TalksQuietly
    <3>3. Quiet(p, radio) BY <1>10, <3>2 DEF Quiet, SameBut
    <3> QED BY <3>3, QuietTalks
  <2> QED BY <1>10, <2>1, <2>2
<1>14. InTurn(t, p, radio) BY <1>3, <1>5, <1>13, InTurnWhen
<1> QED BY <1>1, <1>2, <1>14 DEF After

LEMMA CmdPendingTurns ==
    ASSUME Before, CmdPending
    PROVE  After
<1> DEFINE C == Letters(radio.has)
           t == Ticked(dev)
           a == Asks(source, "HV")
           q == Requested(t, "HV")
           s == Retries(source)
           e == <<>>
<1>1. /\ Running("CMD_PENDING") /\ UNCHANGED radio /\ history' = GivenUp(dev)
      /\ CASE t.mode = "COMMAND" -> source' = a /\ dev' = q
           [] t.mode = "IDLE" -> source' = s /\ dev' = t
           [] OTHER -> dev' = t /\ UNCHANGED source
  BY DEF CmdPending
<1>2. SUFFICES ASSUME Straight(GivenUp(dev))
               PROVE  ~history'.crossed /\ InTurn(source', dev', radio')
  BY <1>1 DEF After
<1>3. ~GivenUp(dev).crossed
      /\ ~(dev.mode = "POST_ESCAPE" /\ t.mode = "IDLE")
      /\ ~(dev.mode \in {"WAIT_RESPONSE", "WAIT_IDLE"} /\ t.mode # dev.mode)
  BY <1>2, GivenUpIs
<1>4. /\ source \in SourceRecord /\ dev \in Port(Pieces, C) /\ Item("+++", dev.asked, 0) \in Pieces
      /\ Item("HV", dev.asked + 1, 0) \in Pieces
      /\ SourceOK(source, radio.has)
  <2>1. IInv BY DEF Before
  <2> QED BY <2>1, BeforeIs, InstallType DEF Commands
<1>5. ~Session /\ Dialogue(dev, radio, source.buffer) /\ source.buffer = <<>>
      /\ source.state = "CMD_PENDING" /\ source.ret = "0"
  BY <1>1, InTurnGives
<1>6. t \in Port(Pieces, C) /\ t.asked = dev.asked BY <1>4, TickedIs
<1>7. Dialogue(t, radio, source.buffer) BY <1>3, <1>4, <1>5, TickedTalks
<1> HIDE DEF t, C
<1>8. CASE t.mode = "COMMAND"
  <2>1. source' = a /\ dev' = q BY <1>1, <1>8
  <2>2. "HV" \in Answered /\ "HV" \in Commands BY DEF Answered, Commands
  <2>3. a.buffer = <<>> /\ a.state = "PARSE_RESPONSE" /\ a.next = "HV" BY <1>4, <2>2, AsksIs
  <2>4. Quiet(t, radio) BY <1>7, <1>8, TalksQuietly
  <2> HIDE DEF a
  <2>5. q.mode = "WAIT_RESPONSE" /\ Asked(q, radio, a.buffer)
    BY <1>4, <1>6, <2>2, <2>3, <2>4, RequestedTalks
  <2>6. Dialogue(q, radio, a.buffer) BY <2>5 DEF Dialogue, Awaiting
  <2>7. InTurn(a, q, radio) BY <1>5, <2>2, <2>3, <2>6, InTurnWhen
  <2> QED BY <1>1, <1>3, <2>1, <2>7
<1>9. CASE t.mode = "IDLE"
  <2>1. source' = s /\ dev' = t BY <1>1, <1>9
  <2>2. Quiet(t, radio) BY <1>7, <1>9, TalksQuietly
  <2>3. "RESET" \in States BY DEF States
  <2> DEFINE u == Turns(source, "RESET")
             v == [u EXCEPT !.tries = 1]
             f == Fails(source, "EIO")
  <2>4. u \in SourceRecord /\ u.buffer = <<>> /\ u.state = "RESET"
    <3>1. u \in SourceRecord /\ u.state = "RESET" /\ Kin(u, source) BY <1>4, <2>3, SourceMoves
    <3> HIDE DEF u
    <3> QED BY <1>5, <3>1 DEF Kin
  <2>5. f.state = "FAILURE" BY <1>4, SourceMoves
  <2>6. s = v \/ s = f BY DEF Retries
  <2> HIDE DEF u, f, s
  <2>7. v.buffer = <<>> /\ v.state = "RESET" BY <2>4 DEF SourceRecord
  <2> HIDE DEF v
  <2>8. InTurn(v, t, radio) BY <1>5, <2>2, <2>7, InTurnWhen
  <2>9. InTurn(f, t, radio) BY <1>5, <2>5, SaysNothing
  <2> QED BY <1>1, <1>3, <2>1, <2>6, <2>8, <2>9
<1>10. CASE t.mode \notin {"COMMAND", "IDLE"}
  <2>1. dev' = t /\ source' = source BY <1>1, <1>10
  <2>2. InTurn(source, t, radio) BY <1>5, <1>7, InTurnWhen
  <2> QED BY <1>1, <1>3, <2>1, <2>2
<1> QED BY <1>8, <1>9, <1>10

\* An answer that is accepted answers the request.
LEMMA AcceptedIs ==
    ASSUME Before, NEW r,
           LET taken == r.buffer \o SubSeq(dev.back, 1, Len(dev.back) - Len(r.dev.back))
           IN  \A i \in 1 .. Len(taken) : taken[i].of = dev.asked
    PROVE  ~Accepted(dev, r).crossed
<1> DEFINE taken == r.buffer \o SubSeq(dev.back, 1, Len(dev.back) - Len(r.dev.back))
           a == history.crossed \/ \E i \in 1 .. Len(taken) : taken[i].of # dev.asked
<1>1. history \in HistoryRecord /\ ~history.crossed BY BeforeIs
<1>2. Accepted(dev, r) = [history EXCEPT !.crossed = a] BY DEF Accepted
<1>3. ~a BY <1>1
<1> HIDE DEF a
<1> QED BY <1>1, <1>2, <1>3 DEF HistoryRecord

LEMMA ParseResponseTurns ==
    ASSUME Before, ParseResponse
    PROVE  After
<1> DEFINE C == Letters(radio.has)
           q == Read(dev, source.buffer)
           b == q.buffer
           s == [source EXCEPT !.buffer = b]
           u == Turns(s, source.next)
           f == Fails(s, "EIO")
<1>1. /\ Running("PARSE_RESPONSE") /\ UNCHANGED radio /\ dev' = q.dev
      /\ source' = CASE q.ret = "0" -> u [] q.ret = "EAGAIN" -> s [] OTHER -> f
      /\ history' = IF q.ret = "0" THEN Accepted(dev, q) ELSE history
  BY DEF ParseResponse
<1>2. /\ source \in SourceRecord /\ dev \in Port(Pieces, C) /\ ~history.crossed
      /\ source.buffer \in Seq(C)
  BY BeforeIs
<1>3. ~Session /\ Dialogue(dev, radio, source.buffer) /\ source.next \in Answered
      /\ source.state = "PARSE_RESPONSE" /\ source.ret = "0"
  BY <1>1, InTurnGives
<1>4. q.ret \notin {"0", "EAGAIN"} \/ dev.mode \in Awaiting BY <1>2, ReadIs
<1>5. b \in Seq(CharRecord)
  <2>1. b \in Seq(C) BY <1>2, ReadIs
  <2>2. C \subseteq CharRecord BY DEF Letters
  <2> QED BY <2>1, <2>2, SeqMonotonic
<1>6. dev.mode \in Awaiting =>
         /\ LET taken == q.buffer \o SubSeq(dev.back, 1, Len(dev.back) - Len(q.dev.back))
            IN  \A i \in 1 .. Len(taken) : taken[i].of = dev.asked
         /\ q.ret = "0" => Quiet(q.dev, radio)
         /\ q.ret = "EAGAIN" => q.dev.mode = dev.mode /\ Asked(q.dev, radio, q.buffer)
  <2>1. HAVE dev.mode \in Awaiting
  <2>2. Asked(dev, radio, source.buffer) BY <1>3, <2>1 DEF Dialogue
  <2>3. ReadsOwn(dev, radio, q) BY <1>2, <2>1, <2>2, ReadTalks
  <2> HIDE DEF q
  <2> QED BY <2>3 DEF ReadsOwn
<1>15. q.buffer = b OBVIOUS
<1> HIDE DEF q, b
<1>7. dev.mode \in Awaiting => ~Accepted(dev, q).crossed BY <1>6, AcceptedIs
<1>8. /\ s \in SourceRecord /\ s.buffer = b /\ s.state = "PARSE_RESPONSE" /\ s.next = source.next
      /\ s.ret = "0"
  BY <1>2, <1>3, <1>5 DEF SourceRecord
<1> HIDE DEF s
<1>9. source.next \in States BY <1>3 DEF Answered, States
<1>10. u.state = source.next BY <1>8, <1>9, SourceMoves
<1>11. f.state = "FAILURE" BY <1>8, SourceMoves
<1> HIDE DEF u, f
<1>12. CASE q.ret = "0"
  <2>1. source' = u /\ history' = Accepted(dev, q) BY <1>1, <1>12
  <2>2. Quiet(q.dev, radio) /\ ~Accepted(dev, q).crossed BY <1>4, <1>6, <1>7, <1>12
  <2>3. InTurn(u, q.dev, radio) BY <1>3, <1>10, <2>2, InTurnWhen
  <2> QED BY <1>1, <2>1, <2>2, <2>3 DEF After
<1>13. CASE q.ret = "EAGAIN"
  <2>1. source' = s /\ history' = history BY <1>1, <1>13
  <2>2. q.dev.mode \in Awaiting /\ Asked(q.dev, radio, s.buffer)
    BY <1>4, <1>6, <1>8, <1>13, <1>15
  <2>3. Dialogue(q.dev, radio, s.buffer) BY <2>2 DEF Dialogue, Awaiting
  <2>4. InTurn(s, q.dev, radio) BY <1>3, <1>8, <2>3, InTurnWhen
  <2> QED BY <1>1, <1>2, <2>1, <2>4 DEF After
<1>14. CASE q.ret \notin {"0", "EAGAIN"}
  <2>1. source' = f /\ history' = history BY <1>1, <1>14
  <2>2. InTurn(f, q.dev, radio) BY <1>3, <1>11, SaysNothing
  <2> QED BY <1>1, <1>2, <2>1, <2>2 DEF After
<1> QED BY <1>12, <1>13, <1>14

LEMMA NotSupportedTurns ==
    ASSUME Before, NEW state, NotSupported(state)
    PROVE  After
<1> DEFINE t == [source EXCEPT !.ret = "ENOTSUP"]
<1>1. Running(state) /\ source' = t /\ UNCHANGED <<dev, radio, history>> BY DEF NotSupported
<1>2. source \in SourceRecord /\ ~history.crossed BY BeforeIs
<1>3. ~Session BY <1>1, InTurnGives
<1>4. t.ret # "0" BY <1>2 DEF SourceRecord
<1> HIDE DEF t
<1>5. InTurn(t, dev, radio) BY <1>3, <1>4, SaysNothing
<1> QED BY <1>1, <1>2, <1>5 DEF After

LEMMA AskingTurns ==
    ASSUME Before, NEW state \in Answered, Running(state), NEW command \in Commands,
           NEW next \in Answered, Asking(command, next)
    PROVE  After
<1> DEFINE C == Letters(radio.has)
           t == Asks(source, next)
           q == Requested(dev, command)
<1>1. source' = t /\ dev' = q /\ UNCHANGED <<radio, history>> BY DEF Asking
<1>2. /\ dev \in Port(Pieces, C) /\ ~history.crossed /\ SourceOK(source, radio.has)
      /\ Item(command, dev.asked + 1, 0) \in Pieces
  <2>1. IInv BY DEF Before
  <2> QED BY <2>1, BeforeIs, InstallType
<1>3. ~Session /\ Quiet(dev, radio) BY InTurnGives
<1>4. t.buffer = <<>> /\ t.state = "PARSE_RESPONSE" /\ t.next = next BY <1>2, AsksIs
<1> HIDE DEF t, C
<1>5. q.mode = "WAIT_RESPONSE" /\ Asked(q, radio, t.buffer) BY <1>2, <1>3, <1>4, RequestedTalks
<1> HIDE DEF q
<1>6. Dialogue(q, radio, t.buffer) BY <1>5 DEF Dialogue, Awaiting
<1>7. InTurn(t, q, radio) BY <1>3, <1>4, <1>6, InTurnWhen
<1> QED BY <1>1, <1>2, <1>7 DEF After

LEMMA QuestionTurns ==
    ASSUME Before,
           \/ HardwareVersion \/ Compatibility \/ Version \/ SerialFormat \/ SerialNumber
           \/ NotProgramming
    PROVE  After
<1>1. {"HV", "COMPAT", "VR", "CF1", "SL", "PROG", "FR"} \subseteq Answered BY DEF Answered
<1>2. {"%C", "VR", "CF1", "SL", "%P", "FR"} \subseteq Commands BY DEF Commands
<1>3. CASE HardwareVersion BY <1>1, <1>2, <1>3, AskingTurns DEF HardwareVersion
<1>4. CASE Compatibility BY <1>1, <1>2, <1>4, AskingTurns DEF Compatibility
<1>5. CASE Version BY <1>1, <1>2, <1>5, AskingTurns DEF Version
<1>6. CASE SerialFormat BY <1>1, <1>2, <1>6, AskingTurns DEF SerialFormat
<1>7. CASE SerialNumber BY <1>1, <1>2, <1>7, AskingTurns DEF SerialNumber
<1>8. CASE NotProgramming BY <1>1, <1>2, <1>8, AskingTurns DEF NotProgramming
<1> QED BY <1>3, <1>4, <1>5, <1>6, <1>7, <1>8

LEMMA BreakTurns ==
    ASSUME Before, Programming \/ Break
    PROVE  After
<1> DEFINE t == Turns(source, "BOOTLOADER")
           u == Turns(source, "BREAK")
           v == [u EXCEPT !.timer = 0]
           p == [dev EXCEPT !.broken = TRUE]
<1>1. /\ UNCHANGED <<radio, history>> /\ (Running("PROG") \/ Running("FR"))
      /\ \/ source' = t /\ dev' = dev
         \/ source' = v /\ dev' = p
  BY DEF Programming, Break
<1>2. source \in SourceRecord /\ dev \in Port(Pieces, Letters(radio.has)) /\ ~history.crossed
  BY BeforeIs
<1>3. ~Session /\ Quiet(dev, radio) BY <1>1, InTurnGives DEF Answered
<1>4. "BOOTLOADER" \in States /\ "BREAK" \in States BY DEF States
<1>5. t.state = "BOOTLOADER" /\ u \in SourceRecord /\ u.state = "BREAK" BY <1>2, <1>4, SourceMoves
<1> HIDE DEF t, u
<1>6. v.state = "BREAK" BY <1>5 DEF SourceRecord
<1>7. p.line = dev.line /\ p.back = dev.back BY <1>2 DEF Port, Device
<1> HIDE DEF v, p
<1>8. Quiet(p, radio) BY <1>3, <1>7 DEF Quiet
<1>9. InTurn(t, dev, radio) /\ InTurn(v, p, radio) BY <1>3, <1>5, <1>6, <1>8, InTurnWhen
<1> QED BY <1>1, <1>2, <1>9 DEF After

LEMMA IdleTurns ==
    ASSUME Before, UNCHANGED <<source, dev, radio, history>>
    PROVE  After
BY DEF Before, After

\* The first answer of the bootloader is the only one.
LEMMA TxStartTurns ==
    ASSUME Before, ~Session, NEW s \in SourceRecord, NEW d \in Port(Pieces, Letters(radio.has)),
           Starts(d, radio), TxStart(s, d)
    PROVE  After
<1> DEFINE C == Letters(radio.has)
           l == Left(d)
           t == Turns(s, "TX_START")
           u == Turns(s, "TX_BLOCK")
           v == [u EXCEPT !.tries = 0, !.block = 1]
           f == Fails(s, "EIO")
<1>1. /\ source' = CASE Got(d) = "none" /\ s.timer <= PlusWait -> t
                     [] Got(d) \in {"U", "N"} -> v
                     [] OTHER -> f
      /\ dev' = l /\ UNCHANGED <<radio, history>>
  BY DEF TxStart
<1>2. ~history.crossed BY BeforeIs
<1>3. "TX_START" \in States /\ "TX_BLOCK" \in States BY DEF States
<1>4. t.state = "TX_START" /\ u \in SourceRecord /\ u.state = "TX_BLOCK" /\ f.state = "FAILURE"
  BY <1>3, SourceMoves
<1> HIDE DEF t, u, f
<1>5. v.state = "TX_BLOCK" BY <1>4 DEF SourceRecord
<1> HIDE DEF v, C
<1>6. l.line = d.line /\ l.back = IF d.back = <<>> THEN <<>> ELSE Tail(d.back) BY LeftIs DEF C
<1> HIDE DEF l
<1>7. d.line \in Seq(Pieces) /\ d.back \in Seq(C) BY DEF Port, Device, C
<1>8. PICK m \in Nat : m = Len(d.line) BY <1>7, LenProperties
<1>9. PICK n \in Nat : n = Len(d.back) BY <1>7, LenProperties
<1>10. m + n <= 1 /\ radio.phase # "escaped" BY <1>8, <1>9 DEF Starts
<1>11. /\ d.back = <<>> <=> n = 0
       /\ d.line = <<>> <=> m = 0
  <2>1. d.back = <<>> <=> n = 0 BY <1>7, <1>9, EmptyIs
  <2>2. d.line = <<>> <=> m = 0 BY <1>7, <1>8, EmptyIs
  <2> QED BY <2>1, <2>2
<1>12. d.back # <<>> => l.back = <<>> /\ l.line = <<>>
  <2>1. HAVE d.back # <<>>
  <2>2. n = 1 /\ m = 0 /\ n - 1 \in Nat /\ n - 1 = 0 BY <1>10, <1>11, <2>1
  <2> DEFINE b == Tail(d.back)
             k == n - 1
  <2>3. b \in Seq(C) /\ k = Len(b) BY <1>7, <1>9, <2>1, TailIs
  <2>4. k \in Nat /\ k = 0 BY <2>2
  <2> HIDE DEF b, k
  <2>5. b = <<>> BY <2>3, <2>4, EmptyIs
  <2> QED BY <1>6, <1>11, <2>1, <2>2, <2>5 DEF b
<1>13. Starts(l, radio)
  <2>1. CASE d.back = <<>>
    <3>1. l.back = d.back /\ l.line = d.line BY <1>6, <2>1
    <3> QED BY <3>1 DEF Starts
  <2>2. CASE d.back # <<>>
    <3> DEFINE e == <<>>
    <3>1. l.back = e /\ l.line = e /\ Len(e) = 0 /\ ~(l.line # <<>>) BY <1>12, <2>2, EmptySeq
    <3> HIDE DEF e
    <3>2. Len(l.line) + Len(l.back) <= 1 BY <3>1
    <3> QED BY <1>10, <3>1, <3>2 DEF Starts
  <2> QED BY <2>1, <2>2
<1>14. Got(d) \in {"U", "N"} => Quiet(l, radio)
  <2>1. HAVE Got(d) \in {"U", "N"}
  <2>2. d.back # <<>> BY <2>1 DEF Got
  <2> QED BY <1>10, <1>12, <2>2 DEF Quiet
<1>15. InTurn(t, l, radio) BY <1>4, <1>13, InTurnWhen
<1>16. InTurn(f, l, radio) BY <1>4, SaysNothing
<1>17. Got(d) \in {"U", "N"} => InTurn(v, l, radio) BY <1>5, <1>14, InTurnWhen
<1>18. source' = t \/ source' = f \/ (source' = v /\ Got(d) \in {"U", "N"}) BY <1>1
<1> QED BY <1>1, <1>2, <1>15, <1>16, <1>17, <1>18 DEF After

LEMMA BootloaderTurns ==
    ASSUME Before, Bootloader \/ AwaitsBootloader
    PROVE  After
<1>1. CASE AwaitsBootloader
  <2>1. Running("TX_START") /\ TxStart(source, dev) BY <1>1 DEF AwaitsBootloader
  <2>2. ~Session /\ Starts(dev, radio) BY <2>1, InTurnGives
  <2> QED BY <2>1, <2>2, BeforeIs, TxStartTurns
<1>2. CASE Bootloader
  <2> DEFINE C == Letters(radio.has)
             o == Opened(dev, "boot")
             x == Item("+", 0, 0)
             w == Write(o, x)
             e == <<>>
  <2>1. Running("BOOTLOADER") \/ Running("BREAK") BY <1>2 DEF Bootloader
  <2>2. PICK timer \in Timers : TxStart([source EXCEPT !.timer = timer], w)
    BY <1>2 DEF Bootloader
  <2>3. source \in SourceRecord /\ dev \in Port(Pieces, C) BY BeforeIs
  <2>4. ~Session /\ Quiet(dev, radio) BY <2>1, InTurnGives
  <2>5. Quiet(o, radio) /\ o \in Port(Pieces, C) BY <2>3, <2>4, OpenedQuiet
  <2>6. x \in Pieces /\ x.kind = "+"
    <3>1. x \in Pieces BY Written
    <3> QED BY <3>1 DEF Item
  <2> HIDE DEF o, x
  <2>7. /\ w \in Port(Pieces, C) /\ w.back = o.back
        /\ w.line = IF Len(o.line) < Room THEN Append(o.line, x) ELSE o.line
    BY <2>5, <2>6, WriteIs
  <2> HIDE DEF w
  <2>8. e \in Seq(Pieces) /\ Len(e) = 0 /\ o.line = e /\ o.back = e /\ radio.phase # "escaped"
        /\ ~(e # <<>>)
    BY <2>5, EmptySeq DEF Quiet
  <2> HIDE DEF e
  <2>9. Len(Append(e, x)) = 1 /\ Append(e, x)[1] = x
    <3>1. Len(Append(e, x)) = 0 + 1 /\ Append(e, x)[0 + 1] = x BY <2>6, <2>8, AppendProperties
    <3> QED BY <3>1
  <2>10. Starts(w, radio)
    <3>1. CASE w.line = e
      <4>1. Len(w.line) + Len(w.back) <= 1 BY <2>7, <2>8, <3>1
      <4> QED BY <2>8, <3>1, <4>1 DEF Starts
    <3>2. CASE w.line = Append(e, x)
      <4> DEFINE a == Append(e, x)
      <4>1. w.line = a /\ Len(a) = 1 /\ a[1] = x BY <2>9, <3>2
      <4> HIDE DEF a
      <4>2. Len(w.line) + Len(w.back) <= 1 BY <2>7, <2>8, <4>1
      <4> QED BY <2>6, <2>8, <4>1, <4>2 DEF Starts
    <3> QED BY <2>7, <2>8, <3>1, <3>2
  <2>11. timer \in Waited \cup {Unset}
    BY <2>3, WaitedCounts DEF Timers, SourceRecord
  <2> DEFINE s == [source EXCEPT !.timer = timer]
  <2>12. s \in SourceRecord BY <2>3, <2>11 DEF SourceRecord
  <2>13. TxStart(s, w) BY <2>2
  <2> HIDE DEF s, C
  <2> QED BY <2>4, <2>7, <2>10, <2>12, <2>13, TxStartTurns DEF C
<1> QED BY <1>1, <1>2

LEMMA TxBlockTurns ==
    ASSUME Before, TxBlock
    PROVE  After
<1> DEFINE u == Turns(source, "SENDING")
           t == [u EXCEPT !.left = Parts]
           e == <<>>
<1>1. Running("TX_BLOCK") /\ source' = t /\ UNCHANGED <<dev, radio, history>> BY DEF TxBlock
<1>2. source \in SourceRecord /\ ~history.crossed BY BeforeIs
<1>3. ~Session /\ Quiet(dev, radio) BY <1>1, InTurnGives
<1>4. "SENDING" \in States BY DEF States
<1>5. u \in SourceRecord /\ u.state = "SENDING" BY <1>2, <1>4, SourceMoves
<1> HIDE DEF u
<1>6. t.state = "SENDING" BY <1>5 DEF SourceRecord
<1> HIDE DEF t
<1>7. Len(e) = 0 /\ dev.line = e /\ dev.back = e /\ radio.phase # "escaped" /\ ~(dev.back # <<>>)
  BY <1>3, EmptySeq DEF Quiet
<1> HIDE DEF e
<1>8. 1 .. Len(dev.line) = {} /\ 1 .. Len(dev.back) = {} BY <1>7
<1>9. Underway(t, dev, radio) BY <1>6, <1>7, <1>8 DEF Underway
<1>10. InTurn(t, dev, radio) BY <1>3, <1>6, <1>7, <1>9, InTurnWhen DEF Sends
<1> QED BY <1>1, <1>2, <1>10 DEF After

LEMMA FinalTurns ==
    ASSUME Before, EndOfImage \/ FinalPrompt
    PROVE  After
<1>1. ~Session
  <2>1. Running("TX_BLOCK") \/ Running("FINAL_PROMPT") BY DEF EndOfImage, FinalPrompt
  <2> QED BY <2>1, InTurnGives
<1>2. source \in SourceRecord /\ history \in HistoryRecord /\ ~history.crossed BY BeforeIs
<1>3. "FINAL_PROMPT" \in States /\ "SUCCESS" \in States BY DEF States
<1>4. CASE EndOfImage
  <2> DEFINE u == Turns(source, "FINAL_PROMPT")
             t == [u EXCEPT !.timer = 0]
             a == history.misread \/ source.block <= Blocks
             k == [history EXCEPT !.misread = a]
  <2>1. source' = t /\ history' = k BY <1>4 DEF EndOfImage
  <2>2. u \in SourceRecord /\ u.state = "FINAL_PROMPT" BY <1>2, <1>3, SourceMoves
  <2> HIDE DEF u, a
  <2>3. t.state = "FINAL_PROMPT" /\ ~k.crossed BY <1>2, <2>2 DEF SourceRecord, HistoryRecord
  <2> HIDE DEF t, k
  <2>4. PICK p : p = dev' OBVIOUS
  <2>5. PICK r : r = radio' OBVIOUS
  <2>6. InTurn(t, p, r) BY <1>1, <2>3, SaysNothing
  <2> QED BY <2>1, <2>3, <2>4, <2>5, <2>6 DEF After
<1>5. CASE FinalPrompt
  <2> DEFINE u == Turns(source, "SUCCESS")
             t == [u EXCEPT !.ret = "1"]
  <2>1. /\ source' = (IF source.timer > FinalWait THEN t ELSE source) /\ UNCHANGED <<dev, radio, history>>
        /\ source.state = "FINAL_PROMPT"
    BY <1>5 DEF FinalPrompt, Running
  <2>2. u \in SourceRecord /\ u.state = "SUCCESS" BY <1>2, <1>3, SourceMoves
  <2> HIDE DEF u
  <2>3. t.state = "SUCCESS" BY <2>2 DEF SourceRecord
  <2> HIDE DEF t
  <2>4. InTurn(t, dev, radio) /\ InTurn(source, dev, radio) BY <1>1, <2>1, <2>3, SaysNothing
  <2> QED BY <1>2, <2>1, <2>4 DEF After
<1> QED BY <1>4, <1>5

\* The next piece of a block is sent, if there is room.
LEMMA UnderwayGrows ==
    ASSUME NEW s, NEW d, NEW r, Underway(s, d, r), NEW t, t.block = s.block,
           NEW m \in Nat, m = Sent(s), NEW n \in {m, m + 1}, n = Sent(t),
           t.state = "RX_BLOCK" => t.bad \/ t.left = Len(Reply),
           NEW p, p.back = d.back, NEW I, d.line \in Seq(I), NEW x \in I,
           \/ p.line = d.line
           \/ /\ p.line = Append(d.line, x) /\ n = m + 1
              /\ x.kind \in {"data", "stale"} /\ x.of = s.block /\ x.part = m + 1
    PROVE  Underway(t, p, r)
<1> DEFINE l == d.line
<1>1. /\ \A i \in 1 .. Len(l) :
            l[i].kind \in {"data", "stale"} /\ l[i].of = t.block /\ l[i].part \in 1 .. m
      /\ \A i, j \in 1 .. Len(l) : i < j => l[i].part < l[j].part
      /\ \A i \in 1 .. Len(p.back) : p.back[i].ch = "N"
      /\ p.back # <<>> => m >= 1 /\ \A i \in 1 .. Len(l) : l[i].part # 1
      /\ p.back # <<>> => (r.got # <<>> => r.got[1].part # 1)
  BY DEF Underway
<1>2. n \in Nat /\ n >= m /\ n <= m + 1 OBVIOUS
<1>3. PICK k \in Nat : k = Len(l) BY LenProperties
<1>4. CASE p.line = l
  <2>1. \A i \in 1 .. Len(l) : l[i].part \in 1 .. n
    <3> TAKE i \in 1 .. Len(l)
    <3>1. l[i].part \in 1 .. m BY <1>1
    <3> QED BY <1>2, <3>1
  <2>2. p.back # <<>> => n >= 1 BY <1>1, <1>2
  <2> QED BY <1>1, <1>4, <2>1, <2>2 DEF Underway
<1>5. CASE /\ p.line = Append(l, x) /\ n = m + 1
           /\ x.kind \in {"data", "stale"} /\ x.of = s.block /\ x.part = m + 1
  <2> DEFINE a == Append(l, x)
  <2>1. Len(a) = k + 1 /\ (\A i \in 1 .. k : a[i] = l[i]) /\ a[k + 1] = x
    BY <1>3, AppendProperties
  <2>2. a = p.line BY <1>5
  <2> HIDE DEF a, l
  <2>3. \A i \in 1 .. k + 1 : i \in 1 .. k \/ i = k + 1 BY <1>3
  <2>4. \A i \in 1 .. k : /\ l[i].kind \in {"data", "stale"} /\ l[i].of = t.block
                          /\ l[i].part \in 1 .. m
    BY <1>1, <1>3
  <2>5. \A i \in 1 .. k + 1 :
           a[i].kind \in {"data", "stale"} /\ a[i].of = t.block /\ a[i].part \in 1 .. n
    <3> TAKE i \in 1 .. k + 1
    <3>1. CASE i \in 1 .. k
      <4>1. a[i] = l[i] BY <2>1, <3>1
      <4>2. l[i].part \in 1 .. n
        <5>1. l[i].part \in 1 .. m BY <2>4, <3>1
        <5> QED BY <1>2, <5>1
      <4> QED BY <2>4, <3>1, <4>1, <4>2
    <3>2. CASE i = k + 1
      <4>1. a[i] = x BY <2>1, <3>2
      <4>2. x.part \in 1 .. n BY <1>2, <1>5
      <4> QED BY <1>5, <4>1, <4>2
    <3> QED BY <2>3, <3>1, <3>2
  <2>6. \A i, j \in 1 .. k + 1 : i < j => a[i].part < a[j].part
    <3> TAKE i, j \in 1 .. k + 1
    <3> HAVE i < j
    <3>1. i \in 1 .. k /\ a[i] = l[i] BY <1>3, <2>1
    <3>2. CASE j \in 1 .. k
      <4>1. a[j] = l[j] BY <2>1, <3>2
      <4>2. l[i].part < l[j].part BY <1>1, <1>3, <3>1, <3>2
      <4> QED BY <3>1, <4>1, <4>2
    <3>3. CASE j = k + 1
      <4>1. a[j] = x BY <2>1, <3>3
      <4>2. l[i].part \in 1 .. m BY <2>4, <3>1
      <4>3. l[i].part < x.part BY <1>5, <4>2
      <4> QED BY <3>1, <4>1, <4>3
    <3> QED BY <2>3, <3>2, <3>3
  <2>7. p.back # <<>> => n >= 1 /\ \A i \in 1 .. k + 1 : a[i].part # 1
    <3> HAVE p.back # <<>>
    <3>1. m >= 1 /\ \A i \in 1 .. k : l[i].part # 1 BY <1>1, <1>3
    <3>2. n >= 1 /\ x.part # 1 BY <1>2, <1>5, <3>1
    <3>3. \A i \in 1 .. k + 1 : a[i].part # 1
      <4> TAKE i \in 1 .. k + 1
      <4>1. CASE i \in 1 .. k
        <5>1. a[i] = l[i] BY <2>1, <4>1
        <5> QED BY <3>1, <4>1, <5>1
      <4>2. CASE i = k + 1
        <5>1. a[i] = x BY <2>1, <4>2
        <5> QED BY <3>2, <5>1
      <4> QED BY <2>3, <4>1, <4>2
    <3> QED BY <3>2, <3>3
  <2> QED BY <1>1, <2>1, <2>2, <2>5, <2>6, <2>7 DEF Underway
<1> QED BY <1>4, <1>5

\* A write, in which nothing is received.
LEMMA WritesOrNot ==
    ASSUME NEW I, NEW C, NEW d \in Port(I, C), NEW x \in I
    PROVE  /\ Write(d, x).back = d.back
           /\ Write(d, x).line = Append(d.line, x) \/ Write(d, x).line = d.line
<1> DEFINE w == Write(d, x)
<1>1. w.back = d.back /\ w.line = IF Len(d.line) < Room THEN Append(d.line, x) ELSE d.line
  BY WriteIs
<1> HIDE DEF w
<1>2. w.line = Append(d.line, x) \/ w.line = d.line BY <1>1
<1> QED BY <1>1, <1>2 DEF w

LEMMA SendingTurns ==
    ASSUME Before, Sending
    PROVE  After
<1> DEFINE C == Letters(radio.has)
           sent == Min({Free(dev), source.left, 1})
           left == source.left - sent
           kind == IF source.bad THEN "stale" ELSE "data"
           part == Parts - source.left + 1
           x == Item(kind, source.block, part)
           w == Write(dev, x)
           l == IF source.bad THEN 0 ELSE Len(Reply)
           u == Turns(source, "RX_BLOCK")
           v == [source EXCEPT !.left = left]
           t == [u EXCEPT !.left = l, !.timer = 0]
<1>1. /\ Running("SENDING") /\ UNCHANGED <<radio, history>>
      /\ dev' = IF sent = 1 THEN w ELSE dev
      /\ source' = IF left > 0 THEN v ELSE t
  BY DEF Sending
<1>2. /\ source \in SourceRecord /\ dev \in Port(Pieces, C) /\ ~history.crossed
      /\ dev.line \in Seq(Pieces) /\ Sized(source)
  BY BeforeIs
<1>3. /\ ~Session /\ source.state = "SENDING" /\ source.ret = "0"
      /\ Sends(source, dev, radio)
  BY <1>1, InTurnGives
<1>4. Underway(source, dev, radio) /\ radio.phase # "escaped" BY <1>3 DEF Sends, Replied
<1>5. source.left \in 1 .. Parts /\ source.block \in 1 .. Blocks /\ Parts \in Nat /\ Blocks \in Nat
  <2>1. source.left \in 1 .. Parts /\ source.block <= Blocks /\ source.block \in 1 .. Blocks + 1
    BY <1>2, <1>3 DEF Sized, SourceRecord
  <2>2. Parts \in Nat /\ Blocks \in Nat BY OemAssumption
  <2> QED BY <2>1, <2>2
<1>6. sent \in {0, 1} /\ sent <= source.left
  <2> DEFINE a == Free(dev)
             b == source.left
             c == 1
  <2>1. a \in Nat
    <3>1. Len(dev.line) <= Room /\ Room \in Nat BY <1>2, AtModeAssumption DEF Port
    <3>2. Len(dev.line) \in Nat BY <1>2, LenProperties
    <3> QED BY <3>1, <3>2 DEF Free
  <2>2. b \in Nat /\ b >= 1 /\ a \in Int /\ b \in Int /\ c \in Int /\ c = 1 BY <1>5, <2>1
  <2> HIDE DEF a, b, c
  <2>3. LET m == Min({a, b, c}) IN m \in {a, b, c} /\ m <= a /\ m <= b /\ m <= c
    BY <2>2, OfThree
  <2>4. Min({a, b, c}) \in {0, 1} /\ Min({a, b, c}) <= b BY <2>1, <2>2, <2>3
  <2> QED BY <2>4 DEF a, b, c
<1>7. /\ x \in Pieces /\ x.kind \in {"data", "stale"} /\ x.of = source.block /\ x.part = part
  <2>1. part \in Nat /\ source.block \in Nat /\ source.block \in 1 .. Blocks BY <1>5
  <2>2. kind \in {"data", "stale"} OBVIOUS
  <2> HIDE DEF part, kind
  <2>3. x \in Pieces BY <2>1, <2>2, Written
  <2> QED BY <2>2, <2>3 DEF Item
<1> HIDE DEF x, kind, C
<1>8. w.back = dev.back /\ (w.line = Append(dev.line, x) \/ w.line = dev.line)
  BY <1>2, <1>7, WritesOrNot
<1> HIDE DEF w, sent
<1> DEFINE m == Parts - source.left
<1>9. m \in Nat /\ m = Sent(source) /\ part = m + 1 BY <1>3, <1>5 DEF Sent
<1>10. left \in Nat /\ left <= Parts /\ Parts - left = m + sent BY <1>5, <1>6
<1>11. /\ v.state = "SENDING" /\ v.left = left /\ v.block = source.block
  BY <1>2, <1>3 DEF SourceRecord
<1>12. Sent(v) = m + sent BY <1>10, <1>11 DEF Sent
<1>13. u \in SourceRecord /\ u.state = "RX_BLOCK" /\ u.block = source.block /\ u.bad = source.bad
  <2>1. "RX_BLOCK" \in States BY DEF States
  <2>2. u \in SourceRecord /\ u.state = "RX_BLOCK" /\ Kin(u, source) BY <1>2, <2>1, SourceMoves
  <2> HIDE DEF u
  <2> QED BY <2>2 DEF Kin
<1> HIDE DEF u
<1>14. t.state = "RX_BLOCK" /\ t.left = l /\ t.block = source.block /\ t.bad = source.bad
  BY <1>13 DEF SourceRecord
<1>15. t.bad \/ t.left = Len(Reply) BY <1>14
<1> HIDE DEF t, v, l
<1>16. Sent(t) = Parts BY <1>14 DEF Sent
<1>17. left = 0 => Parts = m + sent BY <1>5, <1>10
<1>18. PICK s : s = IF left > 0 THEN v ELSE t OBVIOUS
<1>19. PICK p : p = IF sent = 1 THEN w ELSE dev OBVIOUS
<1>20. /\ s.block = source.block /\ Sent(s) = m + sent /\ s.state \in {"SENDING", "RX_BLOCK"}
       /\ (s.state = "RX_BLOCK" => s.bad \/ s.left = Len(Reply))
  <2>1. CASE left > 0
    <3>1. s = v BY <1>18, <2>1
    <3> QED BY <1>11, <1>12, <3>1
  <2>2. CASE ~(left > 0)
    <3>1. left = 0 BY <1>10, <2>2
    <3>2. s = t BY <1>18, <2>2
    <3> QED BY <1>14, <1>15, <1>16, <1>17, <3>1, <3>2
  <2> QED BY <2>1, <2>2
<1>21. /\ p.back = dev.back
       /\ p.line = dev.line \/ (p.line = Append(dev.line, x) /\ sent = 1)
  BY <1>8, <1>19
<1> DEFINE n == m + sent
<1>22. n \in {m, m + 1} /\ (sent = 1 => n = m + 1) /\ n = Sent(s) BY <1>6, <1>9, <1>20
<1>23. source' = s /\ dev' = p BY <1>1, <1>18, <1>19
<1>24. x.part = m + 1 BY <1>7, <1>9
<1> HIDE DEF m, n, left, part
<1>25. Underway(s, p, radio)
  BY <1>2, <1>4, <1>7, <1>9, <1>20, <1>21, <1>22, <1>24, UnderwayGrows
<1>26. InTurn(s, p, radio) BY <1>3, <1>4, <1>20, <1>25, InTurnWhen DEF Sends
<1> QED BY <1>1, <1>2, <1>23, <1>26 DEF After

\* A response as it is expected is that of the block.
LEMMA RxGoodTurns ==
    ASSUME Before, RxGood
    PROVE  After
<1> DEFINE C == Letters(radio.has)
           b == dev.back
           a == history.crossed \/ \E i \in 1 .. Come : b[i].of # source.block
           k == [history EXCEPT !.crossed = a]
           p == Without(dev, Come)
           u == Turns(source, "TX_BLOCK")
           l == source.left - Come
           v == [source EXCEPT !.left = l]
           t == [u EXCEPT !.left = 0, !.tries = 0, !.block = u.block + 1]
<1>1. /\ Running("RX_BLOCK") /\ UNCHANGED radio /\ TakesReply /\ Expected
      /\ Come > 0 /\ history' = k
      /\ source' = IF source.left > Come THEN v
                   ELSE [u EXCEPT !.left = 0, !.tries = 0, !.block = @ + 1]
  BY DEF RxGood, TakesReply
<1>2. /\ source \in SourceRecord /\ dev \in Port(Pieces, C) /\ ~history.crossed
      /\ dev.line \in Seq(Pieces) /\ b \in Seq(C) /\ Sized(source) /\ history \in HistoryRecord
  BY BeforeIs
<1>3. ~Session /\ source.state = "RX_BLOCK" /\ source.ret = "0" /\ Sends(source, dev, radio)
  BY <1>1, InTurnGives
<1>4. IInv BY DEF Before
<1>5. /\ Come \in 0 .. Len(b) /\ Come <= source.left /\ Len(b) \in Nat /\ source.left \in Nat
      /\ dev' = p /\ Come \in Nat /\ Come >= 1
  <2>1. Come \in 0 .. Len(b) /\ Len(b) \in Nat BY <1>4, ComeIs
  <2>2. Come \in Nat /\ Come >= 1 BY <1>1, <2>1
  <2> QED BY <1>1, <1>4, <2>2, ComeIs
<1>6. ~Underway(source, dev, radio)
  <2>1. SUFFICES ASSUME Underway(source, dev, radio) PROVE FALSE OBVIOUS
  <2> DEFINE j == Len(Reply) - source.left + 1
  <2>2. 1 \in 1 .. Come /\ 1 \in 1 .. Len(b) BY <1>5
  <2>3. b[1].ch = "N" BY <2>1, <2>2 DEF Underway
  <2>4. b[1].ch = Reply[j] BY <1>1, <2>2 DEF Expected
  <2>5. j \in 1 .. Len(Reply)
    <3>1. source.left <= Len(Reply) BY <1>2, <1>3 DEF Sized
    <3>2. Len(Reply) \in Nat BY OemAssumption, LenProperties
    <3> QED BY <1>5, <3>1, <3>2
  <2>6. Reply[j] \in {"U", "R"} BY <2>5, OemAssumption, ElementOfSeq
  <2> HIDE DEF j
  <2> QED BY <2>3, <2>4, <2>6
<1>7. /\ radio.phase # "escaped" /\ dev.line = <<>> /\ Len(b) <= source.left
      /\ \A i \in 1 .. Len(b) : b[i].of = source.block
  BY <1>1, <1>3, <1>6 DEF Sends, Replied, Expected
<1>8. Come = Len(b)
  <2> DEFINE c == source.left
             d == Len(b)
  <2>1. c \in Int /\ d \in Int /\ d <= c BY <1>5, <1>7
  <2>2. Come = Min({c, d}) BY DEF Come
  <2> HIDE DEF c, d
  <2>3. Come = d BY <2>1, <2>2, OfTwo
  <2> QED BY <2>3 DEF d
<1>9. ~a BY <1>2, <1>7, <1>8
<1> HIDE DEF a
<1>10. ~k.crossed BY <1>2, <1>9 DEF HistoryRecord
<1>11. p.line = <<>> /\ p.back = <<>>
  <2> DEFINE c == SubSeq(b, Come + 1, Len(b))
             n == Len(b) - Come
  <2>1. c \in Seq(C) /\ Len(c) = n BY <1>2, <1>5, Rest
  <2>2. n \in Nat /\ n = 0 BY <1>5, <1>8
  <2>3. p.line = dev.line /\ p.back = c BY <1>2 DEF Without, Port, Device
  <2> HIDE DEF c, n, p
  <2>4. c = <<>> BY <2>1, <2>2, EmptyIs
  <2> QED BY <1>7, <2>3, <2>4
<1> HIDE DEF k, p, b
<1>12. Quiet(p, radio) BY <1>7, <1>11 DEF Quiet
<1>13. CASE source.left > Come
  <2>1. l \in Nat BY <1>5, <1>13
  <2>2. source' = v BY <1>1, <1>13
  <2> HIDE DEF l
  <2>3. v.state = "RX_BLOCK" /\ v.left = l BY <1>2, <1>3, <2>1 DEF SourceRecord
  <2> HIDE DEF v
  <2> DEFINE e == <<>>
  <2>4. p.line = e /\ p.back = e /\ Len(e) = 0 /\ p.line = <<>> BY <1>11, EmptySeq
  <2> HIDE DEF e
  <2>5. 1 .. Len(p.back) = {} /\ Len(p.back) <= v.left BY <2>1, <2>3, <2>4
  <2>6. Replied(v, p) BY <2>3, <2>4, <2>5 DEF Replied
  <2>7. InTurn(v, p, radio) BY <1>3, <1>7, <2>3, <2>6, InTurnWhen DEF Sends
  <2> QED BY <1>1, <1>5, <1>10, <2>2, <2>7 DEF After
<1>14. CASE ~(source.left > Come)
  <2>1. source' = t BY <1>1, <1>14
  <2>2. "TX_BLOCK" \in States BY DEF States
  <2>3. u \in SourceRecord /\ u.state = "TX_BLOCK" BY <1>2, <2>2, SourceMoves
  <2> HIDE DEF u
  <2>4. t.state = "TX_BLOCK" BY <2>3 DEF SourceRecord
  <2> HIDE DEF t
  <2>5. InTurn(t, p, radio) BY <1>3, <1>12, <2>4, InTurnWhen
  <2> QED BY <1>1, <1>5, <1>10, <2>1, <2>5 DEF After
<1> QED BY <1>13, <1>14

\* What is done about a wrong response, or none.
LEMMA RxOtherTurns ==
    ASSUME Before, RxWrong \/ RxTimeout \/ RxFail
    PROVE  After
<1>1. source \in SourceRecord /\ history \in HistoryRecord /\ ~history.crossed BY BeforeIs
<1>2. CASE RxWrong
  <2> DEFINE t == Turns(source, "RX_FAIL")
  <2>1. Running("RX_BLOCK") /\ source' = t /\ UNCHANGED <<radio, history>>
    BY <1>2 DEF RxWrong, TakesReply
  <2>2. ~Session BY <2>1, InTurnGives
  <2>3. "RX_FAIL" \in States BY DEF States
  <2>4. t.state = "RX_FAIL" BY <1>1, <2>3, SourceMoves
  <2> HIDE DEF t
  <2>5. PICK p : p = dev' OBVIOUS
  <2>6. InTurn(t, p, radio) BY <2>2, <2>4, SaysNothing
  <2> QED BY <1>1, <2>1, <2>5, <2>6 DEF After
<1>3. CASE RxTimeout \/ RxFail
  <2>1. history' = [history EXCEPT !.missed = TRUE] BY <1>3 DEF RxTimeout, RxFail
  <2>2. PICK k : k = [history EXCEPT !.missed = TRUE] OBVIOUS
  <2>3. k.missed BY <1>1, <2>2 DEF HistoryRecord
  <2> QED BY <2>1, <2>2, <2>3 DEF After, Straight
<1> QED BY <1>2, <1>3

LEMMA InstallTurns ==
    ASSUME Before, Install
    PROVE  After
<1>1. BreakLasts \/ RxWaits => UNCHANGED <<source, dev, radio, history>> BY DEF BreakLasts, RxWaits
<1>2. CASE Verify \/ Reset \/ CmdPending \/ ParseResponse \/ NotSupported("HV")
           \/ NotSupported("COMPAT")
  BY <1>2, VerifyTurns, ResetTurns, CmdPendingTurns, ParseResponseTurns, NotSupportedTurns
<1>3. CASE HardwareVersion \/ Compatibility \/ Version \/ SerialFormat \/ SerialNumber
           \/ NotProgramming
  BY <1>3, QuestionTurns
<1>4. CASE Programming \/ Break \/ BreakLasts \/ Bootloader \/ AwaitsBootloader \/ RxWaits
  BY <1>1, <1>4, BreakTurns, IdleTurns, BootloaderTurns
<1>5. CASE TxBlock \/ EndOfImage \/ Sending \/ RxGood \/ RxWrong \/ RxTimeout \/ RxFail
           \/ FinalPrompt
  BY <1>5, TxBlockTurns, FinalTurns, SendingTurns, RxGoodTurns, RxOtherTurns
<1> QED BY <1>2, <1>3, <1>4, <1>5 DEF Install

-----------------------------------------------------------------------------
(* The application *)

LEMMA SessionWhen ==
    ASSUME Session, NEW s, NEW d, NEW r, s.state = "SESSION", s.ret = "0",
           d.mode \notin Awaiting => s.buffer = <<>>, Dialogue(d, r, s.buffer)
    PROVE  InTurn(s, d, r)
BY DEF InTurn, Answered

LEMMA SessionGives ==
    ASSUME Before, Session
    PROVE  /\ source.state = "SESSION" /\ source.ret = "0" /\ Dialogue(dev, radio, source.buffer)
           /\ dev.mode \notin Awaiting => source.buffer = <<>>
BY DEF Before, InTurn

\* Another response so far.
LEMMA BufferIs ==
    ASSUME NEW s \in SourceRecord, NEW b
    PROVE  LET t == [s EXCEPT !.buffer = b]
           IN  t.buffer = b /\ t.state = s.state /\ t.ret = s.ret
BY DEF SourceRecord

\* A tick that gives nothing up, which each way in and out of command mode begins with.
LEMMA SessionTicks ==
    ASSUME Before, Session, Straight(GivenUp(dev))
    PROVE  /\ Ticked(dev) \in Port(Pieces, Letters(radio.has)) /\ Ticked(dev).asked = dev.asked
           /\ Dialogue(Ticked(dev), radio, source.buffer)
           /\ Ticked(dev).mode \notin Awaiting => source.buffer = <<>>
           /\ ~GivenUp(dev).crossed
<1> DEFINE C == Letters(radio.has)
           t == Ticked(dev)
<1>1. ~GivenUp(dev).crossed
      /\ ~(dev.mode = "POST_ESCAPE" /\ t.mode = "IDLE")
      /\ ~(dev.mode \in {"WAIT_RESPONSE", "WAIT_IDLE"} /\ t.mode # dev.mode)
  BY GivenUpIs
<1>2. dev \in Port(Pieces, C) /\ Item("+++", dev.asked, 0) \in Pieces BY BeforeIs
<1>3. Dialogue(dev, radio, source.buffer) /\ (dev.mode \notin Awaiting => source.buffer = <<>>)
  BY SessionGives
<1> HIDE DEF C
<1>4. t \in Port(Pieces, C) /\ t.asked = dev.asked BY <1>2, TickedIs
<1>5. /\ Dialogue(t, radio, source.buffer)
      /\ t.mode \in Awaiting <=> dev.mode \in Awaiting
  BY <1>1, <1>2, <1>3, TickedTalks
<1> QED BY <1>1, <1>3, <1>4, <1>5 DEF C

LEMMA AppEntersTurns ==
    ASSUME Before, AppEnters
    PROVE  After
<1> DEFINE t == Ticked(dev)
           p == Entered(dev)
<1>1. Session /\ dev' = p /\ history' = GivenUp(dev) /\ UNCHANGED <<source, radio>>
  BY DEF AppEnters
<1>2. SUFFICES ASSUME Straight(GivenUp(dev))
               PROVE  ~history'.crossed /\ InTurn(source', dev', radio')
  BY <1>1 DEF After
<1>3. /\ Dialogue(t, radio, source.buffer) /\ (t.mode \notin Awaiting => source.buffer = <<>>)
      /\ ~GivenUp(dev).crossed
  BY <1>1, <1>2, SessionTicks
<1>4. dev \in Port(Pieces, Letters(radio.has)) /\ Item("+++", dev.asked, 0) \in Pieces BY BeforeIs
<1>5. SameBut(p, t) /\ \/ p = t
                       \/ p.mode = "PRE_ESCAPE" /\ t.mode \in {"UNKNOWN", "IDLE"}
  BY <1>4, EnteredIs
<1> HIDE DEF p, t
<1>6. /\ Dialogue(p, radio, source.buffer) /\ (p.mode \notin Awaiting => source.buffer = <<>>)
  <2>1. CASE p = t BY <1>3, <2>1
  <2>2. CASE p.mode = "PRE_ESCAPE" /\ t.mode \in {"UNKNOWN", "IDLE"}
    <3>1. Quiet(t, radio) BY <1>3, <2>2, TalksQuietly
    <3>2. Quiet(p, radio) BY <1>5, <3>1 DEF Quiet, SameBut
    <3>3. source.buffer = <<>> BY <1>3, <2>2 DEF Awaiting
    <3> QED BY <3>2, <3>3, QuietTalks
  <2> QED BY <1>5, <2>1, <2>2
<1>7. InTurn(source, p, radio) BY <1>1, <1>6, SessionGives, SessionWhen
<1> QED BY <1>1, <1>3, <1>7

LEMMA AppTicksTurns ==
    ASSUME Before, AppTicks
    PROVE  After
<1> DEFINE t == Ticked(dev)
<1>1. Session /\ dev' = t /\ history' = GivenUp(dev) /\ UNCHANGED <<source, radio>>
  BY DEF AppTicks
<1>2. SUFFICES ASSUME Straight(GivenUp(dev))
               PROVE  ~history'.crossed /\ InTurn(source', dev', radio')
  BY <1>1 DEF After
<1>3. /\ Dialogue(t, radio, source.buffer) /\ (t.mode \notin Awaiting => source.buffer = <<>>)
      /\ ~GivenUp(dev).crossed
  BY <1>1, <1>2, SessionTicks
<1> HIDE DEF t
<1>4. InTurn(source, t, radio) BY <1>1, <1>3, SessionGives, SessionWhen
<1> QED BY <1>1, <1>3, <1>4

LEMMA AppSendsTurns ==
    ASSUME Before, AppSends
    PROVE  After
<1> DEFINE C == Letters(radio.has)
           e == <<>>
           s == [source EXCEPT !.buffer = e]
           p == Requested(dev, "VR")
<1>1. /\ Session /\ dev.mode = "COMMAND" /\ dev' = p /\ source' = s
      /\ UNCHANGED <<radio, history>>
  BY DEF AppSends
<1>2. /\ source \in SourceRecord /\ dev \in Port(Pieces, C) /\ ~history.crossed
      /\ Item("VR", dev.asked + 1, 0) \in Pieces /\ "VR" \in Commands
  BY BeforeIs DEF Commands
<1>3. /\ source.state = "SESSION" /\ source.ret = "0" /\ Dialogue(dev, radio, source.buffer)
  BY <1>1, SessionGives
<1>4. Quiet(dev, radio) BY <1>1, <1>3, TalksQuietly
<1>5. e = <<>> OBVIOUS
<1> HIDE DEF C, e
<1>6. s.buffer = e /\ s.state = "SESSION" /\ s.ret = "0" BY <1>2, <1>3, BufferIs
<1> HIDE DEF s
<1>7. p.mode = "WAIT_RESPONSE" /\ Asked(p, radio, s.buffer)
  BY <1>2, <1>4, <1>5, <1>6, RequestedTalks
<1> HIDE DEF p
<1>8. Dialogue(p, radio, s.buffer) BY <1>7 DEF Dialogue, Awaiting
<1>9. InTurn(s, p, radio) BY <1>1, <1>5, <1>6, <1>8, SessionWhen
<1> QED BY <1>1, <1>2, <1>9 DEF After

LEMMA AppReadsTurns ==
    ASSUME Before, AppReads
    PROVE  After
<1> DEFINE C == Letters(radio.has)
           q == Read(dev, source.buffer)
           e == <<>>
           b == IF q.ret = "EAGAIN" THEN q.buffer ELSE e
           s == [source EXCEPT !.buffer = b]
           k == [history EXCEPT !.missed = TRUE]
<1>1. /\ Session /\ dev' = q.dev /\ source' = s /\ UNCHANGED radio
      /\ history' = CASE q.ret = "0" -> Accepted(dev, q)
                      [] q.ret = "ETIMEDOUT" -> k
                      [] OTHER -> history
  BY DEF AppReads
<1>2. /\ source \in SourceRecord /\ dev \in Port(Pieces, C) /\ ~history.crossed
      /\ source.buffer \in Seq(C) /\ history \in HistoryRecord
  BY BeforeIs
<1>3. /\ source.state = "SESSION" /\ source.ret = "0" /\ Dialogue(dev, radio, source.buffer)
      /\ dev.mode \notin Awaiting => source.buffer = e
  BY <1>1, SessionGives
<1>4. k.missed BY <1>2 DEF HistoryRecord
<1>5. e = <<>> OBVIOUS
<1> HIDE DEF C, k, e
<1>6. \/ q.ret = "EPERM" /\ dev.mode \notin Awaiting /\ q.dev = dev
      \/ q.ret \in {"ENOSPC", "EAGAIN"} /\ dev.mode \in Awaiting /\ q.dev.mode = dev.mode
      \/ q.ret \in {"0", "ETIMEDOUT"} /\ dev.mode \in Awaiting
  BY <1>2, ReadIs
<1>7. dev.mode \in Awaiting => ReadsOwn(dev, radio, q)
  <2>1. HAVE dev.mode \in Awaiting
  <2>2. Asked(dev, radio, source.buffer) BY <1>3, <2>1 DEF Dialogue
  <2> QED BY <1>2, <2>1, <2>2, ReadTalks
<1> HIDE DEF q
<1>8. dev.mode \in Awaiting => ~Accepted(dev, q).crossed BY <1>7, AcceptedIs DEF ReadsOwn
<1>9. s.buffer = b /\ s.state = "SESSION" /\ s.ret = "0" BY <1>2, <1>3, BufferIs
<1> HIDE DEF s
<1>10. CASE q.ret = "EPERM" /\ dev.mode \notin Awaiting /\ q.dev = dev
  <2>1. s.buffer = source.buffer /\ s.buffer = <<>> BY <1>3, <1>5, <1>9, <1>10
  <2>2. InTurn(s, q.dev, radio) BY <1>1, <1>3, <1>9, <1>10, <2>1, SessionWhen
  <2>3. history' = history BY <1>1, <1>10
  <2> QED BY <1>1, <1>2, <2>2, <2>3 DEF After
<1>11. CASE q.ret \in {"ENOSPC", "EAGAIN"} /\ dev.mode \in Awaiting /\ q.dev.mode = dev.mode
  <2>1. Asked(q.dev, radio, q.buffer) /\ Asked(q.dev, radio, <<>>)
    BY <1>7, <1>11 DEF ReadsOwn
  <2>2. s.buffer \in {q.buffer, e} BY <1>9
  <2>3. Asked(q.dev, radio, s.buffer) BY <1>5, <2>1, <2>2
  <2>4. Dialogue(q.dev, radio, s.buffer) BY <1>11, <2>3 DEF Dialogue, Awaiting
  <2>5. InTurn(s, q.dev, radio) BY <1>1, <1>9, <1>11, <2>4, SessionWhen
  <2>6. history' = history BY <1>1, <1>11
  <2> QED BY <1>1, <1>2, <2>5, <2>6 DEF After
<1>12. CASE q.ret = "0" /\ dev.mode \in Awaiting
  <2>1. Quiet(q.dev, radio) BY <1>7, <1>12 DEF ReadsOwn
  <2>2. s.buffer = <<>> BY <1>5, <1>9, <1>12
  <2>3. Dialogue(q.dev, radio, s.buffer) BY <2>1, <2>2, QuietTalks
  <2>4. InTurn(s, q.dev, radio) BY <1>1, <1>9, <2>2, <2>3, SessionWhen
  <2>5. history' = Accepted(dev, q) BY <1>1, <1>12
  <2> QED BY <1>1, <1>8, <1>12, <2>4, <2>5 DEF After
<1>13. CASE q.ret = "ETIMEDOUT"
  <2>1. history' = k BY <1>1, <1>13
  <2> QED BY <1>4, <2>1 DEF After, Straight
<1> QED BY <1>6, <1>10, <1>11, <1>12, <1>13

LEMMA AppExitsTurns ==
    ASSUME Before, AppExits
    PROVE  After
<1> DEFINE C == Letters(radio.has)
           t == Ticked(dev)
           q == Requested(t, "CN")
           p == Exited(dev)
           b == IF dev.mode = "COMMAND" THEN <<>> ELSE source.buffer
           s == [source EXCEPT !.buffer = b]
<1>1. Session /\ dev' = p /\ history' = GivenUp(dev) /\ source' = s /\ UNCHANGED radio
  <2>1. source' = [source EXCEPT !.buffer = IF dev.mode = "COMMAND" THEN <<>> ELSE @] BY DEF AppExits
  <2>2. source \in SourceRecord BY BeforeIs
  <2>3. source' = s BY <2>1, <2>2 DEF SourceRecord
  <2> QED BY <2>3 DEF AppExits
<1>2. SUFFICES ASSUME Straight(GivenUp(dev))
               PROVE  ~history'.crossed /\ InTurn(source', dev', radio')
  BY <1>1 DEF After
<1>3. /\ t \in Port(Pieces, C) /\ t.asked = dev.asked
      /\ Dialogue(t, radio, source.buffer) /\ (t.mode \notin Awaiting => source.buffer = <<>>)
      /\ ~GivenUp(dev).crossed
  BY <1>1, <1>2, SessionTicks
<1>4. /\ source \in SourceRecord /\ dev \in Port(Pieces, C) /\ "CN" \in Commands
      /\ Item("+++", dev.asked, 0) \in Pieces /\ Item("CN", dev.asked + 1, 0) \in Pieces
  BY BeforeIs DEF Commands
<1> HIDE DEF C
<1>5. \/ t.mode = "PRE_ESCAPE" /\ p.mode = "IDLE" /\ SameBut(p, t)
      \/ t.mode = "COMMAND" /\ p.mode = "WAIT_IDLE" /\ SameBut(p, q)
      \/ t.mode \notin {"PRE_ESCAPE", "COMMAND"} /\ p = t
  BY <1>4, ExitedIs
<1>6. source.state = "SESSION" /\ source.ret = "0" /\ (dev.mode \notin Awaiting => source.buffer = <<>>)
  BY <1>1, SessionGives
<1> HIDE DEF p, t
<1>7. b = source.buffer BY <1>6 DEF Awaiting
<1> HIDE DEF b
<1>8. s.buffer = source.buffer /\ s.state = "SESSION" /\ s.ret = "0" BY <1>4, <1>6, <1>7, BufferIs
<1> HIDE DEF s
<1>9. Dialogue(p, radio, source.buffer) /\ (p.mode \notin Awaiting => source.buffer = <<>>)
  <2>1. CASE t.mode = "PRE_ESCAPE" /\ p.mode = "IDLE" /\ SameBut(p, t)
    <3>1. Quiet(t, radio) BY <1>3, <2>1, TalksQuietly
    <3>2. Quiet(p, radio) BY <2>1, <3>1 DEF Quiet, SameBut
    <3>3. source.buffer = <<>> BY <1>3, <2>1 DEF Awaiting
    <3> QED BY <3>2, <3>3, QuietTalks
  <2>2. CASE t.mode = "COMMAND" /\ p.mode = "WAIT_IDLE" /\ SameBut(p, q)
    <3>1. Quiet(t, radio) BY <1>3, <2>2, TalksQuietly
    <3>2. source.buffer = <<>> BY <1>3, <2>2 DEF Awaiting
    <3>3. Item("CN", t.asked + 1, 0) \in Pieces BY <1>3, <1>4
    <3>4. Asked(q, radio, source.buffer) BY <1>3, <1>4, <3>1, <3>2, <3>3, RequestedTalks
    <3> HIDE DEF q
    <3>5. Asked(p, radio, source.buffer) BY <2>2, <3>4 DEF Asked, SameBut
    <3> QED BY <2>2, <3>2, <3>5 DEF Dialogue, Awaiting
  <2>3. CASE p = t BY <1>3, <2>3
  <2> QED BY <1>5, <2>1, <2>2, <2>3
<1>10. InTurn(s, p, radio) BY <1>1, <1>8, <1>9, SessionWhen
<1> QED BY <1>1, <1>3, <1>10

LEMMA TickTurns ==
    ASSUME Before, Tick
    PROVE  After
<1>1. CASE Install BY <1>1, InstallTurns
<1>2. CASE Application
  BY <1>2, AppEntersTurns, AppTicksTurns, AppSendsTurns, AppReadsTurns, AppExitsTurns
  DEF Application
<1> QED BY <1>1, <1>2 DEF Tick

-----------------------------------------------------------------------------
(* The module, the line and time *)

\* What is on its way stays so.
Keeps(s, d, r, p, q) ==
    /\ p.mode = d.mode
    /\ Quiet(d, r) => Quiet(p, q)
    /\ Greeting(d, r) => Greeting(p, q)
    /\ Asked(d, r, s.buffer) => Asked(p, q, s.buffer)
    /\ Starts(d, r) => Starts(p, q)
    /\ s.state \in {"SENDING", "RX_BLOCK"} /\ Sends(s, d, r) => Sends(s, p, q)

LEMMA KeepsTurn ==
    ASSUME NEW s, NEW d, NEW r, NEW p, NEW q, InTurn(s, d, r), Keeps(s, d, r, p, q)
    PROVE  InTurn(s, p, q)
<1>1. Dialogue(d, r, s.buffer) => Dialogue(p, q, s.buffer) BY DEF Keeps, Dialogue
<1> QED BY <1>1 DEF Keeps, InTurn

\* The driver waits, or can read the file no more.
LEMMA SourceWaits ==
    ASSUME NEW s, NEW t, NEW d, NEW r, InTurn(s, d, r),
           t.state = s.state, t.next = s.next, t.ret = s.ret, t.buffer = s.buffer,
           t.block = s.block, t.left = s.left, s.bad => t.bad
    PROVE  InTurn(t, d, r)
<1>1. Sent(t) = Sent(s) BY DEF Sent
<1>2. Underway(s, d, r) => Underway(t, d, r) BY <1>1 DEF Underway
<1>3. Replied(s, d) => Replied(t, d) BY DEF Replied
<1>4. Sends(s, d, r) => Sends(t, d, r) BY <1>2, <1>3 DEF Sends
<1> QED BY <1>4 DEF InTurn

\* Nothing happens on the line.
LEMMA LineKeeps ==
    ASSUME NEW s, NEW d, NEW r, NEW p, p.mode = d.mode, p.line = d.line, p.back = d.back,
           p.asked = d.asked, NEW q, q.phase = r.phase \/ q.phase # "escaped",
           q.got = r.got \/ q.got = <<>>
    PROVE  Keeps(s, d, r, p, q)
<1>1. Quiet(d, r) => Quiet(p, q) BY DEF Quiet
<1>2. Greeting(d, r) => Greeting(p, q) BY DEF Greeting
<1>3. Asked(d, r, s.buffer) => Asked(p, q, s.buffer) BY DEF Asked
<1>4. Starts(d, r) => Starts(p, q) BY DEF Starts
<1>5. Underway(s, d, r) => Underway(s, p, q) BY DEF Underway
<1>6. Replied(s, d) => Replied(s, p) BY DEF Replied
<1> QED BY <1>1, <1>2, <1>3, <1>4, <1>5, <1>6 DEF Keeps, Sends

\* The first item of the line is gone.
LEMMA ItemGone ==
    ASSUME NEW s, NEW I, NEW C, NEW d \in Port(I, C), d.line # <<>>, NEW r,
           NEW p, p.mode = d.mode, p.line = Tail(d.line), p.back = d.back,
           p.asked = d.asked, NEW q, q.phase = r.phase \/ q.phase # "escaped",
           q.got = r.got
    PROVE  Keeps(s, d, r, p, q)
<1> DEFINE l == d.line
           u == Tail(l)
<1>1. l \in Seq(I) /\ d.back \in Seq(C) /\ Len(d.back) \in Nat BY LenProperties DEF Port, Device
<1>2. PICK m \in Nat \ {0} : m = Len(l) BY <1>1, TailIs
<1>3. u \in Seq(I) /\ Len(u) = m - 1 /\ \A i \in 1 .. m - 1 : u[i] = l[i + 1] BY <1>1, <1>2, TailIs
<1>4. m <= 1 => u = <<>>
  <2> DEFINE n == m - 1
  <2>1. HAVE m <= 1
  <2>2. n \in Nat /\ n = 0
    <3>1. m \in Nat /\ m >= 1 OBVIOUS
    <3> QED BY <2>1, <3>1
  <2> HIDE DEF u
  <2>3. n = Len(u) BY <1>3
  <2> HIDE DEF n
  <2> QED BY <1>3, <2>2, <2>3, EmptyIs
<1>5. p.line = u /\ d.line = l /\ l # <<>> OBVIOUS
<1>6. m - 1 \in Nat BY <1>2
<1> HIDE DEF u, l
<1>7. ~Quiet(d, r) BY <1>5 DEF Quiet
<1>8. Greeting(d, r) => Greeting(p, q)
  <2>1. HAVE Greeting(d, r)
  <2>2. /\ Len(d.line) <= 1 /\ Len(d.back) <= 2 /\ d.back = <<>> /\ r.phase # "escaped"
    BY <1>5, <2>1 DEF Greeting
  <2>3. p.line = <<>> /\ Len(p.line) <= 1 BY <1>2, <1>3, <1>4, <1>5, <2>2
  <2> QED BY <2>2, <2>3 DEF Greeting
<1>9. Asked(d, r, s.buffer) => Asked(p, q, s.buffer)
  <2>1. HAVE Asked(d, r, s.buffer)
  <2>2. Len(d.line) <= 1 BY <2>1 DEF Asked
  <2>3. p.line = <<>> /\ Len(p.line) <= 1 BY <1>2, <1>3, <1>4, <1>5, <2>2
  <2> QED BY <2>1, <2>3 DEF Asked
<1>10. Starts(d, r) => Starts(p, q)
  <2>1. HAVE Starts(d, r)
  <2>2. m + Len(d.back) <= 1 BY <1>2, <1>5, <2>1 DEF Starts
  <2>3. m <= 1 BY <1>1, <2>2
  <2>4. p.line = <<>> BY <1>4, <1>5, <2>3
  <2>5. Len(p.line) + Len(p.back) <= 1 BY <1>1, <1>2, <1>3, <1>5, <2>2
  <2> QED BY <2>1, <2>4, <2>5 DEF Starts
<1>11. Underway(s, d, r) => Underway(s, p, q)
  <2>1. HAVE Underway(s, d, r)
  <2>2. \A i \in 1 .. m - 1 : i + 1 \in 1 .. m /\ u[i] = l[i + 1] BY <1>2, <1>3
  <2>3. /\ \A i \in 1 .. m : l[i].kind \in {"data", "stale"} /\ l[i].of = s.block
                               /\ l[i].part \in 1 .. Sent(s)
        /\ \A i, j \in 1 .. m : i < j => l[i].part < l[j].part
        /\ p.back # <<>> => Sent(s) >= 1 /\ \A i \in 1 .. m : l[i].part # 1
    BY <1>2, <1>5, <2>1 DEF Underway
  <2>4. \A i \in 1 .. m - 1 : u[i].kind \in {"data", "stale"} /\ u[i].of = s.block
                               /\ u[i].part \in 1 .. Sent(s)
    BY <2>2, <2>3
  <2>5. \A i, j \in 1 .. m - 1 : i < j => u[i].part < u[j].part
    <3> TAKE i, j \in 1 .. m - 1
    <3> HAVE i < j
    <3>1. i + 1 < j + 1 OBVIOUS
    <3> QED BY <2>2, <2>3, <3>1
  <2>6. p.back # <<>> => \A i \in 1 .. m - 1 : u[i].part # 1 BY <2>2, <2>3
  <2> QED BY <1>3, <1>5, <2>1, <2>3, <2>4, <2>5, <2>6 DEF Underway
<1>12. ~Replied(s, d) BY <1>5 DEF Replied
<1> QED BY <1>7, <1>8, <1>9, <1>10, <1>11, <1>12 DEF Keeps, Sends

\* The first character that was received is gone.
LEMMA CharGone ==
    ASSUME NEW s, s.left \in Nat, NEW I, NEW C, NEW d \in Port(I, C), d.back # <<>>, NEW r,
           NEW p, p.mode = d.mode, p.line = d.line, p.back = Tail(d.back), p.asked = d.asked
    PROVE  Keeps(s, d, r, p, r)
<1> DEFINE b == d.back
           u == Tail(b)
<1>1. b \in Seq(C) /\ d.line \in Seq(I) /\ Len(d.line) \in Nat BY LenProperties DEF Port, Device
<1>2. PICK m \in Nat \ {0} : m = Len(b) BY <1>1, TailIs
<1>3. u \in Seq(C) /\ Len(u) = m - 1 /\ \A i \in 1 .. m - 1 : u[i] = b[i + 1] BY <1>1, <1>2, TailIs
<1>4. \A O : b \in Seq(O) => u \in Seq(O)
  <2> TAKE O
  <2> HAVE b \in Seq(O)
  <2> QED BY TailIs
<1>5. p.back = u /\ d.back = b /\ b # <<>> OBVIOUS
<1>6. m - 1 \in Nat /\ \A i \in 1 .. m - 1 : i + 1 \in 1 .. m BY <1>2
<1> HIDE DEF u, b
<1>7. ~Quiet(d, r) BY <1>5 DEF Quiet
<1>8. Greeting(d, r) => Greeting(p, r)
  <2>1. HAVE Greeting(d, r)
  <2>2. Len(d.line) <= 1 /\ m <= 2 /\ d.line = <<>> /\ r.phase # "escaped"
    BY <1>2, <1>5, <2>1 DEF Greeting
  <2>3. Len(p.back) <= 2 BY <1>2, <1>3, <1>5, <2>2
  <2> QED BY <2>2, <2>3 DEF Greeting
<1>9. Asked(d, r, s.buffer) => Asked(p, r, s.buffer)
  <2>1. HAVE Asked(d, r, s.buffer)
  <2>2. /\ d.line = <<>> /\ b \in Seq(Own(d.asked))
        /\ \A i \in 1 .. m : b[i].ch = "CR" => i = m
    BY <1>2, <1>5, <2>1 DEF Asked
  <2>3. \A i \in 1 .. m - 1 : u[i].ch = "CR" => i = m - 1
    <3> TAKE i \in 1 .. m - 1
    <3> HAVE u[i].ch = "CR"
    <3>1. i + 1 = m BY <1>3, <1>6, <2>2
    <3> QED BY <1>2, <3>1
  <2>4. u \in Seq(Own(p.asked)) BY <1>4, <2>2
  <2> QED BY <1>3, <1>5, <2>1, <2>2, <2>3, <2>4 DEF Asked
<1>10. Starts(d, r) => Starts(p, r)
  <2>1. HAVE Starts(d, r)
  <2>2. Len(d.line) + m <= 1 BY <1>2, <1>5, <2>1 DEF Starts
  <2>3. Len(p.line) + Len(p.back) <= 1 BY <1>1, <1>2, <1>3, <1>5, <2>2
  <2> QED BY <2>1, <2>3 DEF Starts
<1>11. Underway(s, d, r) => Underway(s, p, r)
  <2>1. HAVE Underway(s, d, r)
  <2>2. \A i \in 1 .. m : b[i].ch = "N" BY <1>2, <1>5, <2>1 DEF Underway
  <2>3. \A i \in 1 .. m - 1 : u[i].ch = "N" BY <1>3, <1>6, <2>2
  <2> QED BY <1>3, <1>5, <2>1, <2>3 DEF Underway
<1>12. Replied(s, d) => Replied(s, p)
  <2>1. HAVE Replied(s, d)
  <2>2. (\A i \in 1 .. m : b[i].of = s.block) /\ (s.bad \/ m <= s.left)
    BY <1>2, <1>5, <2>1 DEF Replied
  <2>3. \A i \in 1 .. m - 1 : u[i].of = s.block BY <1>3, <1>6, <2>2
  <2>4. s.bad \/ m - 1 <= s.left BY <1>2, <2>2
  <2> QED BY <1>3, <1>5, <2>1, <2>3, <2>4 DEF Replied
<1> QED BY <1>7, <1>8, <1>9, <1>10, <1>11, <1>12 DEF Keeps, Sends

\* A step of the module or of the line.
LEMMA TurnsWhen ==
    ASSUME Before, NEW p, NEW q, Keeps(source, dev, radio, p, q),
           source' = source, dev' = p, radio' = q, UNCHANGED history
    PROVE  After
<1>1. InTurn(source, p, q) BY KeepsTurn DEF Before
<1> QED BY <1>1, BeforeIs DEF After

LEMMA LineTurns ==
    ASSUME Before, LineFails
    PROVE  After
<1> DEFINE C == Letters(radio.has)
           p == [dev EXCEPT !.line = Tail(dev.line)]
           v == [dev EXCEPT !.back = Tail(dev.back)]
<1>1. dev \in Port(Pieces, C) /\ source \in SourceRecord BY BeforeIs
<1>2. source' = source /\ radio' = radio BY DEF LineFails
<1>3. source.left \in Nat BY <1>1 DEF SourceRecord
<1>4. /\ p.mode = dev.mode /\ p.line = Tail(dev.line) /\ p.back = dev.back /\ p.asked = dev.asked
      /\ v.mode = dev.mode /\ v.line = dev.line /\ v.back = Tail(dev.back) /\ v.asked = dev.asked
  BY <1>1 DEF Port, Device
<1>5. CASE ItemLost
  <2>1. dev.line # <<>> /\ UNCHANGED history BY <1>5 DEF ItemLost
  <2>2. dev' = p BY <1>1, <1>5 DEF ItemLost, Port, Device
  <2> HIDE DEF C, p, v
  <2>3. Keeps(source, dev, radio, p, radio) BY <1>1, <1>4, <2>1, ItemGone
  <2> QED BY <1>2, <2>1, <2>2, <2>3, TurnsWhen
<1>6. CASE CharLost
  <2>1. dev.back # <<>> /\ UNCHANGED history BY <1>6 DEF CharLost
  <2>2. dev' = v BY <1>1, <1>6 DEF CharLost, Port, Device
  <2> HIDE DEF C, p, v
  <2>3. Keeps(source, dev, radio, v, radio) BY <1>1, <1>3, <1>4, <2>1, CharGone
  <2> QED BY <1>2, <2>1, <2>2, <2>3, TurnsWhen
<1>7. CASE CharForged
  <2>1. history' = [history EXCEPT !.forged = TRUE] BY <1>7 DEF CharForged
  <2>2. history'.forged BY <2>1, BeforeIs DEF HistoryRecord
  <2> QED BY <2>2 DEF After, Straight
<1> QED BY <1>5, <1>6, <1>7 DEF LineFails

LEMMA FaultTurns ==
    ASSUME Before, Fault
    PROVE  After
<1>1. CASE LineFails BY <1>1, LineTurns
<1>2. CASE ModuleResets
  <2> DEFINE phase == IF dev.broken THEN "boot" ELSE "app"
  <2>1. PICK q : q = [radio EXCEPT !.phase = phase, !.got = <<>>] OBVIOUS
  <2>2. q.phase # "escaped" /\ q.got = <<>> BY <2>1, BeforeIs DEF RadioRecord
  <2>3. Keeps(source, dev, radio, dev, q) BY <2>2, LineKeeps
  <2> QED BY <1>2, <2>1, <2>3, TurnsWhen DEF ModuleResets
<1>3. CASE FileFails
  <2>1. PICK t : t = [source EXCEPT !.bad = TRUE] OBVIOUS
  <2>2. source' = t /\ UNCHANGED <<dev, radio, history>> BY <1>3, <2>1 DEF FileFails
  <2>3. /\ t.state = source.state /\ t.next = source.next /\ t.ret = source.ret
        /\ t.buffer = source.buffer /\ t.block = source.block /\ t.left = source.left /\ t.bad
    BY <2>1, BeforeIs DEF SourceRecord
  <2>4. InTurn(t, dev, radio) BY <2>3, SourceWaits DEF Before
  <2> QED BY <2>2, <2>4, BeforeIs DEF After
<1> QED BY <1>1, <1>2, <1>3 DEF Fault

LEMMA TimeTurns ==
    ASSUME Before, TimePasses
    PROVE  After
<1>1. PICK t : t = [source EXCEPT !.timer = Later(@, 1)] OBVIOUS
<1>2. PICK p : p = [dev EXCEPT !.age = Later(@, 1)] OBVIOUS
<1>3. PICK q : q = [radio EXCEPT !.quiet = Later(@, 1)] OBVIOUS
<1>4. source' = t /\ dev' = p /\ radio' = q /\ UNCHANGED history BY <1>1, <1>2, <1>3 DEF TimePasses
<1>5. /\ t.state = source.state /\ t.next = source.next /\ t.ret = source.ret
      /\ t.buffer = source.buffer /\ t.block = source.block /\ t.left = source.left
      /\ t.bad = source.bad
  BY <1>1, BeforeIs DEF SourceRecord
<1>6. p.mode = dev.mode /\ p.line = dev.line /\ p.back = dev.back /\ p.asked = dev.asked
  BY <1>2, BeforeIs DEF Port, Device
<1>7. q.phase = radio.phase /\ q.got = radio.got BY <1>3, BeforeIs DEF RadioRecord
<1>8. InTurn(t, dev, radio) BY <1>5, SourceWaits DEF Before
<1>9. Keeps(t, dev, radio, p, q) BY <1>6, <1>7, LineKeeps
<1>10. InTurn(t, p, q) BY <1>8, <1>9, KeepsTurn
<1> QED BY <1>4, <1>10, BeforeIs DEF After

\* What the module says is received, or there is no room for it.
LEMMA Tells ==
    ASSUME NEW I, NEW C, NEW d \in Port(I, C), NEW chars \in Seq(C)
    PROVE  /\ Says(d, chars).line = d.line /\ Says(d, chars).mode = d.mode
           /\ Says(d, chars).asked = d.asked
           /\ Says(d, chars).back = d.back \/ Says(d, chars).back = d.back \o chars
           /\ d.back = <<>> => Says(d, chars).back = <<>> \/ Says(d, chars).back = chars
<1> DEFINE b == d.back \o chars
           w == Says(d, chars)
<1>1. w = [d EXCEPT !.back = b] \/ w = d
  <2>1. [d EXCEPT !.back = @ \o chars] = [d EXCEPT !.back = b] BY DEF Port, Device
  <2> QED BY <2>1 DEF Says
<1>2. d.back = <<>> => b = chars BY ConcatEmptySeq
<1> HIDE DEF b, w
<1>3. w.line = d.line /\ w.mode = d.mode /\ w.asked = d.asked /\ (w.back = d.back \/ w.back = b)
  BY <1>1 DEF Port, Device
<1>4. d.back = <<>> => w.back = <<>> \/ w.back = chars BY <1>2, <1>3
<1> QED BY <1>3, <1>4 DEF b, w

\* The module falls silent about the escape sequence, and answers it.
LEMMA GreetsTurns ==
    ASSUME Before, ModuleGreets
    PROVE  After
<1> DEFINE a == Char("OK", dev.asked)
           c == Char("CR", dev.asked)
           chars == <<a, c>>
           C == Letters(radio.has)
<1>1. PICK q : q = [radio EXCEPT !.phase = "command", !.quiet = 0] OBVIOUS
<1>2. PICK p : p = IF Tuned THEN Says(dev, chars) ELSE dev OBVIOUS
<1>3. /\ radio.phase = "escaped" /\ source' = source /\ dev' = p /\ radio' = q /\ UNCHANGED history
  BY <1>1, <1>2 DEF ModuleGreets
<1>4. q.phase = "command" /\ q.got = radio.got BY <1>1, BeforeIs DEF RadioRecord
<1>5. dev \in Port(Pieces, C) /\ dev.asked \in Nat /\ dev.back \in Seq(C) BY BeforeIs
<1>6. a \in C /\ c \in C
  <2>1. \A ch \in Texts \cup {"CR", "N", "junk"} : Char(ch, dev.asked) \in C BY <1>5, Written
  <2> HIDE DEF C
  <2> QED BY <2>1 DEF Texts
<1> HIDE DEF C, a, c
<1>7. chars \in Seq(C) /\ Len(chars) = 2 BY <1>6
<1>12. Len(chars) <= 2 BY <1>7
<1> HIDE DEF chars
<1>8. /\ p.line = dev.line /\ p.mode = dev.mode /\ p.asked = dev.asked
      /\ dev.back = <<>> => p.back = <<>> \/ p.back = chars
  <2> DEFINE w == Says(dev, chars)
  <2>1. /\ w.line = dev.line /\ w.mode = dev.mode /\ w.asked = dev.asked
        /\ dev.back = <<>> => w.back = <<>> \/ w.back = chars
    BY <1>5, <1>7, Tells
  <2>2. p = w \/ p = dev BY <1>2
  <2> HIDE DEF w
  <2> QED BY <2>1, <2>2
<1>9. Greeting(dev, radio) => Greeting(p, q)
  <2>1. HAVE Greeting(dev, radio)
  <2>2. dev.line = <<>> /\ dev.back = <<>> /\ Len(dev.line) <= 1 /\ Len(dev.back) <= 2
    BY <1>3, <2>1 DEF Greeting
  <2>4. Len(p.back) <= 2
    <3>1. CASE p.back = chars BY <1>12, <3>1
    <3>2. CASE p.back = <<>>
      <4>1. p.back = dev.back BY <2>2, <3>2
      <4> QED BY <2>2, <4>1
    <3> QED BY <1>8, <2>2, <3>1, <3>2
  <2> QED BY <1>4, <1>8, <2>2, <2>4 DEF Greeting
<1>10. ~Quiet(dev, radio) /\ ~Asked(dev, radio, source.buffer) /\ ~Starts(dev, radio)
       /\ ~Sends(source, dev, radio)
  BY <1>3 DEF Quiet, Asked, Starts, Sends
<1>11. Keeps(source, dev, radio, p, q) BY <1>8, <1>9, <1>10 DEF Keeps
<1> QED BY <1>3, <1>11, TurnsWhen

LEMMA LeavesTurns ==
    ASSUME Before, ModuleLeaves \/ ModuleStarts
    PROVE  After
<1> DEFINE phase == IF dev.broken THEN "boot" ELSE "app"
<1>1. PICK t : t = [radio EXCEPT !.phase = "app"] OBVIOUS
<1>2. PICK u : u = [radio EXCEPT !.phase = phase, !.got = <<>>] OBVIOUS
<1>3. /\ t.phase = "app" /\ t.got = radio.got
      /\ u.phase # "escaped" /\ u.got = <<>>
  BY <1>1, <1>2, BeforeIs DEF RadioRecord
<1>4. Keeps(source, dev, radio, dev, t) /\ Keeps(source, dev, radio, dev, u) BY <1>3, LineKeeps
<1>5. UNCHANGED <<source, dev, history>> /\ (radio' = t \/ radio' = u)
  BY <1>1, <1>2 DEF ModuleLeaves, ModuleStarts
<1> QED BY <1>4, <1>5, TurnsWhen

-----------------------------------------------------------------------------
(* The module reads an item *)

\* The line without its first item.
Rid == [dev EXCEPT !.line = Tail(@)]

\* A request is answered where nothing else is on its way.
LEMMA AnswerTurns ==
    ASSUME Before, dev.line # <<>>, NEW item, item = Head(dev.line), item.kind \in Commands,
           NEW q, q.phase # "escaped", source' = source, dev' = Says(Rid, Answer(item)),
           radio' = q, UNCHANGED history
    PROVE  After
<1> DEFINE C == Letters(radio.has)
           a == Answer(item)
           p == Says(Rid, a)
           l == dev.line
<1>1. dev \in Port(Pieces, C) /\ l \in Seq(Pieces) /\ l # <<>> BY BeforeIs
<1>2. /\ Rid \in Port(Pieces, C) /\ item \in Pieces /\ Rid.back = dev.back /\ Rid.mode = dev.mode
      /\ Rid.asked = dev.asked /\ Rid.line = Tail(l)
  BY <1>1, ItemIsTaken DEF Rid
<1>3. IInv /\ item \in Items BY <1>2 DEF Before, Pieces
<1>4. /\ a \in Seq(C) /\ Len(a) = 2 /\ a[1] = Char(TextOf(item.kind), item.of)
      /\ a[2] = Char("CR", item.of) /\ TextOf(item.kind) \in Texts
  BY <1>3, AnswerIs
<1>5. a = <<Char(TextOf(item.kind), item.of), Char("CR", item.of)>> BY DEF Answer
<1>6. item = l[1] BY <1>1, TailIs
<1> HIDE DEF C, a, l
<1>7. /\ p.line = Tail(l) /\ p.mode = dev.mode /\ p.asked = dev.asked
      /\ dev.back = <<>> => p.back = <<>> \/ p.back = a
  BY <1>2, <1>4, Tells
<1> HIDE DEF p
<1>8. item.kind \notin {"+++", "+", "data", "stale"} BY DEF Commands
<1>9. l = dev.line /\ source' = source /\ dev' = p /\ radio' = q BY DEF l, p, a
<1>10. PICK m \in Nat \ {0} : m = Len(l) BY <1>1, TailIs
<1>11. ~Quiet(dev, radio) BY <1>1, <1>9 DEF Quiet
<1>12. ~Greeting(dev, radio) BY <1>1, <1>6, <1>8, <1>9 DEF Greeting
<1>13. ~Starts(dev, radio) BY <1>1, <1>6, <1>8, <1>9 DEF Starts
<1>14. ~Sends(source, dev, radio)
  <2>1. 1 \in 1 .. m /\ 1 \in 1 .. Len(dev.line) BY <1>9, <1>10
  <2>2. ~Underway(source, dev, radio) BY <1>6, <1>8, <1>9, <2>1 DEF Underway
  <2>3. ~Replied(source, dev) BY <1>1, <1>9 DEF Replied
  <2> QED BY <2>2, <2>3 DEF Sends
<1>15. Asked(dev, radio, source.buffer) => Asked(p, q, source.buffer)
  <2>1. HAVE Asked(dev, radio, source.buffer)
  <2>2. /\ m <= 1 /\ dev.back = <<>> /\ item.of = dev.asked
        /\ source.buffer \in Seq(Own(dev.asked))
    BY <1>1, <1>6, <1>9, <1>10, <2>1 DEF Asked
  <2> DEFINE e == Tail(l)
             n == m - 1
  <2>3. e \in Seq(Pieces) /\ n = Len(e) BY <1>1, <1>10, TailIs
  <2>4. n \in Nat /\ n = 0
    <3>1. m \in Nat /\ m >= 1 OBVIOUS
    <3> QED BY <2>2, <3>1
  <2> HIDE DEF e, n
  <2>5. e = <<>> BY <2>3, <2>4, EmptyIs
  <2>9. Len(e) <= 1 BY <2>3, <2>4
  <2>6. p.line = <<>> /\ Len(p.line) <= 1 BY <1>7, <2>5, <2>9 DEF e
  <2>7. CASE p.back = <<>>
    <3> DEFINE b == p.back
               k == Len(b)
    <3>1. b \in Seq(Own(dev.asked)) /\ k = 0
      <4>1. <<>> \in Seq(Own(dev.asked)) /\ Len(<<>>) = 0 BY EmptySeq
      <4> QED BY <2>7, <4>1
    <3>2. 1 .. Len(b) = {} BY <3>1
    <3> HIDE DEF b
    <3> QED BY <1>7, <2>2, <2>6, <3>1, <3>2 DEF Asked, b
  <2>8. CASE p.back = a
    <3> DEFINE x == Char(TextOf(item.kind), item.of)
               y == Char("CR", item.of)
               O == Own(dev.asked)
    <3>1. x \in CharRecord /\ x.of = dev.asked /\ x.ch # "CR"
      <4> DEFINE t == TextOf(item.kind)
      <4>1. t \in Chars /\ t # "CR" BY <1>4 DEF Texts, Chars
      <4>2. item.of \in Nat BY <1>3 DEF Items
      <4>3. x = Char(t, item.of) OBVIOUS
      <4> HIDE DEF t, x
      <4> QED BY <2>2, <4>1, <4>2, <4>3 DEF CharRecord, Char
    <3>2. y \in CharRecord /\ y.of = dev.asked
      <4>1. item.of \in Nat BY <1>3 DEF Items
      <4> QED BY <2>2, <4>1 DEF CharRecord, Char, Chars
    <3>3. x \in O /\ y \in O BY <3>1, <3>2 DEF Own
    <3> HIDE DEF x, y, O
    <3>4. a \in Seq(O) BY <1>5, <3>3 DEF x, y
    <3>5. \A i \in 1 .. Len(a) : a[i].ch = "CR" => i = Len(a)
      <4>1. \A i \in 1 .. Len(a) : i = 1 \/ i = Len(a) BY <1>4
      <4>2. a[1].ch # "CR" BY <1>4, <3>1 DEF x
      <4> QED BY <4>1, <4>2
    <3> QED BY <1>7, <2>2, <2>6, <2>8, <3>4, <3>5 DEF Asked, O
  <2> QED BY <1>7, <2>2, <2>7, <2>8
<1>16. Keeps(source, dev, radio, p, q)
  BY <1>7, <1>11, <1>12, <1>13, <1>14, <1>15 DEF Keeps
<1> QED BY <1>9, <1>16, TurnsWhen

\* The bootloader answers.
LEMMA StartedTurns ==
    ASSUME Before, dev.line # <<>>, NEW item, item = Head(dev.line), item.kind = "+",
           NEW q, q.phase # "escaped", source' = source, dev' = Says(Rid, <<Char("U", 0)>>),
           radio' = q, UNCHANGED history
    PROVE  After
<1> DEFINE C == CharRecord
           a == <<Char("U", 0)>>
           p == Says(Rid, a)
           l == dev.line
<1>1. dev \in Port(Pieces, C) /\ l \in Seq(Pieces) /\ l # <<>> /\ Len(dev.back) \in Nat
  <2>1. dev \in Port(Pieces, Letters(radio.has)) /\ l \in Seq(Pieces) /\ Len(dev.back) \in Nat
        /\ dev.back \in Seq(Letters(radio.has))
    BY BeforeIs
  <2>2. Letters(radio.has) \subseteq C BY DEF Letters
  <2> HIDE DEF C
  <2>3. dev \in Port(Pieces, C) BY <2>1, <2>2, PortGrows
  <2> QED BY <2>1, <2>3
<1>2. /\ Rid \in Port(Pieces, C) /\ Rid.back = dev.back /\ Rid.mode = dev.mode
      /\ Rid.asked = dev.asked /\ Rid.line = Tail(l)
  BY <1>1, ItemIsTaken DEF Rid
<1>3. Char("U", 0) \in C BY DEF Char, CharRecord, Chars
<1>4. a \in Seq(C) /\ Len(a) = 1 BY <1>3
<1>17. Len(a) <= 1 BY <1>4
<1>6. item = l[1] BY <1>1, TailIs
<1> HIDE DEF C, a, l
<1>7. /\ p.line = Tail(l) /\ p.mode = dev.mode /\ p.asked = dev.asked
      /\ dev.back = <<>> => p.back = <<>> \/ p.back = a
  BY <1>2, <1>4, Tells
<1> HIDE DEF p
<1>8. item.kind \notin Commands \cup {"+++", "data", "stale"} BY DEF Commands
<1>9. l = dev.line /\ source' = source /\ dev' = p /\ radio' = q BY DEF l, p, a
<1>10. PICK m \in Nat \ {0} : m = Len(l) BY <1>1, TailIs
<1>11. ~Quiet(dev, radio) BY <1>1, <1>9 DEF Quiet
<1>12. ~Greeting(dev, radio) BY <1>1, <1>6, <1>8, <1>9 DEF Greeting
<1>13. ~Asked(dev, radio, source.buffer) BY <1>1, <1>6, <1>8, <1>9 DEF Asked
<1>14. ~Sends(source, dev, radio)
  <2>1. 1 \in 1 .. m /\ 1 \in 1 .. Len(dev.line) BY <1>9, <1>10
  <2>2. ~Underway(source, dev, radio) BY <1>6, <1>8, <1>9, <2>1 DEF Underway
  <2>3. ~Replied(source, dev) BY <1>1, <1>9 DEF Replied
  <2> QED BY <2>2, <2>3 DEF Sends
<1>15. Starts(dev, radio) => Starts(p, q)
  <2>1. HAVE Starts(dev, radio)
  <2> DEFINE e == Tail(l)
             n == m - 1
             k == Len(dev.back)
  <2>2. m + k <= 1 /\ k \in Nat BY <1>1, <1>9, <1>10, <2>1 DEF Starts
  <2>3. e \in Seq(Pieces) /\ n = Len(e) BY <1>1, <1>10, TailIs
  <2>8. k = Len(dev.back) /\ dev.back \in Seq(C) BY <1>1 DEF Port, Device
  <2>4. n \in Nat /\ n = 0 /\ k = 0
    <3> HIDE DEF k
    <3>1. m \in Nat /\ m >= 1 OBVIOUS
    <3> QED BY <2>2, <3>1
  <2> HIDE DEF e, n, k
  <2>5. e = <<>> BY <2>3, <2>4, EmptyIs
  <2>6. dev.back = <<>> BY <2>4, <2>8, EmptyIs
  <2>7. Len(p.line) = 0 /\ p.line = <<>>
    <3>1. p.line = e BY <1>7 DEF e
    <3> QED BY <2>3, <2>4, <2>5, <3>1
  <2>9. Len(p.back) \in {0, 1}
    <3>1. CASE p.back = dev.back BY <2>4, <2>8, <3>1
    <3>2. CASE p.back = a BY <1>4, <3>2
    <3> QED BY <1>7, <2>6, <3>1, <3>2
  <2>10. Len(p.line) + Len(p.back) <= 1
    <3> DEFINE i == Len(p.line)
               j == Len(p.back)
    <3>1. i = 0 /\ j \in {0, 1} BY <2>7, <2>9
    <3> HIDE DEF i, j
    <3>2. i + j <= 1 BY <3>1
    <3> QED BY <3>2 DEF i, j
  <2> QED BY <2>7, <2>10 DEF Starts
<1>16. Keeps(source, dev, radio, p, q)
  BY <1>7, <1>11, <1>12, <1>13, <1>14, <1>15 DEF Keeps
<1> QED BY <1>9, <1>16, TurnsWhen

\* The escape sequence is read by a module that is running its application.
LEMMA EscapedTurns ==
    ASSUME Before, dev.line # <<>>, NEW item, item = Head(dev.line), item.kind = "+++",
           NEW q, source' = source, dev' = Rid, radio' = q, UNCHANGED history
    PROVE  After
<1> DEFINE C == Letters(radio.has)
           p == Rid
           l == dev.line
<1>1. dev \in Port(Pieces, C) /\ l \in Seq(Pieces) /\ l # <<>> BY BeforeIs
<1>2. p.back = dev.back /\ p.mode = dev.mode /\ p.line = Tail(l)
  BY <1>1, ItemIsTaken DEF Rid
<1>6. item = l[1] BY <1>1, TailIs
<1> HIDE DEF C, l
<1> HIDE DEF p
<1>8. item.kind \notin Commands \cup {"+", "data", "stale"} BY DEF Commands
<1>9. l = dev.line /\ source' = source /\ dev' = p /\ radio' = q BY DEF l, p
<1>10. PICK m \in Nat \ {0} : m = Len(l) BY <1>1, TailIs
<1>11. ~Quiet(dev, radio) BY <1>1, <1>9 DEF Quiet
<1>12. ~Starts(dev, radio) BY <1>1, <1>6, <1>8, <1>9 DEF Starts
<1>13. ~Asked(dev, radio, source.buffer) BY <1>1, <1>6, <1>8, <1>9 DEF Asked
<1>14. ~Sends(source, dev, radio)
  <2>1. 1 \in 1 .. m /\ 1 \in 1 .. Len(dev.line) BY <1>9, <1>10
  <2>2. ~Underway(source, dev, radio) BY <1>6, <1>8, <1>9, <2>1 DEF Underway
  <2>3. ~Replied(source, dev) BY <1>1, <1>9 DEF Replied
  <2> QED BY <2>2, <2>3 DEF Sends
<1>15. Greeting(dev, radio) => Greeting(p, q)
  <2>1. HAVE Greeting(dev, radio)
  <2> DEFINE e == Tail(l)
             n == m - 1
  <2>2. m <= 1 /\ dev.back = <<>> /\ Len(dev.back) <= 2
    BY <1>1, <1>9, <1>10, <2>1 DEF Greeting
  <2>3. e \in Seq(Pieces) /\ n = Len(e) BY <1>1, <1>10, TailIs
  <2>4. n \in Nat /\ n = 0
    <3>1. m \in Nat /\ m >= 1 OBVIOUS
    <3> QED BY <2>2, <3>1
  <2> HIDE DEF e, n
  <2>5. e = <<>> BY <2>3, <2>4, EmptyIs
  <2>8. Len(e) <= 1 BY <2>3, <2>4
  <2>6. p.line = e BY <1>2 DEF e
  <2>7. p.back = <<>> /\ Len(p.back) <= 2 BY <1>2, <2>2
  <2> QED BY <2>5, <2>6, <2>7, <2>8 DEF Greeting
<1>16. Keeps(source, dev, radio, p, q)
  BY <1>2, <1>11, <1>12, <1>13, <1>14, <1>15 DEF Keeps
<1> QED BY <1>9, <1>16, TurnsWhen

\* The pieces that follow the first one on the line.
Follow(s, l, u) ==
    /\ l[1].part \in 1 .. Sent(s) /\ l[1].of = s.block /\ l[1].kind \in {"data", "stale"}
    /\ \A i \in 1 .. Len(u) :
          /\ u[i].kind \in {"data", "stale"} /\ u[i].of = s.block
          /\ u[i].part \in 1 .. Sent(s) /\ u[i].part # 1
    /\ \A i, j \in 1 .. Len(u) : i < j => u[i].part < u[j].part
    /\ l[1].part >= Sent(s) => u = <<>>

LEMMA FollowsFirst ==
    ASSUME NEW s, Sent(s) \in Nat, NEW I, NEW d, d.line \in Seq(I), d.line # <<>>, NEW r,
           Underway(s, d, r)
    PROVE  Follow(s, d.line, Tail(d.line))
<1> DEFINE l == d.line
           u == Tail(l)
           n == Sent(s)
<1>1. PICK m \in Nat \ {0} : m = Len(l) BY TailIs
<1>2. u \in Seq(I) /\ Len(u) = m - 1 /\ \A i \in 1 .. m - 1 : u[i] = l[i + 1] BY <1>1, TailIs
<1>3. /\ \A i \in 1 .. m : l[i].kind \in {"data", "stale"} /\ l[i].of = s.block
                              /\ l[i].part \in 1 .. n
      /\ \A i, j \in 1 .. m : i < j => l[i].part < l[j].part
  BY <1>1 DEF Underway
<1>4. n \in Nat /\ m - 1 \in Nat /\ 1 \in 1 .. m
      /\ \A i \in 1 .. m - 1 : i + 1 \in 1 .. m /\ 1 < i + 1
  BY <1>1
<1> HIDE DEF u, l, n
<1>5. l[1].part \in 1 .. n /\ l[1].of = s.block /\ l[1].kind \in {"data", "stale"} BY <1>3, <1>4
<1>6. \A i \in 1 .. m - 1 : /\ u[i].kind \in {"data", "stale"} /\ u[i].of = s.block
                            /\ u[i].part \in 1 .. n /\ l[1].part < u[i].part
  BY <1>2, <1>3, <1>4
<1>7. \A i \in 1 .. m - 1 : u[i].part # 1
  <2> TAKE i \in 1 .. m - 1
  <2>1. l[1].part < u[i].part /\ u[i].part \in Int BY <1>6
  <2> QED BY <1>5, <2>1
<1>8. \A i, j \in 1 .. m - 1 : i < j => u[i].part < u[j].part
  <2> TAKE i, j \in 1 .. m - 1
  <2> HAVE i < j
  <2>1. i + 1 < j + 1 OBVIOUS
  <2> QED BY <1>2, <1>3, <1>4, <2>1
<1>9. l[1].part >= n => u = <<>>
  <2> HAVE l[1].part >= n
  <2> DEFINE k == m - 1
  <2>1. k \in Nat /\ k = Len(u) BY <1>2, <1>4
  <2>2. k = 0
    <3>1. SUFFICES ASSUME k # 0 PROVE FALSE OBVIOUS
    <3>2. 1 \in 1 .. m - 1 BY <2>1, <3>1
    <3>3. u[1].part \in 1 .. n /\ l[1].part < u[1].part BY <1>6, <3>2
    <3> QED BY <1>4, <1>5, <3>3
  <2> HIDE DEF k
  <2> QED BY <1>2, <2>1, <2>2, EmptyIs
<1> QED BY <1>2, <1>5, <1>6, <1>7, <1>8, <1>9 DEF Follow, l, u, n

\* Of a line on which pieces follow, more pieces are on their way.
LEMMA FollowOn ==
    ASSUME NEW s, NEW l, NEW p, Follow(s, l, p.line), Sent(s) \in Nat, NEW q,
           \A i \in 1 .. Len(p.back) : p.back[i].ch = "N",
           p.back = <<>> \/ q.got = <<>>,
           s.state = "RX_BLOCK" => s.bad \/ s.left = Len(Reply)
    PROVE  Underway(s, p, q)
<1>1. Sent(s) >= 1 BY DEF Follow
<1> QED BY <1>1 DEF Follow, Underway

\* One more that says no.
LEMMA MoreSayNo ==
    ASSUME NEW S, NEW s \in Seq(S), \A i \in 1 .. Len(s) : s[i].ch = "N", NEW x \in S, x.ch = "N"
    PROVE  \A i \in 1 .. Len(s \o <<x>>) : (s \o <<x>>)[i].ch = "N"
<1> DEFINE c == <<x>>
           t == s \o c
           m == Len(c)
<1>1. c \in Seq(S) /\ m = 1 /\ c[1] = x OBVIOUS
<1>2. PICK n \in Nat : n = Len(s) BY LenProperties
<1> HIDE DEF c
<1>5. Len(t) = n + m /\ \A i \in 1 .. n + m : t[i] = IF i <= n THEN s[i] ELSE c[i - n]
  BY <1>1, <1>2, ConcatProperties
<1> HIDE DEF t, m
<1>3. Len(t) = n + 1 /\ \A i \in 1 .. n + 1 : t[i] = IF i <= n THEN s[i] ELSE c[i - n]
  BY <1>1, <1>5
<1>4. \A i \in 1 .. n + 1 : t[i].ch = "N"
  <2> TAKE i \in 1 .. n + 1
  <2>1. CASE i <= n
    <3>1. i \in 1 .. n /\ t[i] = s[i] BY <1>3, <2>1
    <3> QED BY <1>2, <3>1
  <2>2. CASE ~(i <= n)
    <3>1. i - n = 1 BY <2>2
    <3>2. t[i] = c[i - n] BY <1>3, <2>2
    <3> QED BY <1>1, <3>1, <3>2
  <2> QED BY <2>1, <2>2
<1> QED BY <1>3, <1>4 DEF t, c

\* What becomes of the pieces of a block.
Comes(g, d, b) ==
    LET n == Len(g)
        of == g[n].of
        inOrder == \A i \in 1 .. n : g[i] = Item("data", of, i)
    IN  /\ n \in Nat \ {0} /\ of \in Nat
        /\ \/ b.got = <<>> /\ b.dev = Says(d, <<Char("N", of)>>)
           \/ inOrder /\ n < Parts /\ b.got = g /\ b.dev = d
           \/ /\ inOrder /\ n >= Parts /\ b.got = <<>>
              /\ b.dev = Says(d, [i \in 1 .. Len(Reply) |-> Char(Reply[i], of)])

LEMMA PieceComes ==
    ASSUME NEW g \in Seq(Pieces), g # <<>>, NEW d
    PROVE  Comes(g, d, PieceTaken(g, d))
<1> DEFINE n == Len(g)
           of == g[n].of
           inOrder == \A i \in 1 .. n : g[i] = Item("data", of, i)
           e == <<>>
           no == <<Char("N", of)>>
           reply == [i \in 1 .. Len(Reply) |-> Char(Reply[i], of)]
           b == PieceTaken(g, d)
<1>1. n \in Nat \ {0} BY LenProperties, EmptySeq
<1>2. of \in Nat
  <2>1. g[n] \in Pieces BY <1>1, ElementOfSeq
  <2> QED BY <2>1 DEF Pieces, Items
<1>3. Parts \in Nat BY OemAssumption
<1>4. b = CASE ~inOrder -> [got |-> e, dev |-> Says(d, no), has |-> {}]
            [] inOrder /\ n < Parts -> [got |-> g, dev |-> d, has |-> {}]
            [] OTHER -> [got |-> e, has |-> {of}, dev |-> Says(d, reply)]
  BY DEF PieceTaken
<1>5. Comes(g, d, b) <=>
         /\ n \in Nat \ {0} /\ of \in Nat
         /\ \/ b.got = e /\ b.dev = Says(d, no)
            \/ inOrder /\ n < Parts /\ b.got = g /\ b.dev = d
            \/ inOrder /\ n >= Parts /\ b.got = e /\ b.dev = Says(d, reply)
  BY DEF Comes
<1> HIDE DEF reply, no, e, inOrder, b, of, n
<1>6. CASE ~inOrder
  <2>1. b = [got |-> e, dev |-> Says(d, no), has |-> {}] BY <1>4, <1>6
  <2>2. b.got = e /\ b.dev = Says(d, no) BY <2>1
  <2> QED BY <1>1, <1>2, <1>5, <2>2 DEF b
<1>7. CASE inOrder /\ n < Parts
  <2>1. b = [got |-> g, dev |-> d, has |-> {}] BY <1>4, <1>7
  <2>2. b.got = g /\ b.dev = d BY <2>1
  <2> QED BY <1>1, <1>2, <1>5, <1>7, <2>2 DEF b
<1>8. CASE inOrder /\ ~(n < Parts)
  <2>1. b = [got |-> e, has |-> {of}, dev |-> Says(d, reply)] BY <1>4, <1>8
  <2>2. b.got = e /\ b.dev = Says(d, reply) BY <2>1
  <2>3. n >= Parts BY <1>1, <1>3, <1>8
  <2> QED BY <1>1, <1>2, <1>5, <1>8, <2>2, <2>3 DEF b
<1> QED BY <1>6, <1>7, <1>8

\* What is received after what the module says.
Told(d, chars, w) ==
    /\ w.line = d.line /\ w.mode = d.mode
    /\ w.back = d.back \/ w.back = d.back \o chars
LEMMA TellsMore ==
    ASSUME NEW I, NEW C, NEW d \in Port(I, C), NEW chars \in Seq(C)
    PROVE  Told(d, chars, Says(d, chars))
BY Tells DEF Told

\* A driver that sends a block, or waits for its response.
LEMMA SentIs ==
    ASSUME Before, source.state \in {"SENDING", "RX_BLOCK"}
    PROVE  /\ Sent(source) \in Nat /\ Sent(source) <= Parts /\ Parts \in Nat
           /\ Sent(source) = Parts => source.state = "RX_BLOCK"
<1>1. source.state = "SENDING" => source.left \in 1 .. Parts BY BeforeIs DEF Sized
<1>2. Parts \in Nat BY OemAssumption
<1>3. CASE source.state = "SENDING"
  <2>1. Sent(source) = Parts - source.left BY <1>3 DEF Sent
  <2> QED BY <1>1, <1>2, <1>3, <2>1
<1>4. CASE source.state = "RX_BLOCK"
  <2>1. Sent(source) = Parts BY <1>4 DEF Sent
  <2> QED BY <1>2, <1>4, <2>1
<1> QED BY <1>3, <1>4

\* What the bootloader makes of a piece, where pieces of one block are on their way.
LEMMA PieceKeeps ==
    ASSUME Before, source.state \in {"SENDING", "RX_BLOCK"}, Underway(source, dev, radio),
           radio.phase = "boot", dev.line # <<>>, NEW item, item = Head(dev.line),
           NEW b, b = PieceTaken(Append(radio.got, item), Rid),
           NEW q, q.phase = "boot", q.got = b.got
    PROVE  Sends(source, b.dev, q) /\ b.dev.mode = dev.mode
<1> DEFINE C == CharRecord
           l == dev.line
           u == Tail(l)
           g == Append(radio.got, item)
           n == Len(g)
           of == g[n].of
           reply == [i \in 1 .. Len(Reply) |-> Char(Reply[i], of)]
           p == b.dev
           has == radio.has
<1>1. /\ dev \in Port(Pieces, C) /\ l \in Seq(Pieces) /\ l # <<>> /\ dev.back \in Seq(C)
      /\ has \in SUBSET (1 .. Blocks) /\ radio.got \in Seq(Pieces) /\ Letters(has) \subseteq C
  <2>1. /\ dev \in Port(Pieces, Letters(has)) /\ l \in Seq(Pieces)
        /\ dev.back \in Seq(Letters(has)) /\ RadioOK(radio)
    BY BeforeIs
  <2>2. Letters(has) \subseteq C BY DEF Letters
  <2>3. has \in SUBSET (1 .. Blocks) /\ radio.got \in Seq(Pieces) BY <2>1 DEF RadioOK, RadioRecord
  <2> HIDE DEF C
  <2>4. dev \in Port(Pieces, C) BY <2>1, <2>2, PortGrows
  <2>5. dev.back \in Seq(C) BY <2>4 DEF Port, Device
  <2> QED BY <2>1, <2>2, <2>3, <2>4, <2>5
<1>2. /\ Rid \in Port(Pieces, C) /\ item \in Pieces /\ Rid.back = dev.back /\ Rid.mode = dev.mode
      /\ Rid.line = u
  BY <1>1, ItemIsTaken DEF Rid
<1>3. item = l[1] BY <1>1, TailIs
<1>4. PICK k \in Nat : k = Len(radio.got) BY <1>1, LenProperties
<1>5. /\ g \in Seq(Pieces) /\ n = k + 1 /\ g[k + 1] = item
      /\ \A i \in 1 .. k : g[i] = radio.got[i]
  BY <1>1, <1>2, <1>4, AppendProperties
<1>6. \A ch \in Chars, m \in Nat : Char(ch, m) \in C BY DEF Char, CharRecord
<1>7. "N" \in Chars BY DEF Chars
<1>8. Sent(source) \in Nat /\ Sent(source) <= Parts /\ Parts \in Nat
      /\ (Sent(source) = Parts => source.state = "RX_BLOCK")
  BY SentIs
<1>9. /\ Follow(source, l, u)
  BY <1>1, <1>8, FollowsFirst
<1> HIDE DEF C, l, u, g, has
<1>10. \A m \in Nat : Char("N", m) \in C BY <1>6, <1>7
<1>11. g # <<>>
  <2>1. n # 0 BY <1>5
  <2>2. n \in Nat BY <1>5
  <2> QED BY <1>5, <2>1, <2>2, EmptyIs
<1>12. /\ n \in Nat \ {0} /\ of \in Nat
       /\ \/ b.got = <<>> /\ p = Says(Rid, <<Char("N", of)>>)
          \/ /\ \A i \in 1 .. n : g[i] = Item("data", of, i)
             /\ n < Parts /\ b.got = g /\ p = Rid
          \/ /\ \A i \in 1 .. n : g[i] = Item("data", of, i)
             /\ n >= Parts /\ b.got = <<>> /\ p = Says(Rid, reply)
  <2>1. b = PieceTaken(g, Rid) BY DEF g
  <2>2. Comes(g, Rid, b) BY <1>5, <1>11, <2>1, PieceComes
  <2> QED BY <2>2 DEF Comes
<1>13. /\ dev.back # <<>> =>
             /\ item.part # 1
             /\ radio.got # <<>> => radio.got[1].part # 1
       /\ \A i \in 1 .. Len(dev.back) : dev.back[i].ch = "N"
       /\ source.state = "RX_BLOCK" => source.bad \/ source.left = Len(Reply)
  <2>1. 1 \in 1 .. Len(dev.line)
    <3>1. Len(l) \in Nat \ {0} BY <1>1, TailIs
    <3> QED BY <3>1 DEF l
  <2> QED BY <1>3, <2>1 DEF Underway, l
<1>14. (\A i \in 1 .. n : g[i] = Item("data", of, i)) => dev.back = <<>> /\ item.part = n
  <2>1. HAVE \A i \in 1 .. n : g[i] = Item("data", of, i)
  <2>2. g[1].part = 1 /\ g[n].part = n
    <3> HIDE DEF n, of
    <3>1. 1 \in 1 .. n /\ n \in 1 .. n BY <1>12
    <3>2. g[1] = Item("data", of, 1) /\ g[n] = Item("data", of, n) BY <2>1, <3>1
    <3> QED BY <3>2 DEF Item
  <2>3. item.part = n BY <1>5, <2>2
  <2>4. CASE k = 0
    <3>1. n = 1 BY <1>5, <2>4
    <3> QED BY <1>13, <2>3, <3>1
  <2>5. CASE k # 0
    <3>1. 1 \in 1 .. k BY <2>5
    <3>2. g[1] = radio.got[1] BY <1>5, <3>1
    <3>3. radio.got # <<>> BY <1>1, <1>4, <2>5, EmptyIs
    <3> QED BY <1>13, <2>2, <2>3, <3>2, <3>3
  <2> QED BY <2>4, <2>5
<1> HIDE DEF p, n, of, reply
<1>15. CASE b.got = <<>> /\ p = Says(Rid, <<Char("N", of)>>)
  <2> DEFINE x == Char("N", of)
             c == <<x>>
             w == dev.back \o c
  <2>1. x \in C /\ x.ch = "N" BY <1>10, <1>12 DEF Char
  <2>2. c \in Seq(C) BY <2>1
  <2>3. \A i \in 1 .. Len(w) : w[i].ch = "N"
    <3> HIDE DEF x
    <3> QED BY <1>1, <1>13, <2>1, MoreSayNo
  <2>4. p = Says(Rid, c) BY <1>15
  <2> HIDE DEF c
  <2>5. p.line = u /\ p.mode = dev.mode /\ (p.back = dev.back \/ p.back = w)
    <3> DEFINE z == Says(Rid, c)
    <3>1. Told(Rid, c, z) BY <1>2, <2>2, TellsMore
    <3>2. p = z BY <2>4
    <3> HIDE DEF z
    <3> QED BY <1>2, <3>1, <3>2 DEF Told
  <2> HIDE DEF w
  <2>6. \A i \in 1 .. Len(p.back) : p.back[i].ch = "N" BY <1>13, <2>3, <2>5
  <2>7. Underway(source, p, q) BY <1>8, <1>9, <1>13, <1>15, <2>5, <2>6, FollowOn
  <2> QED BY <2>5, <2>7 DEF Sends, p
<1>16. CASE /\ \A i \in 1 .. n : g[i] = Item("data", of, i)
            /\ n < Parts /\ b.got = g /\ p = Rid
  <2>1. p.line = u /\ p.mode = dev.mode /\ p.back = <<>> /\ p.back = dev.back
    BY <1>2, <1>14, <1>16
  <2>2. \A i \in 1 .. Len(p.back) : p.back[i].ch = "N" BY <1>13, <2>1
  <2>3. Underway(source, p, q) BY <1>8, <1>9, <1>13, <2>1, <2>2, FollowOn
  <2> QED BY <2>1, <2>3 DEF Sends, p
<1>17. CASE /\ \A i \in 1 .. n : g[i] = Item("data", of, i)
            /\ n >= Parts /\ b.got = <<>> /\ p = Says(Rid, reply)
  <2>1. dev.back = <<>> /\ item.part = n BY <1>14, <1>17
  <2>2. item.part \in 1 .. Sent(source) /\ item.of = source.block BY <1>3, <1>9 DEF Follow
  <2>3. Sent(source) = Parts /\ item.part >= Sent(source) BY <1>8, <1>12, <1>17, <2>1, <2>2
  <2>4. source.state = "RX_BLOCK" /\ u = <<>> BY <1>3, <1>8, <1>9, <2>3 DEF Follow
  <2>5. source.bad \/ source.left = Len(Reply) BY <1>13, <2>4
  <2>6. of = source.block BY <1>5, <2>2 DEF of, n
  <2>7. /\ reply \in Seq(C) /\ Len(reply) = Len(Reply)
        /\ \A i \in 1 .. Len(reply) : reply[i].of = of
    <3>1. Len(Reply) \in Nat /\ \A i \in 1 .. Len(Reply) : Reply[i] \in {"U", "R"}
      BY OemAssumption, LenProperties, ElementOfSeq
    <3>2. \A i \in 1 .. Len(Reply) : Char(Reply[i], of) \in C
      <4> TAKE i \in 1 .. Len(Reply)
      <4>1. Reply[i] \in Chars BY <3>1 DEF Chars
      <4> QED BY <1>6, <1>12, <4>1
    <3>3. \A i \in 1 .. Len(Reply) : Char(Reply[i], of).of = of BY DEF Char
    <3> DEFINE m == Len(Reply)
    <3>4. m \in Nat BY <3>1
    <3> HIDE DEF m
    <3>5. reply = [i \in 1 .. m |-> Char(Reply[i], of)] BY DEF reply, m
    <3>6. reply \in Seq(C) /\ Len(reply) = m
      <4>1. reply \in [1 .. m -> C] BY <3>2, <3>5 DEF m
      <4> QED BY <3>4, <4>1
    <3>7. \A i \in 1 .. m : reply[i].of = of BY <3>3, <3>5 DEF m
    <3> QED BY <3>6, <3>7 DEF m
  <2>8. p.line = u /\ p.mode = dev.mode /\ (p.back = dev.back \/ p.back = reply)
    BY <1>2, <1>17, <2>1, <2>7, Tells
  <2>9. /\ \A i \in 1 .. Len(p.back) : p.back[i].of = source.block
        /\ source.bad \/ Len(p.back) <= source.left
    <3>1. CASE p.back = reply
      <4>1. Len(Reply) \in Nat BY OemAssumption, LenProperties
      <4>2. Len(p.back) = Len(Reply) BY <2>7, <3>1
      <4> QED BY <2>5, <2>6, <2>7, <3>1, <4>1, <4>2
    <3>2. CASE p.back = dev.back
      <4> DEFINE v == p.back
                 j == Len(v)
      <4>1. v \in Seq(C) /\ v = <<>> /\ j \in Nat BY <1>1, <2>1, <3>2, LenProperties
      <4>2. j = 0 BY <4>1, EmptyIs
      <4>3. source.left \in Nat BY BeforeIs DEF SourceRecord
      <4> HIDE DEF j
      <4>4. 1 .. j = {} /\ j <= source.left BY <4>1, <4>2, <4>3
      <4> QED BY <4>4 DEF j
    <3> QED BY <2>8, <3>1, <3>2
  <2>10. Replied(source, p) BY <2>4, <2>8, <2>9 DEF Replied
  <2> QED BY <2>8, <2>10 DEF Sends, p
<1> QED BY <1>12, <1>15, <1>16, <1>17

LEMMA PieceTurns ==
    ASSUME Before, dev.line # <<>>, NEW item, item = Head(dev.line),
           item.kind \in {"data", "stale"}, radio.phase = "boot",
           NEW b, b = PieceTaken(Append(radio.got, item), Rid),
           NEW q, q.phase = "boot", q.got = b.got,
           source' = source, dev' = b.dev, radio' = q, UNCHANGED history
    PROVE  After
<1>1. dev.line \in Seq(Pieces) /\ item = dev.line[1]
  <2>1. dev.line \in Seq(Pieces) BY BeforeIs
  <2> QED BY <2>1, TailIs
<1>2. item.kind \notin Commands \cup {"+++", "+"} BY DEF Commands
<1>3. ~Quiet(dev, radio) BY DEF Quiet
<1>4. ~Greeting(dev, radio) BY <1>1, <1>2 DEF Greeting
<1>5. ~Asked(dev, radio, source.buffer) BY <1>1, <1>2 DEF Asked
<1>6. ~Starts(dev, radio) BY <1>1, <1>2 DEF Starts
<1>7. ~Dialogue(dev, radio, source.buffer) BY <1>3, <1>4, <1>5 DEF Dialogue
<1>8. ~Session BY <1>7, SessionGives
<1>9. InTurn(source, dev, radio) BY DEF Before
<1>10. CASE source.state \in {"SENDING", "RX_BLOCK"} /\ source.ret = "0"
  <2>1. Sends(source, dev, radio) BY <1>9, <1>10 DEF InTurn
  <2>2. Underway(source, dev, radio) BY <2>1 DEF Sends, Replied
  <2>3. Sends(source, b.dev, q) BY <1>10, <2>2, PieceKeeps
  <2>4. InTurn(source, b.dev, q) BY <1>8, <1>10, <2>3, InTurnWhen
  <2> QED BY <2>4, BeforeIs DEF After
<1>11. CASE ~(source.state \in {"SENDING", "RX_BLOCK"} /\ source.ret = "0")
  <2>1. source.ret = "0" =>
           source.state \notin Answered \cup
              {"INIT", "RESET", "CMD_PENDING", "PARSE_RESPONSE", "SESSION", "BREAK",
               "BOOTLOADER", "TX_BLOCK", "TX_START", "SENDING", "RX_BLOCK"}
    BY <1>3, <1>6, <1>7, <1>9, <1>11 DEF InTurn
  <2>2. InTurn(source, b.dev, q) BY <1>8, <2>1 DEF InTurn
  <2> QED BY <2>2, BeforeIs DEF After
<1> QED BY <1>10, <1>11

LEMMA ReadsTurns ==
    ASSUME Before, ModuleReads
    PROVE  After
<1> DEFINE C == Letters(radio.has)
           a == PhaseAfter(Head(dev.line).kind)
<1>1. PICK item : item = Head(dev.line) OBVIOUS
<1>2. PICK r : r = [radio EXCEPT !.quiet = 0] OBVIOUS
<1>3. PICK b : b = PieceTaken(Append(radio.got, item), Rid) OBVIOUS
<1>4. IInv /\ dev.line # <<>> /\ source' = source /\ UNCHANGED history BY DEF Before, ModuleReads
<1>5. \/ dev' = Rid /\ radio' \in {radio, r, [r EXCEPT !.phase = "app"]}
      \/ item.kind = "+++" /\ dev' = Rid
      \/ /\ item.kind \in Commands /\ dev' = Says(Rid, Answer(item))
         /\ radio' = [r EXCEPT !.phase = PhaseAfter(item.kind)]
      \/ /\ item.kind = "+" /\ radio.phase = "boot" /\ dev' = Says(Rid, <<Char("U", 0)>>)
         /\ radio' = [r EXCEPT !.got = <<>>]
      \/ /\ item.kind \in {"data", "stale"} /\ radio.phase = "boot" /\ dev' = b.dev
         /\ radio' = [r EXCEPT !.got = b.got, !.has = @ \cup b.has]
  BY <1>1, <1>2, <1>3, <1>4, ModuleReadsIs DEF Rid
<1>6. dev \in Port(Pieces, C) /\ radio \in RadioRecord BY BeforeIs
<1> HIDE DEF C
<1>7. /\ Rid.back = dev.back /\ Rid.mode = dev.mode /\ Rid.asked = dev.asked
      /\ Rid.line = Tail(dev.line)
  BY <1>4, <1>6, ItemIsTaken DEF Rid
<1>8. /\ r.phase = radio.phase /\ r.got = radio.got
      /\ [r EXCEPT !.phase = "app"].phase = "app" /\ [r EXCEPT !.phase = "app"].got = radio.got
      /\ \A phase : [r EXCEPT !.phase = phase].phase = phase
      /\ [r EXCEPT !.got = <<>>].phase = radio.phase
      /\ [r EXCEPT !.got = b.got, !.has = @ \cup b.has].phase = radio.phase
      /\ [r EXCEPT !.got = b.got, !.has = @ \cup b.has].got = b.got
  BY <1>2, <1>6 DEF RadioRecord
<1>9. PICK q : q = radio' OBVIOUS
<1>10. CASE dev' = Rid /\ radio' \in {radio, r, [r EXCEPT !.phase = "app"]}
  <2>1. q.got = radio.got /\ (q.phase = radio.phase \/ q.phase # "escaped") BY <1>8, <1>9, <1>10
  <2>2. PICK p : p = Rid OBVIOUS
  <2>3. Keeps(source, dev, radio, p, q) BY <1>4, <1>6, <1>7, <2>1, <2>2, ItemGone
  <2> QED BY <1>4, <1>9, <1>10, <2>2, <2>3, TurnsWhen
<1>11. CASE item.kind = "+++" /\ dev' = Rid
  BY <1>1, <1>4, <1>9, <1>11, EscapedTurns
<1>12. CASE /\ item.kind \in Commands /\ dev' = Says(Rid, Answer(item))
            /\ radio' = [r EXCEPT !.phase = PhaseAfter(item.kind)]
  <2>1. PhaseAfter(item.kind) # "escaped" BY DEF PhaseAfter
  <2>2. q.phase # "escaped" BY <1>8, <1>9, <1>12, <2>1
  <2> QED BY <1>1, <1>4, <1>9, <1>12, <2>2, AnswerTurns
<1>13. CASE /\ item.kind = "+" /\ radio.phase = "boot" /\ dev' = Says(Rid, <<Char("U", 0)>>)
            /\ radio' = [r EXCEPT !.got = <<>>]
  <2>1. q.phase # "escaped" BY <1>8, <1>9, <1>13
  <2> QED BY <1>1, <1>4, <1>9, <1>13, <2>1, StartedTurns
<1>14. CASE /\ item.kind \in {"data", "stale"} /\ radio.phase = "boot" /\ dev' = b.dev
            /\ radio' = [r EXCEPT !.got = b.got, !.has = @ \cup b.has]
  <2>1. q.phase = "boot" /\ q.got = b.got BY <1>8, <1>9, <1>14
  <2> QED BY <1>1, <1>3, <1>4, <1>9, <1>14, <2>1, PieceTurns
<1> QED BY <1>5, <1>10, <1>11, <1>12, <1>13, <1>14

-----------------------------------------------------------------------------
(* An answer is not taken for another one *)

LEMMA TurnsInit ==
    ASSUME Init
    PROVE  Ordered
<1> DEFINE e == <<>>
<1>1. /\ source.state = IF setup.use = "install" THEN "INIT" ELSE "SESSION"
      /\ source.ret = "0" /\ source.buffer = e /\ dev.line = e /\ dev.back = e
      /\ radio.phase = "app" /\ ~history.crossed
  BY DEF Init
<1>2. Quiet(dev, radio) BY <1>1 DEF Quiet
<1>3. source.buffer = <<>> BY <1>1
<1>4. Dialogue(dev, radio, source.buffer) BY <1>2, <1>3, QuietTalks
<1>5. setup.use \in {"install", "session"} BY SetupsAssumption DEF Init, SetupRecord
<1>6. CASE Session
  <2>1. source.state = "SESSION" BY <1>1, <1>6 DEF Session
  <2>2. InTurn(source, dev, radio) BY <1>1, <1>3, <1>4, <1>6, <2>1, SessionWhen
  <2> QED BY <1>1, <2>2 DEF Ordered
<1>7. CASE ~Session
  <2>1. source.state = "INIT" BY <1>1, <1>5, <1>7 DEF Session
  <2>2. InTurn(source, dev, radio) BY <1>2, <1>3, <1>7, <2>1, InTurnWhen
  <2> QED BY <1>1, <2>2 DEF Ordered
<1> QED BY <1>6, <1>7

\* What was missed or forged stays so.
LEMMA CrookedStays ==
    ASSUME IInv, [Next]_vars
    PROVE  Straight(history') => Straight(history)
<1>1. history \in HistoryRecord BY InstallType
<1>2. /\ history.missed => GivenUp(dev).missed
      /\ GivenUp(dev).forged = history.forged
      /\ \A r : Accepted(dev, r).missed = history.missed /\ Accepted(dev, r).forged = history.forged
  BY <1>1 DEF HistoryRecord, GivenUp, Accepted
<1>3. CASE Install
  BY <1>1, <1>2, <1>3
  DEF Install, Verify, Reset, CmdPending, ParseResponse, NotSupported, HardwareVersion,
      Compatibility, Version, SerialFormat, SerialNumber, NotProgramming, Asking, Programming,
      Break, BreakLasts, Bootloader, AwaitsBootloader, TxStart, TxBlock, EndOfImage, Sending,
      RxGood, RxWrong, RxWaits, RxTimeout, RxFail, FinalPrompt, Straight, HistoryRecord
<1>4. CASE Application
  BY <1>1, <1>2, <1>4
  DEF Application, AppEnters, AppTicks, AppSends, AppReads, AppExits, Straight, HistoryRecord
<1>5. CASE Module \/ TimePasses \/ UNCHANGED vars
  BY <1>5 DEF Module, ModuleReads, ModuleGreets, ModuleLeaves, ModuleStarts, TimePasses, vars
<1>6. CASE Fault
  BY <1>1, <1>6 DEF Fault, LineFails, ItemLost, CharLost, CharForged, ModuleResets, FileFails,
                    Straight, HistoryRecord
<1> QED BY <1>3, <1>4, <1>5, <1>6 DEF Next, Tick

LEMMA TurnsStep ==
    ASSUME IInv, Ordered, [Next]_vars
    PROVE  Ordered'
<1>1. UNCHANGED setup
  BY DEF Next, Tick, Module, ModuleReads, ModuleGreets, ModuleLeaves, ModuleStarts, Fault,
         TimePasses, vars
<1>2. SUFFICES ASSUME Straight(history') PROVE ~history'.crossed /\ InTurn(source, dev, radio)'
  BY DEF Ordered
<1>3. Before BY <1>2, CrookedStays DEF Ordered, Before
<1>4. After
  <2>1. CASE Tick BY <1>3, <2>1, TickTurns
  <2>2. CASE Module
    BY <1>3, <2>2, ReadsTurns, GreetsTurns, LeavesTurns DEF Module
  <2>3. CASE Fault BY <1>3, <2>3, FaultTurns
  <2>4. CASE TimePasses BY <1>3, <2>4, TimeTurns
  <2>5. CASE UNCHANGED vars
    <3>1. UNCHANGED <<source, dev, radio, history>> BY <2>5 DEF vars
    <3> QED BY <1>3, <3>1, IdleTurns
  <2> QED BY <2>1, <2>2, <2>3, <2>4, <2>5 DEF Next
<1>5. ~history'.crossed /\ InTurn(source', dev', radio') BY <1>2, <1>4 DEF After
<1>6. InTurn(source', dev', radio') <=> InTurn(source, dev, radio)'
  BY <1>1 DEF InTurn, Session
<1> QED BY <1>5, <1>6

\* An answer that was asked for is the one that is taken, as long as none was given up and
\* the line has made nothing up.
THEOREM OwnAnswerHolds == Spec => []OwnAnswer
<1>1. Init => IInv /\ Ordered BY InvInit, TurnsInit
<1>2. IInv /\ Ordered /\ [Next]_vars => (IInv /\ Ordered)' BY InvStep, TurnsStep
<1>3. IInv /\ Ordered => OwnAnswer BY DEF Ordered, OwnAnswer, Straight
<1> QED BY <1>1, <1>2, <1>3, PTL DEF Spec

-----------------------------------------------------------------------------
(* The inductive invariant of ModesAgree: what is on its way in each mode, where the module
   is, and what the clocks of the two say *)

Silent(d) == d.line = <<>> /\ d.back = <<>>

\* The module is not in command mode, or about to leave it before time passes.
Off(d, r) ==
    /\ d.mode \in {"UNKNOWN", "IDLE", "PRE_ESCAPE"}
    /\ Silent(d) /\ r.phase \in {"app", "command"}
    /\ r.phase = "command" => r.quiet > CommandWait /\ (d.mode = "PRE_ESCAPE" => d.age = 0)

\* One item is on the line.
Alone(d, kind) == Len(d.line) = 1 /\ d.line[1].kind = kind /\ d.back = <<>> /\ d.age = 0

\* The escape sequence, the silence after it, and the greeting.
Escaping(d, r) ==
    /\ d.mode = "POST_ESCAPE"
    /\ \/ Alone(d, "+++") /\ r.phase = "app"
       \/ Silent(d) /\ r.phase = "escaped" /\ r.quiet = d.age /\ r.quiet <= GuardAfter
       \/ /\ d.line = <<>> /\ r.phase = "command" /\ r.quiet = 0
          /\ Len(d.back) = 2 /\ Greeted(d)

\* The clocks run together, or the module has left.
Commanding(d, r, missed) ==
    /\ d.mode = "COMMAND" /\ Silent(d)
    /\ \/ r.phase = "command" /\ r.quiet = d.age
       \/ r.phase = "app" /\ (d.age > CommandWait \/ missed)

\* What is left of an answer: something, and its only return at the end.
EndsOnce(back) == back # <<>> /\ \A i \in 1 .. Len(back) : back[i].ch = "CR" <=> i = Len(back)

\* The request, its answer, or silence from a module that has left.  The answer to ATCN
\* comes from a module that has left, too.
Pending(d) == IF d.mode = "WAIT_IDLE" THEN "CN" ELSE "VR"
PhaseThen(d) == IF d.mode = "WAIT_IDLE" THEN "app" ELSE "command"
Waiting(d, r) ==
    /\ d.mode \in Awaiting
    /\ \/ Alone(d, Pending(d)) /\ r.phase \in {"app", "command"}
       \/ /\ d.line = <<>> /\ EndsOnce(d.back) /\ d.age = 0 /\ r.quiet = 0
          /\ r.phase = PhaseThen(d)
       \/ Silent(d) /\ r.phase = "app"

Agreed(d, r, missed) ==
    /\ ~d.broken /\ d.baud = setup.speed
    /\ Off(d, r) \/ Escaping(d, r) \/ Commanding(d, r, missed) \/ Waiting(d, r)

Together == Session /\ setup.prompt => faults = 0 /\ Agreed(dev, radio, history.missed)

\* Where the module is; and who has missed more agrees as well.
LEMMA AgreedPhase ==
    ASSUME NEW d, NEW r, NEW missed, Agreed(d, r, missed)
    PROVE  /\ r.phase \in {"app", "escaped", "command"}
           /\ \A m : (missed => m) => Agreed(d, r, m)
BY DEF Agreed, Off, Escaping, Commanding, Waiting, PhaseThen

\* A sequence is empty when its length is zero, without a number to name.
LEMMA NoneIs ==
    ASSUME NEW S, NEW s \in Seq(S)
    PROVE  s = <<>> <=> Len(s) = 0
BY EmptySeq

\* The greeting is taken as a whole.
LEMMA TwoTaken ==
    ASSUME NEW C, NEW b \in Seq(C), Len(b) = 2
    PROVE  Tail(Tail(b)) = <<>>
<1>1. b # <<>>
  <2>1. Len(b) \in Nat \ {0} BY LenProperties
  <2> QED BY <2>1, EmptyIs
<1>2. Tail(b) \in Seq(C) /\ Len(Tail(b)) = 1 BY <1>1, TailIs
<1> DEFINE u == Tail(b)
           v == Tail(u)
<1>3. u \in Seq(C) /\ Len(u) = 1 BY <1>2
<1> HIDE DEF u
<1>4. u # <<>>
  <2>1. 1 \in Nat /\ 1 # 0 /\ 1 = Len(u) BY <1>3
  <2> QED BY <1>3, <2>1, EmptyIs
<1>5. v \in Seq(C) /\ Len(v) = 0 BY <1>3, <1>4, TailIs
<1> HIDE DEF v
<1>6. v = <<>> BY <1>5, EmptyIs
<1> QED BY <1>6 DEF u, v

\* A tick, when a module that has heard the escape sequence is not slower than Guard.
LEMMA TicksAgree ==
    ASSUME NEW I, NEW C, NEW d \in Port(I, C), Item("+++", d.asked, 0) \in I,
           NEW r, NEW missed, GuardAfter <= Guard, Agreed(d, r, missed)
    PROVE  LET t == Ticked(d)
           IN  Agreed(t, r, missed \/ (d.mode \in {"WAIT_RESPONSE", "WAIT_IDLE"} /\ t.mode # d.mode))
<1> DEFINE x == Item("+++", d.asked, 0)
           t == Ticked(d)
           m == missed \/ (d.mode \in {"WAIT_RESPONSE", "WAIT_IDLE"} /\ t.mode # d.mode)
<1>1. /\ d.age \in Nat /\ {Guard, GuardAfter, AnswerWait, CommandWait} \subseteq Nat
      /\ d.line \in Seq(I) /\ d.back \in Seq(C) /\ Room \in Nat \ {0}
  BY WaitedCounts, AtModeAssumption, OemAssumption DEF Port, Device
<1>3. ~d.broken /\ d.baud = setup.speed /\ t.broken = d.broken /\ t.baud = d.baud
  BY TickedIs DEF Agreed
<1>4. CASE t = d
  <2>1. missed => m OBVIOUS
  <2>2. m = (missed \/ (d.mode \in {"WAIT_RESPONSE", "WAIT_IDLE"} /\ t.mode # d.mode)) OBVIOUS
  <2>3. t = Ticked(d) OBVIOUS
  <2> HIDE DEF t, m
  <2>4. Agreed(d, r, m) BY <2>1, AgreedPhase
  <2>5. Agreed(t, r, m) BY <1>4, <2>4
  <2> QED BY <2>5 DEF t, m
<1>5. CASE Off(d, r) /\ t # d
  <2>1. d.mode = "PRE_ESCAPE" /\ d.age > Guard BY <1>5 DEF Off, Ticked
  <2>2. r.phase = "app" /\ Silent(d) BY <1>1, <1>5, <2>1 DEF Off
  <2> DEFINE w == Write(d, x)
             s == Stamped(w, "POST_ESCAPE")
             e == <<>>
  <2>3. t = [s EXCEPT !.back = e] BY <2>1 DEF Ticked
  <2>4. Len(d.line) = 0 BY <1>1, <2>2, NoneIs DEF Silent
  <2>12. Len(d.line) < Room BY <1>1, <2>4
  <2>5. w \in Port(I, C) /\ w.line = Append(d.line, x) BY <2>12, WriteIs
  <2>6. Len(Append(d.line, x)) = 1 /\ Append(d.line, x)[1] = x
    BY <1>1, <2>4, AppendProperties
  <2> HIDE DEF w, e, t
  <2>7. t.mode = "POST_ESCAPE" /\ t.line = w.line /\ t.back = e /\ t.age = 0
    BY <2>3, <2>5 DEF Stamped, Port, Device
  <2>8. x.kind = "+++" BY DEF Item
  <2>9. t.line[1].kind = "+++" /\ Len(t.line) = 1 BY <2>5, <2>6, <2>7, <2>8
  <2>10. t.back = <<>> BY <2>7 DEF e
  <2>11. Escaping(t, r) BY <2>2, <2>7, <2>9, <2>10 DEF Escaping, Alone
  <2> QED BY <1>3, <2>11 DEF Agreed, t
<1>6. CASE Escaping(d, r) /\ t # d
  <2>1. /\ d.mode = "POST_ESCAPE"
        /\ (Len(d.back) >= 2 /\ t = [IF Greeted(d) THEN Stamped(d, "COMMAND") ELSE Goes(d, "IDLE")
                                        EXCEPT !.back = Tail(Tail(@))])
           \/ (Len(d.back) < 2 /\ d.age > Guard)
    BY <1>6 DEF Escaping, Ticked
  <2>2. Len(<<>>) = 0 BY EmptySeq
  <2>3. d.line = <<>> /\ r.phase = "command" /\ r.quiet = 0 /\ Len(d.back) = 2 /\ Greeted(d)
    BY <1>1, <1>6, <2>1, <2>2 DEF Escaping, Alone, Silent
  <2>4. t = [Stamped(d, "COMMAND") EXCEPT !.back = Tail(Tail(@))] BY <2>1, <2>3
  <2> DEFINE u == Tail(Tail(d.back))
  <2>5. u = <<>> BY <1>1, <2>3, TwoTaken
  <2> HIDE DEF t
  <2>6. t.mode = "COMMAND" /\ t.line = d.line /\ t.back = u /\ t.age = 0
    BY <2>4 DEF Stamped, Port, Device
  <2> HIDE DEF u
  <2>7. Commanding(t, r, m) BY <2>3, <2>5, <2>6 DEF Commanding, Silent
  <2> QED BY <1>3, <2>7 DEF Agreed, t
<1>7. CASE Commanding(d, r, missed) /\ t # d
  <2>1. d.age > CommandWait /\ t = Goes(d, "IDLE") BY <1>7 DEF Commanding, Ticked
  <2> HIDE DEF t
  <2>2. t.mode = "IDLE" /\ t.line = d.line /\ t.back = d.back BY <2>1 DEF Goes, Port, Device
  <2>3. Off(t, r) BY <1>7, <2>1, <2>2 DEF Off, Commanding, Silent
  <2> QED BY <1>3, <2>3 DEF Agreed, t
<1>8. CASE Waiting(d, r) /\ t # d
  <2>1. d.age > AnswerWait /\ t = Goes(d, IF d.mode = "WAIT_IDLE" THEN "IDLE" ELSE "COMMAND")
    BY <1>8 DEF Waiting, Awaiting, Ticked
  <2>2. Silent(d) /\ r.phase = "app" BY <1>1, <1>8, <2>1 DEF Waiting, Alone
  <2>3. d.mode \in {"WAIT_RESPONSE", "WAIT_IDLE"} BY <1>8 DEF Waiting, Awaiting
  <2> HIDE DEF t
  <2>4. t.mode = (IF d.mode = "WAIT_IDLE" THEN "IDLE" ELSE "COMMAND")
        /\ t.line = d.line /\ t.back = d.back
    BY <2>1 DEF Goes, Port, Device
  <2>5. m BY <2>3, <2>4
  <2> HIDE DEF m
  <2>6. Off(t, r) \/ Commanding(t, r, m)
    BY <2>2, <2>4, <2>5 DEF Off, Commanding, Silent
  <2> QED BY <1>3, <2>6 DEF Agreed, t, m
<1> QED BY <1>4, <1>5, <1>6, <1>7, <1>8 DEF Agreed

\* A request in command mode finds room.
LEMMA RequestsAgree ==
    ASSUME NEW I, NEW C, NEW d \in Port(I, C), NEW command \in {"VR", "CN"},
           Item(command, d.asked + 1, 0) \in I,
           NEW r, NEW missed, Agreed(d, r, missed), d.mode = "COMMAND"
    PROVE  LET p == Requested(d, command)
           IN  /\ Alone(p, command) /\ r.phase \in {"app", "command"}
               /\ ~p.broken /\ p.baud = setup.speed /\ p.mode = "WAIT_RESPONSE"
<1> DEFINE x == Item(command, d.asked + 1, 0)
           w == Write(d, x)
           p == Requested(d, command)
<1>1. d.line \in Seq(I) /\ d.line = <<>> /\ d.back = <<>> /\ r.phase \in {"app", "command"}
      /\ ~d.broken /\ d.baud = setup.speed /\ Room \in Nat \ {0}
  BY AtModeAssumption DEF Port, Device, Agreed, Off, Escaping, Commanding, Waiting, Awaiting, Silent
<1>2. Len(d.line) = 0 BY <1>1, NoneIs
<1>3. Len(d.line) < Room BY <1>1, <1>2
<1>4. w \in Port(I, C) /\ w.back = d.back /\ w.line = Append(d.line, x) BY <1>3, WriteIs
<1>5. Len(Append(d.line, x)) = 1 /\ Append(d.line, x)[1] = x BY <1>1, <1>2, AppendProperties
<1>6. p = [Stamped(w, "WAIT_RESPONSE") EXCEPT !.asked = @ + 1]
  BY <1>1, <1>2 DEF Requested, Free
<1>7. p.mode = "WAIT_RESPONSE" /\ p.baud = d.baud /\ p.broken = d.broken /\ p.back = d.back
      /\ p.line = Append(d.line, x)
  BY <1>1, <1>2, RequestedIs
<1> HIDE DEF w, p
<1>8. p.age = 0 BY <1>4, <1>6 DEF Stamped, Port, Device
<1>9. x.kind = command BY DEF Item
<1> HIDE DEF x
<1>10. Alone(p, command) BY <1>1, <1>5, <1>7, <1>8, <1>9 DEF Alone
<1> QED BY <1>1, <1>7, <1>10 DEF p

\* The ways into command mode and out of it.
LEMMA EntersAgree ==
    ASSUME NEW I, NEW C, NEW d \in Port(I, C), Item("+++", d.asked, 0) \in I,
           NEW r, NEW m, Agreed(Ticked(d), r, m)
    PROVE  Agreed(Entered(d), r, m)
<1> DEFINE t == Ticked(d)
           p == Stamped(t, "PRE_ESCAPE")
<1>1. Entered(d) = IF t.mode \in {"UNKNOWN", "IDLE"} THEN p ELSE t BY DEF Entered
<1>2. t \in Port(I, C) /\ Agreed(t, r, m) BY TickedIs
<1> HIDE DEF t
<1>3. CASE t.mode \in {"UNKNOWN", "IDLE"}
  <2>1. p.mode = "PRE_ESCAPE" /\ p.age = 0 /\ p.line = t.line /\ p.back = t.back
        /\ p.broken = t.broken /\ p.baud = t.baud
    BY <1>2 DEF Stamped, Port, Device
  <2>2. Off(t, r) /\ ~t.broken /\ t.baud = setup.speed
    BY <1>2, <1>3 DEF Agreed, Escaping, Commanding, Waiting, Awaiting
  <2> HIDE DEF p
  <2>3. Off(p, r) BY <2>1, <2>2 DEF Off, Silent
  <2>4. Agreed(p, r, m) BY <2>1, <2>2, <2>3 DEF Agreed
  <2> QED BY <1>1, <1>3, <2>4
<1>4. CASE t.mode \notin {"UNKNOWN", "IDLE"} BY <1>1, <1>2, <1>4
<1> QED BY <1>3, <1>4

LEMMA ExitsAgree ==
    ASSUME NEW I, NEW C, NEW d \in Port(I, C), Item("+++", d.asked, 0) \in I,
           Item("CN", d.asked + 1, 0) \in I,
           NEW r, NEW m, Agreed(Ticked(d), r, m)
    PROVE  Agreed(Exited(d), r, m)
<1> DEFINE t == Ticked(d)
           q == Requested(t, "CN")
           p == Exited(d)
<1>1. t \in Port(I, C) /\ Agreed(t, r, m) /\ t.asked = d.asked BY TickedIs
<1> HIDE DEF t
<1>2. CASE t.mode = "PRE_ESCAPE"
  <2>1. p = Goes(t, "IDLE") BY <1>2 DEF Exited, t
  <2> HIDE DEF p
  <2>2. p.mode = "IDLE" /\ p.line = t.line /\ p.back = t.back
        /\ p.broken = t.broken /\ p.baud = t.baud
    BY <1>1, <2>1 DEF Goes, Port, Device
  <2>3. Off(t, r) /\ ~t.broken /\ t.baud = setup.speed
    BY <1>1, <1>2 DEF Agreed, Escaping, Commanding, Waiting, Awaiting
  <2>4. Off(p, r) BY <2>2, <2>3 DEF Off, Silent
  <2>5. Agreed(p, r, m) BY <2>2, <2>3, <2>4 DEF Agreed
  <2> QED BY <2>5 DEF p
<1>3. CASE t.mode = "COMMAND"
  <2>1. p = Goes(q, "WAIT_IDLE") BY <1>3 DEF Exited, t
  <2>2. q \in Port(I, C) BY <1>1, RequestedIs
  <2>3. /\ Alone(q, "CN") /\ r.phase \in {"app", "command"} /\ ~q.broken /\ q.baud = setup.speed
    BY <1>1, <1>3, RequestsAgree
  <2> HIDE DEF p, q
  <2>4. p.mode = "WAIT_IDLE" /\ p.line = q.line /\ p.back = q.back /\ p.age = q.age
        /\ p.broken = q.broken /\ p.baud = q.baud
    BY <2>1, <2>2 DEF Goes, Port, Device
  <2>5. Alone(p, "CN") BY <2>3, <2>4 DEF Alone
  <2>6. Waiting(p, r) BY <2>3, <2>4, <2>5 DEF Waiting, Awaiting, Pending
  <2>7. Agreed(p, r, m) BY <2>3, <2>4, <2>6 DEF Agreed
  <2> QED BY <2>7 DEF p
<1>4. CASE t.mode \notin {"PRE_ESCAPE", "COMMAND"}
  <2>1. p = t BY <1>4 DEF Exited, t
  <2> QED BY <1>1, <2>1 DEF t
<1> QED BY <1>2, <1>3, <1>4

\* A read of what there is of an answer.
LEMMA AnswerRead ==
    ASSUME NEW C, NEW b \in Seq(C), EndsOnce(b), NEW k \in 0 .. Len(b)
    PROVE  /\ (\A i \in 1 .. k : b[i].ch # "CR") => EndsOnce(SubSeq(b, k + 1, Len(b)))
           /\ k >= 1 /\ b[k].ch = "CR" => SubSeq(b, k + 1, Len(b)) = <<>>
<1> DEFINE n == Len(b)
           u == SubSeq(b, k + 1, n)
<1>1. n \in Nat /\ u \in Seq(C) /\ Len(u) = n - k /\ \A i \in 1 .. n - k : u[i] = b[k + i]
  BY Rest
<1>2. n # 0 BY NoneIs DEF EndsOnce
<1>3. \A i \in 1 .. n : b[i].ch = "CR" <=> i = n BY DEF EndsOnce
<1> HIDE DEF u
<1>4. ASSUME \A i \in 1 .. k : b[i].ch # "CR" PROVE EndsOnce(u)
  <2>1. n - k # 0 BY <1>1, <1>2, <1>3, <1>4
  <2>2. u # <<>> BY <1>1, <2>1, NoneIs
  <2>3. \A i \in 1 .. Len(u) : u[i].ch = "CR" <=> i = Len(u)
    <3> TAKE i \in 1 .. Len(u)
    <3>1. i \in 1 .. n - k BY <1>1
    <3> DEFINE j == k + i
    <3>2. j \in 1 .. n /\ (j = n <=> i = n - k) BY <1>1, <3>1
    <3>3. u[i] = b[j] BY <1>1, <3>1
    <3> HIDE DEF j, n
    <3>4. b[j].ch = "CR" <=> j = n BY <1>3, <3>2
    <3> QED BY <1>1, <3>2, <3>3, <3>4
  <2> QED BY <2>2, <2>3 DEF EndsOnce
<1>5. ASSUME k >= 1, b[k].ch = "CR" PROVE u = <<>>
  <2>1. k = n BY <1>1, <1>3, <1>5
  <2>2. Len(u) = 0 BY <1>1, <2>1
  <2> QED BY <1>1, <2>2, NoneIs
<1> QED BY <1>4, <1>5 DEF u

\* A read.
LEMMA ReadsAgree ==
    ASSUME NEW I, NEW C, NEW d \in Port(I, C), NEW buffer \in Seq(C),
           NEW r, NEW missed, Agreed(d, r, missed)
    PROVE  LET q == Read(d, buffer)
           IN  Agreed(q.dev, r, missed \/ q.ret = "ETIMEDOUT")
<1> DEFINE q == Read(d, buffer)
           p == q.dev
           m == missed \/ q.ret = "ETIMEDOUT"
<1>1. /\ p.line = d.line /\ p.baud = d.baud /\ p.broken = d.broken /\ p.age = d.age
      /\ q.ret = "ETIMEDOUT" => d.age > AnswerWait
      /\ \E k \in 0 .. Len(d.back) :
            /\ p.back = SubSeq(d.back, k + 1, Len(d.back))
            /\ q.ret = "0" => k >= 1 /\ d.back[k].ch = "CR"
            /\ q.ret # "0" => \A i \in 1 .. k : d.back[i].ch # "CR"
      /\ \/ q.ret = "EPERM" /\ p = d
         \/ q.ret \in {"ENOSPC", "EAGAIN"} /\ d.mode \in Awaiting /\ p.mode = d.mode
         \/ /\ q.ret \in {"0", "ETIMEDOUT"} /\ d.mode \in Awaiting
            /\ p.mode = IF d.mode = "WAIT_IDLE" THEN "IDLE" ELSE "COMMAND"
  BY ReadIs
<1>2. missed => m OBVIOUS
<1>3. q.ret = "ETIMEDOUT" => m OBVIOUS
<1>4. d.back \in Seq(C) /\ d.age \in Nat /\ AnswerWait \in Nat
  BY WaitedCounts, AtModeAssumption DEF Port, Device
<1> HIDE DEF q, m
<1>5. CASE p = d
  <2>1. Agreed(d, r, m) BY <1>2, AgreedPhase
  <2>2. Agreed(p, r, m) BY <1>5, <2>1
  <2> QED BY <2>2 DEF q, m
<1>6. CASE d.mode \in Awaiting
  <2>1. Waiting(d, r) /\ ~d.broken /\ d.baud = setup.speed
    BY <1>6 DEF Agreed, Off, Escaping, Commanding, Awaiting
  <2>2. PICK k \in 0 .. Len(d.back) :
            /\ p.back = SubSeq(d.back, k + 1, Len(d.back))
            /\ q.ret = "0" => k >= 1 /\ d.back[k].ch = "CR"
            /\ q.ret # "0" => \A i \in 1 .. k : d.back[i].ch # "CR"
    BY <1>1
  <2>3. d.back = <<>> => k = 0 /\ p.back = <<>>
    <3>1. HAVE d.back = <<>>
    <3>2. Len(d.back) = 0 BY <1>4, <3>1, NoneIs
    <3>3. k = 0 BY <3>2
    <3>4. Len(p.back) = 0 /\ p.back \in Seq(C) BY <1>4, <2>2, <3>2, <3>3, Rest
    <3> QED BY <3>3, <3>4, NoneIs
  <2>4. (Pending(p) = Pending(d) /\ PhaseThen(p) = PhaseThen(d)) \/ p.mode # d.mode
    BY DEF Pending, PhaseThen
  <2> HIDE DEF p
  <2>5. CASE Alone(d, Pending(d)) /\ r.phase \in {"app", "command"}
    <3>1. k = 0 /\ p.back = <<>> BY <2>3, <2>5 DEF Alone
    <3>2. q.ret \notin {"0", "ETIMEDOUT"} BY <1>1, <1>4, <2>2, <2>5, <3>1 DEF Alone
    <3>3. p.mode = d.mode BY <1>1, <3>2
    <3>4. Alone(p, Pending(p)) BY <1>1, <2>4, <2>5, <3>1, <3>3 DEF Alone
    <3>5. Waiting(p, r) BY <1>6, <2>5, <3>3, <3>4 DEF Waiting
    <3>6. Agreed(p, r, m) BY <1>1, <2>1, <3>5 DEF Agreed
    <3> QED BY <3>6 DEF p, q, m
  <2>6. CASE /\ d.line = <<>> /\ EndsOnce(d.back) /\ d.age = 0 /\ r.quiet = 0
             /\ r.phase = PhaseThen(d)
    <3>1. q.ret # "ETIMEDOUT" BY <1>1, <1>4, <2>6
    <3>2. CASE q.ret = "0"
      <4>1. p.back = <<>> BY <1>4, <2>2, <2>6, <3>2, AnswerRead
      <4>2. p.mode = IF d.mode = "WAIT_IDLE" THEN "IDLE" ELSE "COMMAND" BY <1>1, <1>5, <3>2
      <4>3. Silent(p) BY <1>1, <2>6, <4>1 DEF Silent
      <4>4. Off(p, r) \/ Commanding(p, r, m)
        BY <1>1, <1>6, <2>6, <4>2, <4>3 DEF Off, Commanding, PhaseThen, Awaiting
      <4>5. Agreed(p, r, m) BY <1>1, <2>1, <4>4 DEF Agreed
      <4> QED BY <4>5 DEF p, q, m
    <3>3. CASE q.ret # "0"
      <4>1. EndsOnce(p.back) BY <1>4, <2>2, <2>6, <3>3, AnswerRead
      <4>2. p.mode = d.mode BY <1>1, <3>1, <3>3
      <4>3. Waiting(p, r) BY <1>1, <1>6, <2>4, <2>6, <4>1, <4>2 DEF Waiting
      <4>4. Agreed(p, r, m) BY <1>1, <2>1, <4>3 DEF Agreed
      <4> QED BY <4>4 DEF p, q, m
    <3> QED BY <3>2, <3>3
  <2>7. CASE Silent(d) /\ r.phase = "app"
    <3>1. k = 0 /\ p.back = <<>> BY <2>3, <2>7 DEF Silent
    <3>2. Silent(p) BY <1>1, <2>7, <3>1 DEF Silent
    <3>3. q.ret # "0" BY <2>2, <3>1
    <3>4. Waiting(p, r) \/ Off(p, r) \/ Commanding(p, r, m)
      BY <1>1, <1>3, <1>6, <2>7, <3>2, <3>3 DEF Waiting, Off, Commanding
    <3>5. Agreed(p, r, m) BY <1>1, <2>1, <3>4 DEF Agreed
    <3> QED BY <3>5 DEF p, q, m
  <2> QED BY <2>1, <2>5, <2>6, <2>7 DEF Waiting
<1> QED BY <1>1, <1>5, <1>6

\* What the steps of a prompt session start from, and what they must leave.
Prompted == IInv /\ Session /\ setup.prompt /\ faults = 0 /\ Agreed(dev, radio, history.missed)
Remains == Agreed(dev', radio', history'.missed)

\* Its types.
LEMMA PromptedIs ==
    ASSUME Prompted
    PROVE  /\ IInv /\ dev \in Port(Pieces, Letters(radio.has)) /\ radio \in RadioRecord
           /\ history \in HistoryRecord /\ source.buffer \in Seq(Letters(radio.has))
           /\ Item("+++", dev.asked, 0) \in Pieces
           /\ \A command \in Commands : Item(command, dev.asked + 1, 0) \in Pieces
           /\ Agreed(dev, radio, history.missed)
           /\ dev.age \in Nat /\ radio.quiet \in Nat
           /\ dev.line \in Seq(Pieces) /\ dev.back \in Seq(Letters(radio.has))
<1>1. IInv BY DEF Prompted
<1> QED BY <1>1, InstallType, MayBeTold, WaitedCounts
        DEF Prompted, SourceOK, Port, Device, RadioRecord

\* A request that is given up is missed.
LEMMA GivenUpMissed ==
    ASSUME Prompted
    PROVE  history.missed \/ (dev.mode \in {"WAIT_RESPONSE", "WAIT_IDLE"} /\ Ticked(dev).mode # dev.mode)
              => GivenUp(dev).missed
<1> DEFINE a == history.missed \/ (dev.mode = "POST_ESCAPE" /\ Ticked(dev).mode = "IDLE")
                     \/ (dev.mode \in {"WAIT_RESPONSE", "WAIT_IDLE"} /\ Ticked(dev).mode # dev.mode)
<1>1. GivenUp(dev) = [history EXCEPT !.missed = a] BY DEF GivenUp
<1>2. history \in HistoryRecord BY PromptedIs
<1> HIDE DEF a
<1>3. GivenUp(dev).missed = a BY <1>1, <1>2 DEF HistoryRecord
<1> QED BY <1>3 DEF a

\* The steps of the application.
LEMMA ApplicationAgrees ==
    ASSUME GuardAfter <= Guard, Prompted, Application
    PROVE  Remains
<1> DEFINE C == Letters(radio.has)
           t == Ticked(dev)
           u == history.missed \/ (dev.mode \in {"WAIT_RESPONSE", "WAIT_IDLE"} /\ t.mode # dev.mode)
           m == GivenUp(dev).missed
<1>1. /\ dev \in Port(Pieces, C) /\ Item("+++", dev.asked, 0) \in Pieces
      /\ Item("CN", dev.asked + 1, 0) \in Pieces /\ Item("VR", dev.asked + 1, 0) \in Pieces
      /\ Agreed(dev, radio, history.missed) /\ source.buffer \in Seq(C)
      /\ history \in HistoryRecord
  BY PromptedIs DEF Commands
<1> HIDE DEF C
<1>2. Agreed(t, radio, u) BY <1>1, TicksAgree
<1>3. u => m BY GivenUpMissed
<1> HIDE DEF u, m, t
<1>4. Agreed(t, radio, m) BY <1>2, <1>3, AgreedPhase
<1>5. CASE AppEnters
  <2>1. dev' = Entered(dev) /\ radio' = radio /\ history' = GivenUp(dev) BY <1>5 DEF AppEnters
  <2>2. Agreed(Entered(dev), radio, m) BY <1>1, <1>4, EntersAgree DEF t
  <2> QED BY <2>1, <2>2 DEF Remains, m
<1>6. CASE AppTicks
  <2>1. dev' = t /\ radio' = radio /\ history' = GivenUp(dev) BY <1>6 DEF AppTicks, t
  <2> QED BY <1>4, <2>1 DEF Remains, m
<1>7. CASE AppExits
  <2>1. dev' = Exited(dev) /\ radio' = radio /\ history' = GivenUp(dev) BY <1>7 DEF AppExits
  <2>2. Agreed(Exited(dev), radio, m) BY <1>1, <1>4, ExitsAgree DEF t
  <2> QED BY <2>1, <2>2 DEF Remains, m
<1>8. CASE AppSends
  <2> DEFINE p == Requested(dev, "VR")
  <2>1. /\ dev' = p /\ radio' = radio /\ history' = history /\ dev.mode = "COMMAND"
    BY <1>8 DEF AppSends
  <2>2. /\ Alone(p, "VR") /\ radio.phase \in {"app", "command"}
        /\ ~p.broken /\ p.baud = setup.speed /\ p.mode = "WAIT_RESPONSE"
    BY <1>1, <2>1, RequestsAgree
  <2> HIDE DEF p
  <2>3. Agreed(p, radio, history.missed) BY <2>2 DEF Agreed, Waiting, Awaiting, Pending
  <2> QED BY <2>1, <2>3 DEF Remains
<1>9. CASE AppReads
  <2> DEFINE q == Read(dev, source.buffer)
             v == history.missed \/ q.ret = "ETIMEDOUT"
  <2>1. /\ dev' = q.dev /\ radio' = radio
        /\ history' = CASE q.ret = "0" -> Accepted(dev, q)
                        [] q.ret = "ETIMEDOUT" -> [history EXCEPT !.missed = TRUE]
                        [] OTHER -> history
    BY <1>9 DEF AppReads
  <2>2. Agreed(q.dev, radio, v) BY <1>1, ReadsAgree
  <2>3. v => history'.missed
    <3>1. CASE q.ret = "0"
      <4>1. history' = Accepted(dev, q) BY <2>1, <3>1
      <4>2. history'.missed = history.missed BY <1>1, <4>1 DEF Accepted, HistoryRecord
      <4> QED BY <3>1, <4>2
    <3>2. CASE q.ret = "ETIMEDOUT"
      <4>1. history' = [history EXCEPT !.missed = TRUE] BY <2>1, <3>2
      <4> QED BY <1>1, <4>1 DEF HistoryRecord
    <3>3. CASE q.ret \notin {"0", "ETIMEDOUT"}
      <4>1. history' = history BY <2>1, <3>3
      <4> QED BY <3>3, <4>1
    <3> QED BY <3>1, <3>2, <3>3
  <2> HIDE DEF q, v
  <2>4. PICK k : k = history'.missed OBVIOUS
  <2>5. Agreed(q.dev, radio, k) BY <2>2, <2>3, <2>4, AgreedPhase
  <2> QED BY <2>1, <2>4, <2>5 DEF Remains
<1> QED BY <1>5, <1>6, <1>7, <1>8, <1>9 DEF Application

\* Two characters.
LEMMA PairIs ==
    ASSUME NEW S, NEW x \in S, NEW y \in S
    PROVE  /\ <<x, y>> \in Seq(S) /\ Len(<<x, y>>) = 2 /\ <<x, y>>[1] = x /\ <<x, y>>[2] = y
OBVIOUS

\* What is said to an empty buffer comes.
LEMMA SaysAll ==
    ASSUME NEW I, NEW C, NEW d \in Port(I, C), d.back = <<>>, RxRoom >= 2,
           NEW chars \in Seq(C), Len(chars) = 2
    PROVE  LET p == Says(d, chars)
           IN  /\ p.back = chars /\ p.line = d.line /\ p.mode = d.mode /\ p.age = d.age
               /\ p.asked = d.asked /\ p.broken = d.broken /\ p.baud = d.baud
<1> DEFINE b == d.back \o chars
<1>1. d.back \in Seq(C) /\ RxRoom \in Nat BY OemAssumption DEF Port, Device
<1>2. Len(d.back) = 0 BY <1>1, NoneIs
<1>3. Says(d, chars) = [d EXCEPT !.back = b] BY <1>1, <1>2 DEF Says
<1>4. b = chars BY <1>1, ConcatEmptySeq
<1> HIDE DEF b
<1> QED BY <1>3, <1>4 DEF Port, Device

\* The module greets, leaves by itself, or reads a request.
LEMMA GreetsAgree ==
    ASSUME RxRoom >= 2, Prompted, ModuleGreets
    PROVE  Remains
<1> DEFINE C == Letters(radio.has)
           x == Char("OK", dev.asked)
           y == Char("CR", dev.asked)
           s == <<x, y>>
           p == Says(dev, s)
<1>1. /\ dev \in Port(Pieces, C) /\ radio \in RadioRecord /\ dev.back \in Seq(C)
      /\ Agreed(dev, radio, history.missed) /\ dev.asked \in Nat /\ setup.speed # "boot"
  BY PromptedIs, MayBeTold DEF SetupRecord, IInv
<1>2. /\ radio.phase = "escaped" /\ radio' = [radio EXCEPT !.phase = "command", !.quiet = 0]
      /\ dev' = IF Tuned THEN p ELSE dev
      /\ history' = history /\ setup' = setup
  BY DEF ModuleGreets
<1>3. radio'.phase = "command" /\ radio'.quiet = 0 BY <1>1, <1>2 DEF RadioRecord
<1>4. /\ dev.mode = "POST_ESCAPE" /\ dev.line = <<>> /\ dev.back = <<>>
      /\ ~dev.broken /\ dev.baud = setup.speed
  BY <1>1, <1>2 DEF Agreed, Off, Escaping, Commanding, Waiting, PhaseThen, Silent
<1>5. Tuned BY <1>2, <1>4 DEF Tuned
<1>6. x \in C /\ y \in C /\ x.ch = "OK" /\ y.ch = "CR" BY <1>1, Written DEF Texts, Char
<1> HIDE DEF x, y, C
<1>7. s \in Seq(C) /\ Len(s) = 2 /\ s[1] = x /\ s[2] = y BY <1>6, PairIs
<1> HIDE DEF s
<1>8. /\ p.back = s /\ p.line = dev.line /\ p.mode = dev.mode
      /\ p.broken = dev.broken /\ p.baud = dev.baud
  BY <1>1, <1>4, <1>7, SaysAll
<1> HIDE DEF p
<1>9. Greeted(p) /\ Len(p.back) = 2 BY <1>6, <1>7, <1>8 DEF Greeted
<1>10. Escaping(p, radio') BY <1>3, <1>4, <1>8, <1>9 DEF Escaping
<1>11. Agreed(p, radio', history.missed) BY <1>4, <1>8, <1>10 DEF Agreed
<1> QED BY <1>2, <1>5, <1>11 DEF Remains

LEMMA LeavesAgree ==
    ASSUME Prompted, ModuleLeaves
    PROVE  Remains
<1>1. radio \in RadioRecord /\ Agreed(dev, radio, history.missed) /\ CommandWait \in Nat
      /\ dev.age \in Nat
  BY PromptedIs, AtModeAssumption
<1>2. /\ radio.phase = "command" /\ radio.quiet > CommandWait
      /\ radio' = [radio EXCEPT !.phase = "app"]
      /\ UNCHANGED <<dev, history>>
  BY DEF ModuleLeaves
<1>3. PICK r : r = radio' OBVIOUS
<1>4. r.phase = "app" /\ r.quiet = radio.quiet BY <1>1, <1>2, <1>3 DEF RadioRecord
<1>5. Off(dev, r) \/ Escaping(dev, r) \/ Commanding(dev, r, history.missed) \/ Waiting(dev, r)
  BY <1>1, <1>2, <1>4 DEF Agreed, Off, Escaping, Commanding, Waiting
<1>6. Agreed(dev, r, history.missed) BY <1>1, <1>5 DEF Agreed
<1> QED BY <1>2, <1>3, <1>6 DEF Remains

LEMMA ReadsItemAgree ==
    ASSUME RxRoom >= 2, Prompted, ModuleReads
    PROVE  Remains
<1> DEFINE C == Letters(radio.has)
<1>1. /\ dev \in Port(Pieces, C) /\ radio \in RadioRecord /\ dev.line \in Seq(Pieces)
      /\ Agreed(dev, radio, history.missed) /\ IInv /\ setup.speed # "boot"
  BY PromptedIs DEF SetupRecord, IInv
<1>2. PICK item : item = Head(dev.line) OBVIOUS
<1>3. PICK d : d = [dev EXCEPT !.line = Tail(@)] OBVIOUS
<1>4. PICK r : r = [radio EXCEPT !.quiet = 0] OBVIOUS
<1>5. dev.line # <<>> /\ history' = history BY DEF ModuleReads
<1>6. /\ item = dev.line[1] /\ item \in Pieces /\ Tail(dev.line) \in Seq(Pieces)
      /\ Len(Tail(dev.line)) = Len(dev.line) - 1
  BY <1>1, <1>2, <1>5, TailIs
<1>7. /\ d.line = Tail(dev.line) /\ d.back = dev.back /\ d.mode = dev.mode /\ d.age = dev.age
      /\ d.broken = dev.broken /\ d.baud = dev.baud /\ d \in Port(Pieces, C)
  BY <1>1, <1>3, <1>5, ItemIsTaken DEF Port, Device
<1> HIDE DEF C
<1>8. \/ dev.mode = "POST_ESCAPE" /\ Alone(dev, "+++") /\ radio.phase = "app"
      \/ dev.mode \in Awaiting /\ Alone(dev, Pending(dev)) /\ radio.phase \in {"app", "command"}
  BY <1>1, <1>5 DEF Agreed, Off, Escaping, Commanding, Waiting, Silent
<1>9. dev.back = <<>> /\ dev.age = 0 /\ Len(dev.line) = 1 BY <1>8 DEF Alone
<1>10. d.line = <<>>
  <2>1. Len(d.line) = 0 /\ d.line \in Seq(Pieces) BY <1>6, <1>7, <1>9
  <2> QED BY <2>1, NoneIs
<1>11. ~dev.broken /\ dev.baud = setup.speed BY <1>1 DEF Agreed
<1>12. Tuned BY <1>1, <1>8, <1>11 DEF Tuned
<1>13. /\ r.phase = radio.phase /\ r.quiet = 0
       /\ \A phase : [r EXCEPT !.phase = phase].phase = phase /\ [r EXCEPT !.phase = phase].quiet = 0
  BY <1>1, <1>4 DEF RadioRecord
<1>14. CASE dev.mode = "POST_ESCAPE" /\ Alone(dev, "+++") /\ radio.phase = "app"
  <2>1. item.kind = "+++" BY <1>6, <1>14 DEF Alone
  <2>2. dev' = d /\ radio' = [r EXCEPT !.phase = "escaped"]
    BY <1>2, <1>3, <1>4, <1>12, <1>14, <2>1 DEF ModuleReads
  <2>3. PICK q : q = radio' OBVIOUS
  <2>4. q.phase = "escaped" /\ q.quiet = 0 /\ GuardAfter \in Nat
    BY <1>13, <2>2, <2>3, OemAssumption
  <2>5. d.mode = "POST_ESCAPE" /\ Silent(d) /\ d.age = 0
    BY <1>7, <1>9, <1>10, <1>14 DEF Silent
  <2>6. q.quiet = d.age /\ q.quiet <= GuardAfter BY <2>4, <2>5
  <2>7. Escaping(d, q) BY <2>4, <2>5, <2>6 DEF Escaping
  <2>8. Agreed(d, q, history.missed) BY <1>7, <1>11, <2>7 DEF Agreed
  <2> QED BY <1>5, <2>2, <2>3, <2>8 DEF Remains
<1>15. CASE dev.mode \in Awaiting /\ Alone(dev, Pending(dev)) /\ radio.phase = "app"
  <2>1. item.kind # "+++" BY <1>6, <1>15 DEF Alone, Pending
  <2>2. dev' = d /\ radio' = [r EXCEPT !.phase = IF item.kind = "+++" THEN "escaped" ELSE @]
    BY <1>2, <1>3, <1>4, <1>12, <1>15 DEF ModuleReads
  <2>3. radio' = [r EXCEPT !.phase = r.phase] BY <2>1, <2>2
  <2>4. PICK q : q = radio' OBVIOUS
  <2>5. q.phase = "app" BY <1>13, <1>15, <2>3, <2>4
  <2>6. Waiting(d, q) BY <1>7, <1>9, <1>10, <1>15, <2>5 DEF Waiting, Silent
  <2>7. Agreed(d, q, history.missed) BY <1>7, <1>11, <2>6 DEF Agreed
  <2> QED BY <1>5, <2>2, <2>4, <2>7 DEF Remains
<1>16. CASE dev.mode \in Awaiting /\ Alone(dev, Pending(dev)) /\ radio.phase = "command"
  <2> DEFINE a == Answer(item)
             p == Says(d, a)
  <2>1. item.kind = Pending(d) /\ item.kind \in {"CN", "VR"} /\ item.kind \in Commands
    BY <1>6, <1>7, <1>16 DEF Alone, Pending, Commands
  <2>2. dev' = p /\ radio' = [r EXCEPT !.phase = PhaseAfter(item.kind)]
    BY <1>2, <1>3, <1>4, <1>12, <1>16, <2>1 DEF ModuleReads
  <2>3. PICK q : q = radio' OBVIOUS
  <2>4. q.phase = PhaseThen(d) /\ q.quiet = 0
    <3>1. item.kind = "CN" <=> d.mode = "WAIT_IDLE" BY <2>1 DEF Pending
    <3>2. PhaseAfter("CN") = "app" /\ PhaseAfter("VR") = "command" BY DEF PhaseAfter
    <3>3. PhaseAfter(item.kind) = PhaseThen(d) BY <2>1, <3>1, <3>2 DEF PhaseThen
    <3> QED BY <1>13, <2>2, <2>3, <3>3
  <2>5. /\ a \in Seq(C) /\ Len(a) = 2 /\ a[1].ch \in Texts /\ a[2].ch = "CR"
    <3>1. item \in Items BY <1>6 DEF Pieces
    <3>2. /\ a \in Seq(C) /\ Len(a) = 2 /\ TextOf(item.kind) \in Texts
          /\ a[1] = Char(TextOf(item.kind), item.of) /\ a[2] = Char("CR", item.of)
      BY <1>1, <3>1, AnswerIs DEF C
    <3> HIDE DEF a
    <3> QED BY <3>2 DEF Char
  <2>6. d.back = <<>> BY <1>7, <1>9
  <2> HIDE DEF a
  <2>7. /\ p.back = a /\ p.line = d.line /\ p.mode = d.mode /\ p.age = d.age
        /\ p.broken = d.broken /\ p.baud = d.baud
    BY <1>7, <2>5, <2>6, SaysAll
  <2> HIDE DEF p
  <2>8. EndsOnce(p.back)
    <3>1. a # <<>> BY <2>5, NoneIs
    <3>2. \A i \in 1 .. Len(a) : a[i].ch = "CR" <=> i = Len(a)
      <4> TAKE i \in 1 .. Len(a)
      <4>1. i \in {1, 2} BY <2>5
      <4> QED BY <2>5, <4>1 DEF Texts
    <3> QED BY <2>7, <3>1, <3>2 DEF EndsOnce
  <2>9. PhaseThen(p) = PhaseThen(d) BY <2>7 DEF PhaseThen
  <2>10. Waiting(p, q) BY <1>7, <1>9, <1>10, <1>16, <2>4, <2>7, <2>8, <2>9 DEF Waiting
  <2>11. Agreed(p, q, history.missed) BY <1>7, <1>11, <2>7, <2>10 DEF Agreed
  <2> QED BY <1>5, <2>2, <2>3, <2>11 DEF Remains
<1> QED BY <1>8, <1>14, <1>15, <1>16

\* Time, which waits for a prompt module.
LEMMA TimeAgrees ==
    ASSUME Prompted, TimePasses
    PROVE  Remains
<1>1. /\ dev \in Port(Pieces, Letters(radio.has)) /\ radio \in RadioRecord
      /\ Agreed(dev, radio, history.missed) /\ dev.age \in Nat /\ radio.quiet \in Nat
      /\ {CommandWait, GuardAfter} \subseteq Nat /\ setup.prompt
  BY PromptedIs, AtModeAssumption, OemAssumption DEF Prompted
<1>2. /\ Prompt /\ history' = history
      /\ dev' = [dev EXCEPT !.age = Later(@, 1)] /\ radio' = [radio EXCEPT !.quiet = Later(@, 1)]
  BY <1>1 DEF TimePasses
<1>3. \A t \in Nat : Later(t, 1) \in {t, t + 1} BY DEF Later, Unset
<1>4. PICK p : p = dev' OBVIOUS
<1>5. PICK q : q = radio' OBVIOUS
<1>6. /\ p.age = Later(dev.age, 1) /\ p.line = dev.line /\ p.back = dev.back /\ p.mode = dev.mode
      /\ p.broken = dev.broken /\ p.baud = dev.baud
  BY <1>1, <1>2, <1>4 DEF Port, Device
<1>7. q.quiet = Later(radio.quiet, 1) /\ q.phase = radio.phase BY <1>1, <1>2, <1>5 DEF RadioRecord
<1>8. /\ p.age \in {dev.age, dev.age + 1} /\ q.quiet \in {radio.quiet, radio.quiet + 1}
      /\ radio.quiet = dev.age => q.quiet = p.age
  BY <1>1, <1>3, <1>6, <1>7
<1>9. /\ Silent(dev) /\ (radio.phase = "escaped" => radio.quiet < GuardAfter)
      /\ (radio.phase = "command" => radio.quiet <= CommandWait)
  BY <1>2 DEF Prompt, Silent
<1>10. ~Alone(dev, "+++") /\ ~Alone(dev, Pending(dev)) /\ ~EndsOnce(dev.back) /\ Len(dev.back) = 0
  BY <1>9, EmptySeq DEF Alone, EndsOnce, Silent
<1>11. Silent(p) BY <1>6, <1>9 DEF Silent
<1>12. CASE Off(dev, radio)
  <2>1. Off(p, q) BY <1>1, <1>6, <1>7, <1>9, <1>11, <1>12 DEF Off
  <2>2. Agreed(p, q, history.missed) BY <1>1, <1>6, <2>1 DEF Agreed
  <2> QED BY <1>2, <1>4, <1>5, <2>2 DEF Remains
<1>13. CASE Escaping(dev, radio)
  <2>1. Escaping(p, q) BY <1>1, <1>6, <1>7, <1>8, <1>9, <1>10, <1>11, <1>13 DEF Escaping
  <2>2. Agreed(p, q, history.missed) BY <1>1, <1>6, <2>1 DEF Agreed
  <2> QED BY <1>2, <1>4, <1>5, <2>2 DEF Remains
<1>14. CASE Commanding(dev, radio, history.missed)
  <2>1. dev.age > CommandWait => p.age > CommandWait BY <1>1, <1>8
  <2>2. Commanding(p, q, history.missed)
    BY <1>6, <1>7, <1>8, <1>11, <1>14, <2>1 DEF Commanding
  <2>3. Agreed(p, q, history.missed) BY <1>1, <1>6, <2>2 DEF Agreed
  <2> QED BY <1>2, <1>4, <1>5, <2>3 DEF Remains
<1>15. CASE Waiting(dev, radio)
  <2>1. Waiting(p, q) BY <1>6, <1>7, <1>10, <1>11, <1>15 DEF Waiting
  <2>2. Agreed(p, q, history.missed) BY <1>1, <1>6, <2>1 DEF Agreed
  <2> QED BY <1>2, <1>4, <1>5, <2>2 DEF Remains
<1> QED BY <1>1, <1>12, <1>13, <1>14, <1>15 DEF Agreed

LEMMA TogetherInit ==
    ASSUME Init
    PROVE  Together
<1> DEFINE e == <<>>
<1>1. /\ setup \in SetupRecord
      /\ dev = [mode |-> setup.mode, age |-> 0, line |-> e, back |-> e, asked |-> 0,
                baud |-> setup.speed, broken |-> FALSE]
      /\ radio.phase = "app" /\ (setup.prompt => faults = 0)
  BY SetupsAssumption DEF Init
<1>2. dev.mode \in {"UNKNOWN", "WAIT_IDLE"} BY <1>1 DEF SetupRecord
<1>3. dev.line = <<>> /\ dev.back = <<>> /\ dev.baud = setup.speed /\ ~dev.broken BY <1>1
<1>4. Off(dev, radio) \/ Waiting(dev, radio)
  BY <1>1, <1>2, <1>3 DEF Off, Waiting, Awaiting, Silent
<1> QED BY <1>1, <1>3, <1>4 DEF Together, Agreed

LEMMA TogetherStep ==
    ASSUME GuardAfter <= Guard, RxRoom >= 2, IInv, Together, [Next]_vars
    PROVE  Together'
<1>1. UNCHANGED setup
  BY DEF Next, Tick, Module, ModuleReads, ModuleGreets, ModuleLeaves, ModuleStarts, Fault,
         TimePasses, vars
<1>2. SUFFICES ASSUME Session, setup.prompt
               PROVE  faults' = 0 /\ Agreed(dev, radio, history.missed)'
  BY <1>1 DEF Together, Session
<1>3. Prompted BY <1>2 DEF Together, Prompted
<1>4. ~Install /\ ~Fault /\ ~ModuleStarts
  <2>1. ~Install
    BY <1>2
    DEF Session, Install, Verify, Reset, CmdPending, ParseResponse, NotSupported,
        HardwareVersion, Compatibility, Version, SerialFormat, SerialNumber, NotProgramming,
        Programming, Break, BreakLasts, Bootloader, AwaitsBootloader, TxBlock, EndOfImage,
        Sending, TakesReply, RxGood, RxWrong, RxWaits, RxTimeout, RxFail, FinalPrompt, Running
  <2>2. ~Fault BY <1>3 DEF Prompted, Fault, Spend
  <2>3. radio.phase # "resetting" BY <1>3, AgreedPhase DEF Prompted
  <2> QED BY <2>1, <2>2, <2>3 DEF ModuleStarts
<1>5. faults' = faults /\ faults = 0
  BY <1>3, <1>4 DEF Prompted, Next, Tick, Module, ModuleReads, ModuleGreets, ModuleLeaves,
                    TimePasses, vars
<1>6. Remains
  <2>1. CASE Application BY <1>3, <2>1, ApplicationAgrees
  <2>2. CASE Module BY <1>3, <1>4, <2>2, ReadsItemAgree, GreetsAgree, LeavesAgree DEF Module
  <2>3. CASE TimePasses BY <1>3, <2>3, TimeAgrees
  <2>4. CASE UNCHANGED vars BY <1>3, <2>4 DEF vars, Prompted, Remains
  <2> QED BY <1>4, <2>1, <2>2, <2>3, <2>4 DEF Next, Tick
<1>7. Agreed(dev', radio', history'.missed) <=> Agreed(dev, radio, history.missed)'
  BY <1>1 DEF Agreed
<1> QED BY <1>5, <1>6, <1>7 DEF Remains

\* A session with a prompt module knows whether it is in command mode, when the module's
\* guard time is within the driver's and its greeting finds room.
THEOREM ModesAgreeHolds ==
    ASSUME GuardAfter <= Guard, RxRoom >= 2
    PROVE  Spec => []ModesAgree
<1>1. Init => IInv /\ Together BY InvInit, TogetherInit
<1>2. IInv /\ Together /\ [Next]_vars => (IInv /\ Together)' BY InvStep, TogetherStep
<1>3. IInv /\ Together => ModesAgree
  <2> SUFFICES ASSUME Together, Session, setup.prompt
               PROVE  /\ dev.mode = "IDLE" => radio.phase # "command" \/ radio.quiet > CommandWait
                      /\ dev.mode = "COMMAND" =>
                            radio.phase = "command" \/ dev.age > CommandWait \/ history.missed
    BY DEF ModesAgree
  <2> QED BY DEF Together, Agreed, Off, Escaping, Commanding, Waiting, Awaiting
<1> QED BY <1>1, <1>2, <1>3, PTL DEF Spec
=============================================================================
