----------------------------- MODULE UpdateProofs -----------------------------
(***************************************************************************)
(* Theorems about Update: what the module has taken is what the sender has *)
(* written whole, in order, and an update that succeeds has brought all of *)
(* that, for files of any length, any number of tries and of faults.       *)
(***************************************************************************)
EXTENDS Update, SequenceTheorems, TLAPS

-----------------------------------------------------------------------------
(* The inductive invariant *)

\* What is on the line, and the answers of the module.
Item ==
    {item \in [kind : {"packet", "part", "CR", "load", "run", "EOT", "CAN", "C", ">", "NAK"},
               num : 0 .. Packets - 1, block : 0 .. Blocks, nth : Nat] :
        item.kind = "packet" => item.block > 0}
Reply == [ch : {"C", ">", "CAN", "NAK", "ACK"}, of : Item]

XmRecord ==
    [state : XmodemState, packet_num : 0 .. Packets - 1, block : 0 .. Blocks,
     tries : 0 .. Tries, timer : 0 .. Wrap - 1]
SourceRecord ==
    [kind : {"ebl", "hcs08"},
     state : {"INIT", "RESET", "BREAK", "PROMPT", "XMODEM_WAIT", "XMODEM_SEND", "XMODEM_DONE",
              "FINAL_PROMPT", "SUCCESS", "FAILURE"},
     tries : 0 .. LoadTries, age : Waited, ret : {"0", "1", "EIO", "ETIMEDOUT"}, from : 0 .. Blocks]

\* A packet that is sent has a block.
Sends == xm.state \in {"RESEND", "WAIT_ACK"} => xm.block > 0

\* While it runs, a try is left.
Trying == {s \in SourceRecord : s.ret = "0" => s.tries < LoadTries}

Typed == TypeOK /\ line \in Seq(Item) /\ back \in Seq(Reply) /\ source \in Trying /\ Sends

IsPacket(item) == item.kind = "packet"

\* The packets in l are of this transfer, in which those of the blocks in s were written;
\* they are in order; and a command to receive has nothing to do with them.
Packed(l, s) ==
    /\ \A i \in 1 .. Len(l) : IsPacket(l[i]) =>
          /\ l[i].nth \in 1 .. Len(s) /\ l[i].num = l[i].nth % Packets
          /\ l[i].block = s[l[i].nth]
    /\ \A i, j \in 1 .. Len(l) :
          i < j /\ IsPacket(l[i]) /\ IsPacket(l[j]) => l[i].nth <= l[j].nth
    /\ \A i, j \in 1 .. Len(l) :
          i # j /\ l[i].kind = "load" => l[j].kind # "load" /\ ~IsPacket(l[j])

\* A module that has m packets sees none that is so far from it that its number means
\* another one.
Near(l, m) ==
    \A i \in 1 .. Len(l) : IsPacket(l[i]) => l[i].nth \in m .. m + Room + 1

\* Each packet is followed by those up to the f-th.
Followed(l, f) == \A i \in 1 .. Len(l) : IsPacket(l[i]) => l[i].nth + (Len(l) - i) >= f

On(l, kind) == \E i \in 1 .. Len(l) : l[i].kind = kind
Heard(b, ch) == \E i \in 1 .. Len(b) : b[i].ch = ch

\* The packets the module has, if what it has is of this transfer.
Has == Len(boot.flash)

Line ==
    /\ Packed(line, sent)
    /\ boot.phase = "receive" => Near(line, Has)

\* Before the transfer the module has not been told to receive, or has nothing yet.
Early ==
    /\ source.state \in {"BREAK", "PROMPT", "XMODEM_WAIT"} =>
          ~On(line, "packet") /\ ~On(line, "EOT")
    /\ source.state \in {"BREAK", "PROMPT"} => boot.phase # "receive" /\ ~On(line, "load")
    /\ source.state = "PROMPT" => ~Heard(back, "C") /\ ~Heard(back, "ACK")
    /\ source.state = "XMODEM_WAIT" =>
          /\ ~Heard(back, "ACK")
          /\ boot.phase = "receive" \/ Heard(back, "C") =>
                boot.flash = <<>> /\ ~On(line, "load")

After == {"XMODEM_SEND", "XMODEM_DONE", "FINAL_PROMPT", "SUCCESS", "FAILURE"}

\* The sender: which packet it is at, and how far it can be ahead of the module.  One
\* that was not written whole is not counted: the next one gets its number.
SenderAt(x, s, l, b) ==
    /\ x.state = "START" => s = <<>> /\ boot.flash = <<>>
    /\ x.state \in {"RESEND", "WAIT_ACK"} =>
          /\ Len(s) > 0 /\ x.block = s[Len(s)]
          /\ x.packet_num = Len(s) % Packets
    /\ x.state = "SEND" => x.packet_num = (Len(s) + 1) % Packets
    /\ Followed(l, Len(s))
    /\ boot.phase = "receive" =>
          /\ Has <= Len(s)
          /\ Len(s) <= Has + Room + 1
          /\ x.state = "SEND" \/ Heard(b, "ACK") => Len(s) <= Has + Room
Sender ==
    source.state = "XMODEM_SEND" /\ xm.state \notin {"FAILURE", "SUCCESS"} =>
        SenderAt(xm, sent, line, back)

\* What has been acknowledged was taken, and as long as no ACK was mistaken ...
AckedIn(b) ==
    \A i \in 1 .. Len(b) : b[i].ch = "ACK" /\ IsPacket(b[i].of) => b[i].of.nth <= Has
Acked == source.state = "XMODEM_SEND" => AckedIn(back)

\* ... the module has each packet before the sender goes on, and in the end all.
WholeAt(x, f, s) ==
    /\ x.state = "SEND" => Len(s) <= Has
    /\ x.state \in {"EOF", "FINAL_ACK", "SUCCESS"} => f = Blocks /\ Len(s) <= Has
Whole ==
    ~late =>
        /\ source.state = "XMODEM_SEND" => WholeAt(xm, file, sent)
        /\ source.state \in {"XMODEM_DONE", "FINAL_PROMPT", "SUCCESS"} =>
              file = Blocks /\ Len(sent) <= Has

\* What was read is written whole or cut off.
CutRead == \A b \in cut : b <= file

NoLoad == source.state \in After => ~On(line, "load")

IInv ==
    /\ Typed /\ InOrder /\ Line /\ Early /\ Sender /\ Acked /\ Whole
    /\ NoLoad /\ CutRead /\ source.from <= file

-----------------------------------------------------------------------------
(* The constants *)

LEMMA ConstantsOf ==
    /\ Blocks \in Nat /\ Packets \in Nat /\ Packets > 0 /\ Room \in Nat /\ Room > 0
    /\ Wrap \in Nat /\ Wrap > 0 /\ Tries \in Nat /\ Tries > 0
    /\ AckWait \in Nat /\ AckWait > 0 /\ FinalWait \in Nat /\ FinalWait > 0
    /\ LoadTries \in Nat /\ LoadTries > 0
    /\ LoadWait \in Nat /\ BreakWait \in Nat /\ DoneWait \in Nat
    /\ MaxGap \in Nat /\ MaxFault \in Nat
BY XmodemAssumption, UpdateAssumption

-----------------------------------------------------------------------------
(* Lemmas about remainders *)

\* Quotient and remainder.
LEMMA ModOf ==
    ASSUME NEW P \in Nat, P > 0, NEW m \in Nat
    PROVE  m % P \in 0 .. P - 1 /\ m \div P \in Int /\ m = P * (m \div P) + (m % P)
<1>1. m % P \in 0 .. P - 1
  OBVIOUS
<1>2. m \div P \in Int
  OBVIOUS
<1>3. m = P * (m \div P) + (m % P)
  OBVIOUS
<1> QED
  BY <1>1, <1>2, <1>3

\* The remainder is the only one.
LEMMA ModIs ==
    ASSUME NEW P \in Nat, P > 0, NEW q \in Int, NEW r \in 0 .. P - 1
    PROVE  (P * q + r) % P = r
OBVIOUS

\* Numbers with the same remainder, nearer to each other than P, are the same.
LEMMA ModNear ==
    ASSUME NEW P \in Nat, P > 0, NEW a \in Nat, NEW b \in Nat, a % P = b % P, a - b < P, b - a < P
    PROVE  a = b
<1> DEFINE q == a \div P
           k == b \div P
           r == a % P
<1>1. q \in Int /\ k \in Int /\ r \in 0 .. P - 1 /\ a = P * q + r /\ b = P * k + r
  BY ModOf
<1> HIDE DEF q, k, r
<1>2. a - b = P * (q - k)
  BY <1>1
<1>3. P * (q - k) < P /\ P * (q - k) > -P
  BY <1>2
<1>4. ASSUME q - k >= 1 PROVE FALSE
  <2>1. P * (q - k) >= P
    BY <1>1, <1>4
  <2> QED
    BY <1>1, <1>3, <2>1
<1>5. ASSUME q - k <= -1 PROVE FALSE
  <2>1. P * (q - k) <= -P
    BY <1>1, <1>5
  <2> QED
    BY <1>1, <1>3, <2>1
<1>6. q = k
  BY <1>1, <1>4, <1>5
<1> QED
  BY <1>1, <1>6

\* The remainder of the next number.
LEMMA ModNext ==
    ASSUME NEW P \in Nat, P > 0, NEW n \in Nat
    PROVE  ((n % P) + 1) % P = (n + 1) % P
<1> DEFINE q == n \div P
           r == n % P
<1>1. q \in Int /\ r \in 0 .. P - 1 /\ n = P * q + r
  BY ModOf
<1> HIDE DEF q, r
<1>2. CASE r + 1 < P
  <2>1. r + 1 \in 0 .. P - 1
    BY <1>1, <1>2
  <2>2. (P * q + (r + 1)) % P = r + 1 /\ (P * 0 + (r + 1)) % P = r + 1
    BY <1>1, <2>1, ModIs
  <2>3. P * q + (r + 1) = n + 1 /\ P * 0 + (r + 1) = r + 1
    BY <1>1
  <2> QED
    BY <2>2, <2>3 DEF r
<1>3. CASE ~(r + 1 < P)
  <2>1. r + 1 = P /\ 0 \in 0 .. P - 1
    BY <1>1, <1>3
  <2>2. (P * (q + 1) + 0) % P = 0 /\ (P * 1 + 0) % P = 0
    BY <1>1, <2>1, ModIs
  <2>3. P * (q + 1) + 0 = n + 1 /\ P * 1 + 0 = r + 1
    BY <1>1, <2>1
  <2> QED
    BY <2>2, <2>3 DEF r
<1> QED
  BY <1>2, <1>3

-----------------------------------------------------------------------------
(* Lemmas about sequences *)

\* m is what is left of l, without the first d items.
Part(m, l, d) ==
    /\ d \in Nat /\ Len(m) \in Nat /\ Len(l) \in Nat /\ Len(m) + d <= Len(l)
    /\ \A i \in 1 .. Len(m) : m[i] = l[i + d]

LEMMA TailPart ==
    ASSUME NEW S, NEW l \in Seq(S), l # <<>>
    PROVE  /\ Tail(l) \in Seq(S) /\ Len(Tail(l)) = Len(l) - 1
           /\ Part(Tail(l), l, 1)
<1>1. /\ Tail(l) \in Seq(S) /\ Len(Tail(l)) = Len(l) - 1
      /\ \A i \in 1 .. Len(Tail(l)) : Tail(l)[i] = l[i + 1]
  BY HeadTailProperties
<1>2. Len(l) \in Nat /\ Len(l) > 0
  BY EmptySeq, LenProperties
<1> QED
  BY <1>1, <1>2 DEF Part

LEMMA PrefixPart ==
    ASSUME NEW S, NEW l \in Seq(S), NEW n \in 0 .. Len(l)
    PROVE  /\ SubSeq(l, 1, n) \in Seq(S) /\ Len(SubSeq(l, 1, n)) = n
           /\ Part(SubSeq(l, 1, n), l, 0)
<1>1. Len(l) \in Nat
  BY LenProperties
<1>2. /\ SubSeq(l, 1, n) \in Seq(S) /\ Len(SubSeq(l, 1, n)) = n
      /\ \A i \in 1 .. n : SubSeq(l, 1, n)[i] = l[i]
  BY <1>1, SubSeqProperties
<1> QED
  BY <1>1, <1>2 DEF Part

LEMMA EmptyPart ==
    ASSUME NEW S, NEW l \in Seq(S)
    PROVE  Part(<<>>, l, 0)
<1>1. Len(l) \in Nat /\ Len(<<>>) = 0
  BY LenProperties
<1> QED
  BY <1>1 DEF Part

LEMMA AppendElements ==
    ASSUME NEW S, NEW l \in Seq(S), NEW x \in S
    PROVE  /\ Append(l, x) \in Seq(S) /\ Len(Append(l, x)) = Len(l) + 1 /\ Len(l) \in Nat
           /\ \A i \in 1 .. Len(l) : Append(l, x)[i] = l[i]
           /\ Append(l, x)[Len(l) + 1] = x
<1>1. Len(l) \in Nat
  BY LenProperties
<1>2. /\ Append(l, x) \in Seq(S) /\ Len(Append(l, x)) = Len(l) + 1
      /\ \A i \in 1 .. Len(l) : Append(l, x)[i] = l[i]
      /\ Append(l, x)[Len(l) + 1] = x
  BY AppendProperties
<1> QED
  BY <1>1, <1>2

-----------------------------------------------------------------------------
(* What a part of the line, and the line with one more character, keep *)

LEMMA PartKeeps ==
    ASSUME NEW m, NEW l, NEW d, Part(m, l, d), NEW s, NEW n
    PROVE  /\ Packed(l, s) => Packed(m, s)
           /\ Near(l, n) => Near(m, n)
           /\ \A kind : ~On(l, kind) => ~On(m, kind)
           /\ \A ch : ~Heard(l, ch) => ~Heard(m, ch)
<1>1. \A i \in 1 .. Len(m) : i + d \in 1 .. Len(l) /\ m[i] = l[i + d]
  BY DEF Part
<1>2. \A i, j \in 1 .. Len(m) : (i < j => i + d < j + d) /\ (i # j => i + d # j + d)
  BY DEF Part
<1>3. ASSUME Packed(l, s) PROVE Packed(m, s)
  BY <1>1, <1>2, <1>3 DEF Packed
<1>4. ASSUME Near(l, n) PROVE Near(m, n)
  BY <1>1, <1>4 DEF Near
<1>5. ASSUME NEW kind, ~On(l, kind) PROVE ~On(m, kind)
  BY <1>1, <1>5 DEF On
<1>6. ASSUME NEW ch, ~Heard(l, ch) PROVE ~Heard(m, ch)
  BY <1>1, <1>6 DEF Heard
<1> QED
  BY <1>3, <1>4, <1>5, <1>6

\* What is taken off the front does not change what follows.
LEMMA RestFollowed ==
    ASSUME NEW m, NEW l, NEW d, Part(m, l, d), Len(m) + d = Len(l), NEW f, Followed(l, f),
           l \in Seq(Item), f \in Int
    PROVE  Followed(m, f)
<1> SUFFICES ASSUME NEW i \in 1 .. Len(m), IsPacket(m[i])
             PROVE  m[i].nth + (Len(m) - i) >= f
  BY DEF Followed
<1>1. i + d \in 1 .. Len(l) /\ m[i] = l[i + d] /\ i \in Nat /\ d \in Nat /\ Len(m) \in Nat
  BY DEF Part
<1>2. l[i + d] \in Item
  BY <1>1
<1>3. l[i + d].nth \in Int
  BY <1>2, ConstantsOf DEF Item
<1>4. l[i + d].nth + (Len(l) - (i + d)) >= f
  BY <1>1 DEF Followed
<1> QED
  BY <1>1, <1>3, <1>4

\* An item of the line has a place in the transfer.
LEMMA NthOf ==
    ASSUME NEW l \in Seq(Item)
    PROVE  \A i \in 1 .. Len(l) : l[i] \in Item /\ l[i].nth \in Int
<1> SUFFICES ASSUME NEW i \in 1 .. Len(l)
             PROVE  l[i] \in Item /\ l[i].nth \in Int
  OBVIOUS
<1>1. l[i] \in Item
  OBVIOUS
<1> QED
  BY <1>1 DEF Item

LEMMA CharAppended ==
    ASSUME NEW l \in Seq(Item), NEW x \in Item, ~IsPacket(x), NEW s, NEW f, NEW n
    PROVE  /\ x.kind # "load" /\ Packed(l, s) => Packed(Append(l, x), s)
           /\ Near(l, n) => Near(Append(l, x), n)
           /\ \A kind : x.kind # kind /\ ~On(l, kind) => ~On(Append(l, x), kind)
           /\ f \in Int /\ Followed(l, f) => Followed(Append(l, x), f)
<1> DEFINE m == Append(l, x)
<1>1. /\ Len(m) = Len(l) + 1 /\ Len(l) \in Nat
      /\ \A i \in 1 .. Len(l) : m[i] = l[i]
      /\ m[Len(l) + 1] = x
  BY AppendElements
<1> HIDE DEF m
<1>2. \A i \in 1 .. Len(m) : (i \in 1 .. Len(l) /\ m[i] = l[i]) \/ m[i] = x
  BY <1>1
<1>3. ASSUME Packed(l, s), x.kind # "load" PROVE Packed(m, s)
  BY <1>2, <1>3 DEF Packed, IsPacket
<1>4. ASSUME Near(l, n) PROVE Near(m, n)
  BY <1>2, <1>4 DEF Near
<1>5. ASSUME NEW kind, ~On(l, kind), x.kind # kind PROVE ~On(m, kind)
  BY <1>2, <1>5 DEF On
<1>6. ASSUME Followed(l, f), f \in Int PROVE Followed(m, f)
  <2> SUFFICES ASSUME NEW i \in 1 .. Len(m), IsPacket(m[i])
               PROVE  m[i].nth + (Len(m) - i) >= f
    BY DEF Followed
  <2>1. i \in 1 .. Len(l) /\ m[i] = l[i]
    BY <1>2
  <2>2. l[i].nth \in Int
    BY <2>1, NthOf
  <2>3. l[i].nth + (Len(l) - i) >= f
    BY <1>6, <2>1 DEF Followed
  <2> QED
    BY <1>1, <1>6, <2>1, <2>2, <2>3
<1> QED
  BY <1>3, <1>4, <1>5, <1>6 DEF m

\* A character is written, or finds no room.
LEMMA CharWritten ==
    ASSUME Typed, NEW x \in Item, ~IsPacket(x), NEW s, NEW f, NEW n
    PROVE  /\ Written(x) \in Seq(Item) /\ Len(Written(x)) <= Room
           /\ x.kind # "load" /\ Packed(line, s) => Packed(Written(x), s)
           /\ Near(line, n) => Near(Written(x), n)
           /\ \A kind : x.kind # kind /\ ~On(line, kind) => ~On(Written(x), kind)
           /\ f \in Int /\ Followed(line, f) => Followed(Written(x), f)
<1>1. line \in Seq(Item) /\ Len(line) <= Room /\ Len(line) \in Nat
  BY LenProperties DEF Typed, TypeOK, XmodemType
<1>2. CASE Len(line) < Room
  <2>1. Written(x) = Append(line, x)
    BY <1>2 DEF Written
  <2>2. Append(line, x) \in Seq(Item) /\ Len(Append(line, x)) = Len(line) + 1
    BY <1>1, AppendElements
  <2> QED
    BY <1>1, <1>2, <2>1, <2>2, CharAppended, ConstantsOf
<1>3. CASE ~(Len(line) < Room)
  <2>1. Written(x) = line
    BY <1>3 DEF Written
  <2> QED
    BY <1>1, <2>1
<1> QED
  BY <1>2, <1>3

\* The packet that is written last, for the first time or again.
LEMMA PacketAppended ==
    ASSUME NEW l \in Seq(Item), NEW x \in Item, IsPacket(x), NEW s, Len(s) \in Nat, Len(s) > 0, NEW n,
           Packed(l, s), ~On(l, "load"),
           x.nth = Len(s), x.num = Len(s) % Packets, x.block = s[Len(s)]
    PROVE  /\ Packed(Append(l, x), s)
           /\ Near(l, n) /\ Len(s) \in n .. n + Room + 1 => Near(Append(l, x), n)
           /\ \A kind : kind # "packet" /\ ~On(l, kind) => ~On(Append(l, x), kind)
           /\ Followed(l, Len(s) - 1) => Followed(Append(l, x), Len(s))
<1> DEFINE m == Append(l, x)
<1>1. /\ Len(m) = Len(l) + 1 /\ Len(l) \in Nat
      /\ \A i \in 1 .. Len(l) : m[i] = l[i]
      /\ m[Len(l) + 1] = x
  BY AppendElements
<1> HIDE DEF m
<1>2. \A i \in 1 .. Len(m) : (i \in 1 .. Len(l) /\ m[i] = l[i]) \/ (i = Len(l) + 1 /\ m[i] = x)
  BY <1>1
<1>3. Packed(m, s)
  <2>1. \A i \in 1 .. Len(m) : IsPacket(m[i]) =>
          /\ m[i].nth \in 1 .. Len(s) /\ m[i].num = m[i].nth % Packets
          /\ m[i].block = s[m[i].nth]
    BY <1>2 DEF Packed
  <2>2. ASSUME NEW i \in 1 .. Len(m), NEW j \in 1 .. Len(m), i < j, IsPacket(m[i]), IsPacket(m[j])
        PROVE  m[i].nth <= m[j].nth
    <3>1. i \in 1 .. Len(l) /\ m[i] = l[i]
      BY <1>1, <1>2, <2>2
    <3>2. CASE j \in 1 .. Len(l) /\ m[j] = l[j]
      BY <3>1, <3>2, <2>2 DEF Packed
    <3>3. CASE m[j] = x
      BY <2>1, <2>2, <3>3
    <3> QED
      BY <1>2, <3>2, <3>3
  <2>3. \A i \in 1 .. Len(m) : m[i].kind # "load"
    BY <1>2 DEF On, IsPacket
  <2> QED
    BY <2>1, <2>2, <2>3 DEF Packed
<1>4. ASSUME Near(l, n), Len(s) \in n .. n + Room + 1 PROVE Near(m, n)
  BY <1>2, <1>4 DEF Near
<1>5. ASSUME NEW kind, ~On(l, kind), kind # "packet" PROVE ~On(m, kind)
  BY <1>2, <1>5 DEF On, IsPacket
<1>6. ASSUME Followed(l, Len(s) - 1) PROVE Followed(m, Len(s))
  <2> SUFFICES ASSUME NEW i \in 1 .. Len(m), IsPacket(m[i])
               PROVE  m[i].nth + (Len(m) - i) >= Len(s)
    BY DEF Followed
  <2>1. CASE i \in 1 .. Len(l) /\ m[i] = l[i]
    <3>1. l[i].nth \in Int
      BY <2>1, NthOf
    <3>2. l[i].nth + (Len(l) - i) >= Len(s) - 1
      BY <1>6, <2>1 DEF Followed
    <3> QED
      BY <1>1, <2>1, <3>1, <3>2
  <2>2. CASE i = Len(l) + 1 /\ m[i] = x
    BY <1>1, <2>2
  <2> QED
    BY <1>2, <2>1, <2>2
<1> QED
  BY <1>3, <1>4, <1>5, <1>6 DEF m

\* Another packet is to be written.
LEMMA PacketsGrow ==
    ASSUME NEW l, NEW S, NEW s \in Seq(S), NEW b \in S, Packed(l, s)
    PROVE  Packed(l, Append(s, b))
<1>1. /\ Len(Append(s, b)) = Len(s) + 1 /\ Len(s) \in Nat
      /\ \A i \in 1 .. Len(s) : Append(s, b)[i] = s[i]
  BY AppendElements
<1> QED
  BY <1>1 DEF Packed

LEMMA FollowedLess ==
    ASSUME NEW l \in Seq(Item), NEW f \in Int, Followed(l, f)
    PROVE  Followed(l, f - 1)
<1> SUFFICES ASSUME NEW i \in 1 .. Len(l), IsPacket(l[i])
             PROVE  l[i].nth + (Len(l) - i) >= f - 1
  BY DEF Followed
<1>1. l[i].nth \in Int /\ Len(l) \in Nat
  BY NthOf, LenProperties
<1>2. l[i].nth + (Len(l) - i) >= f
  BY DEF Followed
<1> QED
  BY <1>1, <1>2

-----------------------------------------------------------------------------
(* Type correctness *)

LEMMA ItemsOf ==
    /\ \A ch \in {"part", "CR", "load", "run", "EOT", "CAN", "C", ">", "NAK"} :
          /\ Char(ch) \in Item /\ ~IsPacket(Char(ch)) /\ Char(ch).kind = ch
    /\ \A x \in XmRecord, nth \in Nat :
          /\ x.block > 0 => Packet(x, nth) \in Item
          /\ IsPacket(Packet(x, nth)) /\ Packet(x, nth).nth = nth
          /\ Packet(x, nth).num = x.packet_num /\ Packet(x, nth).block = x.block
<1>1. \A ch \in {"part", "CR", "load", "run", "EOT", "CAN", "C", ">", "NAK"} :
          /\ Char(ch) \in Item /\ ~IsPacket(Char(ch)) /\ Char(ch).kind = ch
  BY ConstantsOf DEF Char, Item, IsPacket
<1>2. ASSUME NEW x \in XmRecord, NEW nth \in Nat
      PROVE  /\ x.block > 0 => Packet(x, nth) \in Item
             /\ IsPacket(Packet(x, nth)) /\ Packet(x, nth).nth = nth
             /\ Packet(x, nth).num = x.packet_num /\ Packet(x, nth).block = x.block
  BY DEF Packet, Item, IsPacket, XmRecord
<1> QED
  BY <1>1, <1>2

\* The rest of what was received.
LEMMA LeftTyped ==
    ASSUME Typed
    PROVE  /\ Left \in Seq(Reply) /\ Len(Left) <= Room
           /\ \A ch : ~Heard(back, ch) => ~Heard(Left, ch)
           /\ \E d : Part(Left, back, d)
           /\ back # <<>> => Head(back) \in Reply /\ Head(back) = back[1] /\ 1 \in 1 .. Len(back)
<1>1. back \in Seq(Reply) /\ Len(back) <= Room /\ Len(back) \in Nat
  BY LenProperties DEF Typed, TypeOK, XmodemType
<1>2. CASE back = <<>>
  <2>1. Left = back
    BY <1>2 DEF Left
  <2>2. Part(back, back, 0)
    BY <1>1 DEF Part
  <2> QED
    BY <1>1, <1>2, <2>1, <2>2
<1>3. CASE back # <<>>
  <2>1. Left = Tail(back)
    BY <1>3 DEF Left
  <2>2. Tail(back) \in Seq(Reply) /\ Len(Tail(back)) = Len(back) - 1 /\ Part(Tail(back), back, 1)
    BY <1>1, <1>3, TailPart
  <2>3. Head(back) \in Reply /\ Head(back) = back[1]
    BY <1>1, <1>3, HeadTailProperties
  <2>4. Len(back) # 0
    BY <1>1, <1>3, EmptySeq
  <2>5. \A ch : ~Heard(back, ch) => ~Heard(Tail(back), ch)
    BY <2>2, PartKeeps
  <2> QED
    BY <1>1, ConstantsOf, <2>1, <2>2, <2>3, <2>4, <2>5
<1> QED
  BY <1>2, <1>3

\* An answer is heard, or finds no room.
LEMMA AnswerTyped ==
    ASSUME Typed, NEW ch \in {"C", ">", "CAN", "NAK", "ACK"}, NEW x \in Item, Answer(ch, x)
    PROVE  /\ back' \in Seq(Reply) /\ Len(back') <= Room
           /\ \A c : c # ch /\ ~Heard(back, c) => ~Heard(back', c)
           /\ \A i \in 1 .. Len(back') :
                 (i \in 1 .. Len(back) /\ back'[i] = back[i]) \/ back'[i] = [ch |-> ch, of |-> x]
<1>1. back \in Seq(Reply) /\ Len(back) <= Room /\ Len(back) \in Nat
  BY LenProperties DEF Typed, TypeOK, XmodemType
<1> DEFINE r == [ch |-> ch, of |-> x]
<1>2. r \in Reply /\ r.ch = ch
  BY DEF Reply
<1> HIDE DEF r
<1>3. back' = IF Len(back) < Room THEN Append(back, r) ELSE back
  BY DEF Answer, r
<1>4. CASE Len(back) < Room
  <2>1. /\ back' \in Seq(Reply) /\ Len(back') = Len(back) + 1
        /\ \A i \in 1 .. Len(back) : back'[i] = back[i]
        /\ back'[Len(back) + 1] = r
    BY <1>1, <1>2, <1>3, <1>4, AppendElements
  <2>2. \A i \in 1 .. Len(back') : (i \in 1 .. Len(back) /\ back'[i] = back[i]) \/ back'[i] = r
    BY <1>1, <2>1
  <2>3. \A c : c # ch /\ ~Heard(back, c) => ~Heard(back', c)
    BY <1>2, <2>2 DEF Heard
  <2> QED
    BY <1>1, <1>4, <2>1, <2>2, <2>3, ConstantsOf DEF r
<1>5. CASE ~(Len(back) < Room)
  BY <1>1, <1>3, <1>5
<1> QED
  BY <1>4, <1>5

\* The parts of the type invariant.
LEMMA TypedParts ==
    Typed <=> /\ xm \in XmRecord /\ file \in 0 .. Blocks
              /\ line \in Seq(Item) /\ Len(line) <= Room
              /\ back \in Seq(Reply) /\ Len(back) <= Room
              /\ now \in 0 .. Wrap - 1 /\ late \in BOOLEAN
              /\ sent \in Seq(1 .. Blocks) /\ cut \subseteq 1 .. Blocks
              /\ source \in Trying /\ Sends
              /\ boot \in [phase : {"app", "menu", "receive", "off"}, flash : Seq(1 .. Blocks)]
              /\ idle \in 0 .. MaxGap /\ faults \in 0 .. MaxFault
BY DEF Typed, TypeOK, XmodemType, SourceType, BootType, XmRecord, SourceRecord, Trying

\* The fields of the sender.
LEMMA XmTyped ==
    ASSUME Typed
    PROVE  /\ xm \in XmRecord
           /\ xm.packet_num \in Nat /\ xm.packet_num < Packets /\ xm.block \in Nat /\ xm.block <= Blocks
           /\ xm.tries \in Nat /\ xm.tries <= Tries /\ Len(sent) \in Nat
           /\ file \in Nat /\ file <= Blocks /\ late \in BOOLEAN
<1>1. xm \in XmRecord /\ file \in 0 .. Blocks /\ late \in BOOLEAN
  BY TypedParts
<1>2. /\ xm.packet_num \in 0 .. Packets - 1 /\ xm.block \in 0 .. Blocks
      /\ xm.tries \in 0 .. Tries
  BY <1>1 DEF XmRecord
<1>3. Len(sent) \in Nat
  BY TypedParts, LenProperties
<1> QED
  BY <1>1, <1>2, <1>3, ConstantsOf

\* The sender gives up.
LEMMA FailTyped ==
    ASSUME Typed, NEW x \in XmRecord, NEW error, NEW ret, Fail(x, error, ret)
    PROVE  /\ xm' \in XmRecord /\ xm'.state = "FAILURE" /\ ret = error
           /\ line' \in Seq(Item) /\ Len(line') <= Room
           /\ Part(line', Written(Char("CAN")), 0)
<1>1. xm' = [x EXCEPT !.state = "FAILURE"] /\ ret = error
  BY DEF Fail
<1>2. Written(Char("CAN")) \in Seq(Item) /\ Len(Written(Char("CAN"))) <= Room
  BY ItemsOf, CharWritten
<1>3. PICK out \in 0 .. Len(Written(Char("CAN"))) :
          line' = SubSeq(Written(Char("CAN")), 1, out)
  BY DEF Fail
<1>4. /\ line' \in Seq(Item) /\ Len(line') = out
      /\ Part(line', Written(Char("CAN")), 0)
  BY <1>2, <1>3, PrefixPart
<1>5. Len(Written(Char("CAN"))) \in Nat
  BY <1>2, LenProperties
<1>6. xm' \in XmRecord /\ xm'.state = "FAILURE"
  BY <1>1 DEF XmRecord, XmodemState
<1>7. Len(line') <= Room
  BY <1>2, <1>3, <1>4, <1>5, ConstantsOf
<1> QED
  BY <1>1, <1>4, <1>6, <1>7

\* The sender writes a packet, a part of it, or gives up.
LEMMA SendingTyped ==
    ASSUME Typed, NEW x \in XmRecord, x.block > 0, NEW nth \in Nat, NEW ret, Sending(x, nth, ret)
    PROVE  /\ xm' \in XmRecord /\ Sends' /\ ret \in {"0", "EIO"}
           /\ line' \in Seq(Item) /\ Len(line') <= Room
<1>1. CASE /\ Len(line) < Room
           /\ line' = Append(line, Packet(x, nth))
           /\ xm' = [x EXCEPT !.state = "WAIT_ACK", !.timer = now]
           /\ ret = "0"
  <2>1. Packet(x, nth) \in Item
    BY ItemsOf
  <2>2. line' \in Seq(Item) /\ Len(line') = Len(line) + 1 /\ Len(line) \in Nat
    BY <1>1, <2>1, TypedParts, AppendElements
  <2>3. xm' \in XmRecord /\ xm'.block = x.block
    BY <1>1, TypedParts DEF XmRecord, XmodemState
  <2> QED
    BY <1>1, <2>2, <2>3, ConstantsOf DEF Sends
<1>2. CASE line' = Written(Char("part")) /\ xm' = x /\ ret = "0"
  <2>1. line' \in Seq(Item) /\ Len(line') <= Room
    BY <1>2, ItemsOf, CharWritten
  <2> QED
    BY <1>2, <2>1 DEF Sends
<1>3. CASE Fail(x, "EIO", ret)
  BY <1>3, FailTyped DEF Sends
<1> QED
  BY <1>1, <1>2, <1>3 DEF Sending

\* What a tick of the sender leaves.
SenderTyped ==
    /\ xm' \in XmRecord /\ Sends' /\ file' \in 0 .. Blocks
    /\ line' \in Seq(Item) /\ Len(line') <= Room
    /\ back' \in Seq(Reply) /\ Len(back') <= Room
    /\ sent' \in Seq(1 .. Blocks) /\ cut' \subseteq 1 .. Blocks
    /\ late' \in BOOLEAN

LEMMA SendTyped ==
    ASSUME Typed, NEW num \in 0 .. Packets - 1, NEW rest \in Seq(Reply), Len(rest) <= Room,
           NEW ret, Send(num, rest, ret), UNCHANGED late
    PROVE  SenderTyped /\ ret \in {"0", "EIO"}
<1> DEFINE x == [xm EXCEPT !.state = "SEND", !.packet_num = num, !.tries = Tries]
<1>0. x \in XmRecord
  <2>1. Tries \in 0 .. Tries /\ "SEND" \in XmodemState
    BY ConstantsOf DEF XmodemState
  <2> QED
    BY <2>1, XmTyped DEF XmRecord
<1>1. CASE /\ file < Blocks /\ file' = file + 1 /\ back' = <<>>
           /\ Sending([x EXCEPT !.block = file + 1], Len(sent) + 1, ret)
           /\ IF xm'.state = "WAIT_ACK"
              THEN sent' = Append(sent, file + 1) /\ UNCHANGED cut
              ELSE cut' = cut \cup {file + 1} /\ UNCHANGED sent
  <2> DEFINE y == [x EXCEPT !.block = file + 1]
  <2>0. file < Blocks /\ file' = file + 1
    BY <1>1
  <2>1. file + 1 \in 0 .. Blocks /\ file + 1 \in 1 .. Blocks /\ file + 1 > 0
    BY <2>0, XmTyped, ConstantsOf
  <2>2. y \in XmRecord /\ y.block > 0
    BY <1>0, <2>1 DEF XmRecord
  <2>3. back' \in Seq(Reply) /\ Len(back') = 0
    BY <1>1
  <2>4. file' \in 0 .. Blocks
    BY <2>0, <2>1
  <2>5. Sending(y, Len(sent) + 1, ret) /\ Len(sent) + 1 \in Nat
    BY <1>1, XmTyped
  <2> HIDE DEF x, y
  <2>6. /\ xm' \in XmRecord /\ Sends' /\ ret \in {"0", "EIO"}
        /\ line' \in Seq(Item) /\ Len(line') <= Room
    BY <2>2, <2>5, SendingTyped
  <2>7. sent' \in Seq(1 .. Blocks) /\ cut' \subseteq 1 .. Blocks
    <3>1. sent \in Seq(1 .. Blocks) /\ cut \subseteq 1 .. Blocks
      BY TypedParts
    <3>2. Append(sent, file + 1) \in Seq(1 .. Blocks)
      BY <2>1, <3>1, AppendElements
    <3> QED
      BY <1>1, <2>1, <3>1, <3>2
  <2> QED
    BY <2>3, <2>4, <2>6, <2>7, TypedParts, ConstantsOf DEF SenderTyped, Sends
<1>2. CASE /\ xm' = [x EXCEPT !.state = "EOF"]
           /\ back' = rest /\ ret = "0" /\ UNCHANGED <<file, line, sent, cut>>
  <2>1. xm' \in XmRecord /\ xm'.state = "EOF"
    BY <1>0, <1>2 DEF XmRecord, XmodemState
  <2> QED
    BY <1>2, <2>1, TypedParts DEF SenderTyped, Sends
<1>3. CASE /\ Fail(x, "EIO", ret)
           /\ back' = rest /\ UNCHANGED <<file, sent, cut>>
  <2>1. xm' \in XmRecord /\ xm'.state = "FAILURE" /\ ret = "EIO" /\ line' \in Seq(Item) /\ Len(line') <= Room
    BY <1>0, <1>3, FailTyped
  <2> QED
    BY <1>3, <2>1, TypedParts DEF SenderTyped, Sends
<1> QED
  BY <1>1, <1>2, <1>3 DEF Send

LEMMA AwaitTyped ==
    ASSUME Typed, NEW state, NEW wait, NEW again \in {"RESEND", "EOF"}, NEW ret,
           Await(state, wait, again, ret), again = "RESEND" => state = "WAIT_ACK"
    PROVE  SenderTyped /\ ret \in {"0", "ETIMEDOUT"}
<1>1. back' = Left /\ UNCHANGED <<file, sent, cut, late>> /\ xm.state = state
  BY DEF Await
<1>2. back' \in Seq(Reply) /\ Len(back') <= Room
  BY <1>1, LeftTyped
<1>3. CASE ret = "0" /\ UNCHANGED <<xm, line>>
  BY <1>1, <1>2, <1>3, TypedParts DEF SenderTyped, Sends
<1>4. CASE Retry(again, ret)
  <2>1. CASE /\ xm.tries > 1
             /\ xm' = [xm EXCEPT !.state = again, !.tries = @ - 1] /\ ret = "0" /\ UNCHANGED line
    <3>1. xm' \in XmRecord /\ xm'.block = xm.block /\ xm'.state = again
      <4>1. xm.tries - 1 \in 0 .. Tries
        <5>1. xm.tries > 1
          BY <2>1
        <5>2. xm.tries \in Nat /\ xm.tries <= Tries /\ Tries \in Nat
          BY XmTyped, ConstantsOf
        <5> QED
          BY <5>1, <5>2
      <4> QED
        BY <2>1, <4>1, XmTyped DEF XmRecord, XmodemState
    <3> QED
      BY <1>1, <1>2, <2>1, <3>1, TypedParts DEF SenderTyped, Sends
  <2>2. CASE Fail([xm EXCEPT !.tries = 0], "ETIMEDOUT", ret)
    <3>1. [xm EXCEPT !.tries = 0] \in XmRecord
      <4>1. 0 \in 0 .. Tries
        BY ConstantsOf
      <4> QED
        BY <4>1, XmTyped DEF XmRecord
    <3>2. /\ xm' \in XmRecord /\ xm'.state = "FAILURE" /\ ret = "ETIMEDOUT"
          /\ line' \in Seq(Item) /\ Len(line') <= Room
      BY <2>2, <3>1, FailTyped
    <3> QED
      BY <1>1, <1>2, <3>2, TypedParts DEF SenderTyped, Sends
  <2> QED
    BY <1>4, <2>1, <2>2 DEF Retry
<1> QED
  BY <1>3, <1>4 DEF Await

LEMMA TxTickTyped ==
    ASSUME Typed, NEW ret, TxTick(ret)
    PROVE  SenderTyped /\ now' = now /\ ret \in {"0", "1", "EIO", "ETIMEDOUT"}
<1>0. now' = now
  BY DEF TxTick
<1>1. CASE Start(ret)
  <2>1. late' = late
    BY <1>1 DEF Start
  <2>2. Left \in Seq(Reply) /\ Len(Left) <= Room
    BY LeftTyped
  <2>3. CASE Send(1 % Packets, Left, ret)
    <3>1. 1 % Packets \in 0 .. Packets - 1
      BY ConstantsOf
    <3> QED
      BY <1>0, <2>1, <2>2, <2>3, <3>1, SendTyped
  <2>4. CASE back' = Left /\ ret = "0" /\ UNCHANGED <<xm, file, line, sent, cut>>
    BY <1>0, <2>1, <2>2, <2>4, TypedParts DEF SenderTyped, Sends
  <2> QED
    BY <1>1, <2>3, <2>4 DEF Start
<1>2. CASE NextPacket(ret)
  <2>1. xm.packet_num \in 0 .. Packets - 1 /\ back \in Seq(Reply) /\ Len(back) <= Room
    BY TypedParts DEF XmRecord
  <2> QED
    BY <1>0, <1>2, <2>1, SendTyped DEF NextPacket
<1>3. CASE Resend(ret)
  <2>1. xm \in XmRecord /\ xm.block > 0 /\ Len(sent) \in Nat /\ Sending(xm, Len(sent), ret)
    BY <1>3, TypedParts, XmTyped DEF Sends, Resend
  <2>2. /\ xm' \in XmRecord /\ Sends' /\ ret \in {"0", "EIO"}
        /\ line' \in Seq(Item) /\ Len(line') <= Room
    BY <2>1, SendingTyped
  <2> QED
    BY <1>0, <1>3, <2>2, TypedParts DEF Resend, SenderTyped
<1>4. CASE WaitAck(ret)
  <2>1. CASE Await("WAIT_ACK", AckWait, "RESEND", ret)
    BY <1>0, <2>1, AwaitTyped DEF XmodemState
  <2>2. CASE /\ Taken(Packet(xm, Len(sent))) /\ xm' = AckTaken
             /\ back' = Left /\ ret = "0" /\ UNCHANGED <<file, line, sent, cut>>
    <3>1. xm' \in XmRecord /\ xm'.state = "SEND"
      <4>1. (xm.packet_num + 1) % Packets \in 0 .. Packets - 1
        BY XmTyped, ConstantsOf
      <4> QED
        BY <2>2, <4>1, XmTyped DEF AckTaken, XmRecord, XmodemState
    <3>2. late' \in BOOLEAN
      BY <2>2, TypedParts DEF Taken
    <3> QED
      BY <1>0, <2>2, <3>1, <3>2, LeftTyped, TypedParts DEF SenderTyped, Sends
  <2> QED
    BY <1>4, <2>1, <2>2 DEF WaitAck
<1>5. CASE Eof(ret)
  <2>1. xm' \in XmRecord
    BY <1>5, TypedParts DEF Eof, XmRecord, XmodemState
  <2>2. line' \in Seq(Item) /\ Len(line') <= Room
    BY <1>5, ItemsOf, CharWritten DEF Eof
  <2> QED
    BY <1>0, <1>5, <2>1, <2>2, TypedParts DEF Eof, SenderTyped, Sends
<1>6. CASE FinalAck(ret)
  <2>1. CASE Await("FINAL_ACK", FinalWait, "EOF", ret)
    BY <1>0, <2>1, AwaitTyped DEF XmodemState
  <2>2. CASE /\ Taken(Char("EOT")) /\ xm' = [xm EXCEPT !.state = "SUCCESS"]
             /\ back' = Left /\ ret = "1" /\ UNCHANGED <<file, line, sent, cut>>
    <3>1. xm' \in XmRecord
      BY <2>2, TypedParts DEF XmRecord, XmodemState
    <3>2. late' \in BOOLEAN
      BY <2>2, TypedParts DEF Taken
    <3> QED
      BY <1>0, <2>2, <3>1, <3>2, LeftTyped, TypedParts DEF SenderTyped, Sends
  <2> QED
    BY <1>6, <2>1, <2>2 DEF FinalAck
<1>7. CASE Over(ret)
  BY <1>0, <1>7, TypedParts DEF Over, SenderTyped, Sends
<1> QED
  BY <1>1, <1>2, <1>3, <1>4, <1>5, <1>6, <1>7 DEF TxTick

SourceState ==
    {"INIT", "RESET", "BREAK", "PROMPT", "XMODEM_WAIT", "XMODEM_SEND", "XMODEM_DONE",
     "FINAL_PROMPT", "SUCCESS", "FAILURE"}

\* The fields of the driver.
LEMMA SourceFields ==
    ASSUME Typed
    PROVE  /\ source \in SourceRecord /\ source.tries \in Nat /\ source.tries <= LoadTries
           /\ source.age \in Waited /\ (source.ret = "0" => source.tries < LoadTries)
           /\ source.from \in Nat /\ source.from <= Blocks /\ source.state \in SourceState
<1>1. source \in SourceRecord /\ (source.ret = "0" => source.tries < LoadTries)
  BY TypedParts DEF Trying
<1>2. source.tries \in 0 .. LoadTries /\ source.from \in 0 .. Blocks
  BY <1>1 DEF SourceRecord
<1>3. source.age \in Waited /\ source.state \in SourceState
  BY <1>1 DEF SourceRecord, SourceState
<1> QED
  BY <1>1, <1>2, <1>3, ConstantsOf

\* What the driver makes of its source.
LEMMA SourceTyped ==
    ASSUME Typed, source.ret = "0"
    PROVE  /\ \A state \in SourceState :
                 GoTo(state) \in Trying /\ [GoTo(state) EXCEPT !.ret = "1"] \in Trying
           /\ Timeout \in Trying
           /\ [GoTo("BREAK") EXCEPT !.tries = IF source.state = "INIT" THEN 0 ELSE @] \in Trying
           /\ [source EXCEPT !.state = "XMODEM_SEND", !.from = file] \in Trying
           /\ \A ret \in {"0", "1", "EIO", "ETIMEDOUT"} :
                 [source EXCEPT !.state = "FAILURE", !.ret = ret] \in Trying
<1>1. source \in SourceRecord /\ file \in 0 .. Blocks /\ source.tries < LoadTries
  BY TypedParts, SourceFields
<1>2. 0 \in Waited /\ 0 \in 0 .. LoadTries /\ 0 < LoadTries
  BY ConstantsOf DEF Waited
<1>3. \A state \in SourceState :
          GoTo(state) \in Trying /\ [GoTo(state) EXCEPT !.ret = "1"] \in Trying
  BY <1>1, <1>2 DEF GoTo, SourceRecord, SourceState, Trying
<1>4. Timeout \in Trying
  <2>1. source.tries + 1 \in 0 .. LoadTries
    BY <1>1, SourceFields, ConstantsOf
  <2>2. CASE source.age <= LoadWait
    BY <1>1, <2>2 DEF Timeout, Trying
  <2>3. CASE ~(source.age <= LoadWait) /\ source.tries + 1 < LoadTries
    <3>1. Timeout = [GoTo("RESET") EXCEPT !.tries = source.tries + 1]
      BY <1>1, <2>3 DEF Timeout, GoTo, SourceRecord
    <3> QED
      BY <1>1, <1>2, <2>1, <2>3, <3>1 DEF GoTo, SourceRecord, Trying
  <2>4. CASE ~(source.age <= LoadWait) /\ ~(source.tries + 1 < LoadTries)
    <3>1. Timeout = [source EXCEPT !.tries = source.tries + 1, !.ret = "ETIMEDOUT"]
      BY <1>1, <2>4 DEF Timeout, SourceRecord
    <3> QED
      BY <1>1, <2>1, <3>1 DEF SourceRecord, Trying
  <2> QED
    BY <2>2, <2>3, <2>4
<1>5. [GoTo("BREAK") EXCEPT !.tries = IF source.state = "INIT" THEN 0 ELSE @] \in Trying
  BY <1>1, <1>2 DEF GoTo, SourceRecord, Trying
<1>6. [source EXCEPT !.state = "XMODEM_SEND", !.from = file] \in Trying
  BY <1>1 DEF SourceRecord, Trying
<1>7. \A ret \in {"0", "1", "EIO", "ETIMEDOUT"} :
          [source EXCEPT !.state = "FAILURE", !.ret = ret] \in Trying
  BY <1>1 DEF SourceRecord, Trying
<1> QED
  BY <1>3, <1>4, <1>5, <1>6, <1>7

BootRecord == [phase : {"app", "menu", "receive", "off"}, flash : Seq(1 .. Blocks)]

\* Typed, of the next state, by its parts.
TypedAfter ==
    /\ SenderTyped /\ now' \in 0 .. Wrap - 1
    /\ source' \in Trying /\ boot' \in BootRecord
    /\ idle' \in 0 .. MaxGap /\ faults' \in 0 .. MaxFault

LEMMA AfterTyped ==
    ASSUME TypedAfter
    PROVE  Typed'
BY DEF TypedAfter, SenderTyped, Sends, Typed, TypeOK, XmodemType, SourceType, BootType, XmRecord,
       SourceRecord, Trying, BootRecord


\* Where the sender has nothing to do with it.
LEMMA SenderStill ==
    ASSUME Typed, UNCHANGED <<xm, file, sent, cut, late>>,
           line' \in Seq(Item), Len(line') <= Room, back' \in Seq(Reply), Len(back') <= Room
    PROVE  SenderTyped
BY TypedParts DEF SenderTyped, Sends

LEMMA LineRead ==
    ASSUME Typed, line # <<>>
    PROVE  /\ Head(line) \in Item /\ Head(line) = line[1] /\ 1 \in 1 .. Len(line)
           /\ Tail(line) \in Seq(Item) /\ Len(Tail(line)) = Len(line) - 1 /\ Len(line) \in Nat
           /\ Len(Tail(line)) <= Room /\ Part(Tail(line), line, 1)
<1>1. line \in Seq(Item) /\ Len(line) <= Room /\ Len(line) \in Nat
  BY TypedParts, LenProperties
<1>2. Head(line) \in Item /\ Head(line) = line[1] /\ Len(line) # 0
  BY <1>1, HeadTailProperties, EmptySeq
<1>3. /\ Tail(line) \in Seq(Item) /\ Len(Tail(line)) = Len(line) - 1
      /\ Part(Tail(line), line, 1)
  BY <1>1, TailPart
<1> QED
  BY <1>1, <1>2, <1>3, ConstantsOf

\* Two items are dropped.
LEMMA LineRead2 ==
    ASSUME Typed, Len(line) > 1
    PROVE  /\ Tail(Tail(line)) \in Seq(Item) /\ Len(Tail(Tail(line))) = Len(line) - 2
           /\ Len(Tail(Tail(line))) <= Room /\ Part(Tail(Tail(line)), line, 2)
<1>1. line \in Seq(Item) /\ Len(line) <= Room /\ Len(line) \in Nat /\ line # <<>>
  BY TypedParts, LenProperties, EmptySeq
<1>2. /\ Tail(line) \in Seq(Item) /\ Len(Tail(line)) = Len(line) - 1
      /\ Part(Tail(line), line, 1)
  BY <1>1, TailPart
<1>3. Tail(line) # <<>>
  BY <1>1, <1>2, EmptySeq
<1>4. /\ Tail(Tail(line)) \in Seq(Item) /\ Len(Tail(Tail(line))) = Len(Tail(line)) - 1
      /\ Part(Tail(Tail(line)), Tail(line), 1)
  BY <1>2, <1>3, TailPart
<1>5. Part(Tail(Tail(line)), line, 2)
  <2>1. Len(Tail(Tail(line))) \in Nat /\ Len(Tail(Tail(line))) + 2 <= Len(line)
    BY <1>1, <1>2, <1>4 DEF Part
  <2> SUFFICES ASSUME NEW i \in 1 .. Len(Tail(Tail(line)))
               PROVE  Tail(Tail(line))[i] = line[i + 2]
    BY <1>1, <2>1 DEF Part
  <2>2. Tail(Tail(line))[i] = Tail(line)[i + 1] /\ i + 1 \in 1 .. Len(Tail(line))
    BY <1>2, <1>4, <2>1 DEF Part
  <2>3. Tail(line)[i + 1] = line[(i + 1) + 1] /\ (i + 1) + 1 = i + 2
    BY <1>2, <2>2 DEF Part
  <2> QED
    BY <2>2, <2>3
<1> QED
  BY <1>1, <1>2, <1>4, <1>5, ConstantsOf

\* A flush or a reset leaves nothing.
LEMMA NothingLeft ==
    /\ <<>> \in Seq(Item) /\ <<>> \in Seq(Reply) /\ Len(<<>>) = 0 /\ Len(<<>>) <= Room
BY ConstantsOf

LEMMA TickTyped ==
    ASSUME Typed, Tick
    PROVE  Typed'
<1>1. idle' = 0 /\ now' = now /\ idle' \in 0 .. MaxGap /\ now' \in 0 .. Wrap - 1
  BY TypedParts, ConstantsOf DEF Tick
<1>2. /\ line \in Seq(Item) /\ Len(line) <= Room /\ back \in Seq(Reply) /\ Len(back) <= Room
      /\ boot \in BootRecord /\ faults \in 0 .. MaxFault /\ source \in Trying
  BY TypedParts DEF BootRecord
<1>3. Left \in Seq(Reply) /\ Len(Left) <= Room
  BY LeftTyped
<1>4. \A ch \in {"CR", "load", "run"} :
          Written(Char(ch)) \in Seq(Item) /\ Len(Written(Char(ch))) <= Room
  BY ItemsOf, CharWritten
<1>5. CASE Reset
  <2>1. source.ret = "0" /\ line' = <<>> /\ UNCHANGED <<xm, file, sent, cut, late, back>>
    BY <1>5 DEF Reset, Running, KeepsXmodem
  <2>2. source' \in Trying
    BY <1>5, <2>1, SourceTyped DEF Reset
  <2>3. SenderTyped
    BY <1>2, <2>1, NothingLeft, SenderStill
  <2>4. boot' \in BootRecord /\ faults' \in 0 .. MaxFault
    <3>1. CASE /\ boot' = [boot EXCEPT !.phase = IF @ = "off" THEN "off" ELSE "menu"]
               /\ UNCHANGED faults
      BY <1>2, <3>1 DEF BootRecord
    <3>2. CASE /\ faults < MaxFault /\ faults' = faults + 1
               /\ boot' = [boot EXCEPT !.phase = "app"]
      <4>1. boot' \in BootRecord
        BY <1>2, <3>2 DEF BootRecord
      <4>2. faults' \in 0 .. MaxFault
        <5>1. faults < MaxFault /\ faults' = faults + 1
          BY <3>2
        <5>2. faults \in Nat /\ MaxFault \in Nat
          BY <1>2, ConstantsOf
        <5> QED
          BY <5>1, <5>2
      <4> QED
        BY <4>1, <4>2
    <3> QED
      BY <1>5, <3>1, <3>2 DEF Reset
  <2> QED
    BY <1>1, <2>2, <2>3, <2>4, AfterTyped DEF TypedAfter
<1>6. CASE Break
  <2>1. source.ret = "0" /\ UNCHANGED <<xm, file, sent, cut, late, boot, faults>>
    BY <1>6 DEF Break, Running, KeepsXmodem
  <2>2. source' \in Trying
    BY <1>6, <2>1, SourceTyped DEF Break, SourceState
  <2>3. /\ line' \in Seq(Item) /\ Len(line') <= Room
        /\ back' \in Seq(Reply) /\ Len(back') <= Room
    BY <1>2, <1>4, <1>6, NothingLeft DEF Break
  <2> QED
    BY <1>1, <1>2, <2>1, <2>2, <2>3, SenderStill, AfterTyped DEF TypedAfter
<1>7. CASE Prompt
  <2>1. source.ret = "0" /\ UNCHANGED <<xm, file, sent, cut, late, boot, faults>> /\ back' = Left
    BY <1>7 DEF Prompt, Running, KeepsXmodem
  <2>2. source' \in Trying
    BY <1>7, <2>1, SourceTyped DEF Prompt, SourceState
  <2>3. line' \in Seq(Item) /\ Len(line') <= Room
    BY <1>2, <1>4, <1>7 DEF Prompt
  <2> QED
    BY <1>1, <1>2, <1>3, <2>1, <2>2, <2>3, SenderStill, AfterTyped DEF TypedAfter
<1>8. CASE XmodemWait
  <2>1. source.ret = "0" /\ UNCHANGED <<file, line, late, boot, faults>> /\ back' = Left
    BY <1>8 DEF XmodemWait, Running
  <2>2. source' \in Trying
    BY <1>8, <2>1, SourceTyped DEF XmodemWait
  <2>3. xm' \in XmRecord /\ Sends'
    <3>1. CASE xm' = [xm EXCEPT !.state = "START", !.packet_num = 0]
      <4>1. 0 \in 0 .. Packets - 1
        BY ConstantsOf
      <4> QED
        BY <3>1, <4>1, TypedParts DEF XmRecord, XmodemState, Sends
    <3>2. CASE UNCHANGED xm
      BY <3>2, TypedParts DEF Sends
    <3> QED
      BY <1>8, <3>1, <3>2 DEF XmodemWait
  <2>5. sent' \in Seq(1 .. Blocks) /\ cut' \subseteq 1 .. Blocks
    <3>1. sent \in Seq(1 .. Blocks) /\ cut \subseteq 1 .. Blocks
      BY TypedParts
    <3>2. (sent' = <<>> /\ cut' = {}) \/ (sent' = sent /\ cut' = cut)
      BY <1>8 DEF XmodemWait
    <3>3. <<>> \in Seq(1 .. Blocks) /\ {} \subseteq 1 .. Blocks
      OBVIOUS
    <3>4. CASE sent' = <<>> /\ cut' = {}
      BY <3>3, <3>4
    <3>5. CASE sent' = sent /\ cut' = cut
      BY <3>1, <3>5
    <3> QED
      BY <3>2, <3>4, <3>5
  <2>4. SenderTyped
    BY <1>2, <1>3, <2>1, <2>3, <2>5, TypedParts DEF SenderTyped
  <2> QED
    BY <1>1, <1>2, <2>1, <2>2, <2>4, AfterTyped DEF TypedAfter
<1>9. CASE XmodemSend
  <2>1. source.ret = "0" /\ UNCHANGED <<boot, faults>>
    BY <1>9 DEF XmodemSend, Running
  <2>2. PICK ret \in {"0", "1", "EIO", "ETIMEDOUT"} :
          /\ TxTick(ret)
          /\ source' = IF ret = "0" THEN source
                       ELSE IF ret = "1" THEN GoTo("XMODEM_DONE")
                       ELSE [source EXCEPT !.state = "FAILURE", !.ret = ret]
    BY <1>9 DEF XmodemSend
  <2>3. SenderTyped
    BY <2>2, TxTickTyped
  <2>4. source' \in Trying
    BY <1>2, <2>1, <2>2, SourceTyped DEF SourceState
  <2> QED
    BY <1>1, <1>2, <2>1, <2>3, <2>4, AfterTyped DEF TypedAfter
<1>10. ASSUME NEW s \in Trying, NEW l \in Seq(Item), Len(l) <= Room, source.ret = "0",
              LastPrompt(s, l), UNCHANGED <<xm, file, sent, cut, late, boot, faults>>
       PROVE  Typed'
  <2>1. back' = Left
    BY <1>10 DEF LastPrompt
  <2>2. CASE /\ source' = [GoTo("SUCCESS") EXCEPT !.ret = "1"]
             /\ line' = IF Len(l) < Room THEN Append(l, Char("run")) ELSE l
    <3>1. source' \in Trying
      BY <1>10, <2>2, SourceTyped DEF SourceState
    <3>2. line' \in Seq(Item) /\ Len(line') <= Room
      <4>1. Char("run") \in Item
        BY ItemsOf
      <4>2. Append(l, Char("run")) \in Seq(Item) /\ Len(Append(l, Char("run"))) = Len(l) + 1 /\ Len(l) \in Nat
        BY <1>10, <4>1, AppendElements
      <4> QED
        BY <1>10, <2>2, <4>2, ConstantsOf
    <3> QED
      BY <1>1, <1>2, <1>3, <1>10, <2>1, <3>1, <3>2, SenderStill, AfterTyped DEF TypedAfter
  <2>3. CASE source' = s /\ line' = l
    BY <1>1, <1>2, <1>3, <1>10, <2>1, <2>3, SenderStill, AfterTyped DEF TypedAfter
  <2> QED
    BY <1>10, <2>2, <2>3 DEF LastPrompt
<1>11. CASE XmodemDone
  <2>1. source.ret = "0" /\ UNCHANGED <<xm, file, sent, cut, late, boot, faults>>
    BY <1>11 DEF XmodemDone, Running, KeepsXmodem
  <2>2. CASE UNCHANGED <<source, line, back>>
    BY <1>1, <1>2, <2>1, <2>2, SenderStill, AfterTyped DEF TypedAfter
  <2>3. CASE LastPrompt(IF source.kind = "ebl" THEN GoTo("FINAL_PROMPT")
                        ELSE [GoTo("SUCCESS") EXCEPT !.ret = "1"], Written(Char("CR")))
    <3>1. (IF source.kind = "ebl" THEN GoTo("FINAL_PROMPT")
           ELSE [GoTo("SUCCESS") EXCEPT !.ret = "1"]) \in Trying
      BY <2>1, SourceTyped DEF SourceState
    <3> QED
      BY <1>4, <1>10, <2>1, <2>3, <3>1
  <2> QED
    BY <1>11, <2>2, <2>3 DEF XmodemDone
<1>12. CASE FinalPrompt
  <2>1. source.ret = "0" /\ UNCHANGED <<xm, file, sent, cut, late, boot, faults>> /\ LastPrompt(Timeout, line)
    BY <1>12 DEF FinalPrompt, Running, KeepsXmodem
  <2>2. Timeout \in Trying
    BY <2>1, SourceTyped
  <2> QED
    BY <1>2, <1>10, <2>1, <2>2
<1> QED
  BY <1>5, <1>6, <1>7, <1>8, <1>9, <1>11, <1>12 DEF Tick

\* What the module does with an item, by what it has done.
LEMMA TakeCases ==
    ASSUME NEW item, Take(item)
    PROVE  \/ /\ boot.phase = "menu" /\ item.kind = "CR"
              /\ Answer(">", Char(">")) /\ boot' = boot
           \/ /\ boot.phase = "menu" /\ item.kind = "load"
              /\ Answer("C", Char("C")) /\ boot' = [phase |-> "receive", flash |-> <<>>]
           \/ /\ boot.phase = "menu" /\ item.kind = "run"
              /\ back' = back /\ boot' = [boot EXCEPT !.phase = "app"]
           \/ /\ boot.phase = "receive" /\ item.kind = "packet" /\ TakePacket(item)
           \/ /\ boot.phase = "receive" /\ item.kind = "EOT"
              /\ Answer("ACK", item)
              /\ \E phase \in {"app", "menu"} : boot' = [boot EXCEPT !.phase = phase]
           \/ /\ boot.phase = "receive" /\ item.kind = "CAN"
              /\ back' = back /\ boot' = [boot EXCEPT !.phase = "menu"]
           \/ back' = back /\ boot' = boot
BY DEF Take, Says, Acknowledges

LEMMA TakeTyped ==
    ASSUME Typed, NEW item \in Item, Take(item)
    PROVE  boot' \in BootRecord /\ back' \in Seq(Reply) /\ Len(back') <= Room
<1>1. boot \in BootRecord /\ back \in Seq(Reply) /\ Len(back) <= Room
  BY TypedParts DEF BootRecord
<1>2. \A ch \in {"C", ">", "CAN", "NAK", "ACK"}, x \in Item :
          Answer(ch, x) => back' \in Seq(Reply) /\ Len(back') <= Room
  BY AnswerTyped
<1>3. \A ch \in {"C", ">", "CAN"} : Char(ch) \in Item
  BY ItemsOf
<1>4. \A phase \in {"app", "menu", "receive"} :
          /\ [boot EXCEPT !.phase = phase] \in BootRecord
          /\ [phase |-> phase, flash |-> <<>>] \in BootRecord
  BY <1>1 DEF BootRecord
<1>5. ASSUME item.kind = "packet"
      PROVE  [boot EXCEPT !.flash = Append(@, item.block)] \in BootRecord
  <2>1. item.block \in 1 .. Blocks
    BY <1>5, ConstantsOf DEF Item
  <2>2. Append(boot.flash, item.block) \in Seq(1 .. Blocks)
    BY <1>1, <2>1 DEF BootRecord
  <2> QED
    BY <1>1, <2>2 DEF BootRecord
<1>6. ASSUME TakePacket(item), item.kind = "packet"
      PROVE  boot' \in BootRecord /\ back' \in Seq(Reply) /\ Len(back') <= Room
  BY <1>1, <1>2, <1>3, <1>4, <1>5, <1>6 DEF TakePacket, Says, Acknowledges
<1> QED
  BY <1>1, <1>2, <1>3, <1>4, <1>6, TakeCases

LEMMA OtherTyped ==
    ASSUME Typed, ModuleReads \/ ModuleAsks \/ Fault \/ TimePasses
    PROVE  Typed'
<1>1. /\ line \in Seq(Item) /\ Len(line) <= Room /\ back \in Seq(Reply) /\ Len(back) <= Room
      /\ boot \in BootRecord /\ faults \in 0 .. MaxFault /\ source \in Trying
      /\ idle \in 0 .. MaxGap /\ now \in 0 .. Wrap - 1
  BY TypedParts DEF BootRecord
<1>2. CASE ModuleReads
  <2>1. line # <<>> /\ UNCHANGED <<xm, file, now, sent, cut, late, source, idle, faults>>
    BY <1>2 DEF ModuleReads
  <2>2. CASE Take(Head(line)) /\ line' = Tail(line)
    <3>1. boot' \in BootRecord /\ back' \in Seq(Reply) /\ Len(back') <= Room
      BY <2>1, <2>2, LineRead, TakeTyped
    <3> QED
      BY <1>1, <2>1, <2>2, <3>1, LineRead, SenderStill, AfterTyped DEF TypedAfter
  <2>3. CASE Len(line) > 1 /\ line' = Tail(Tail(line)) /\ UNCHANGED <<back, boot>>
    <3>1. line' \in Seq(Item) /\ Len(line') <= Room
      BY <2>3, LineRead2
    <3> QED
      BY <1>1, <2>1, <2>3, <3>1, SenderStill, AfterTyped DEF TypedAfter
  <2> QED
    BY <1>2, <2>2, <2>3 DEF ModuleReads
<1>3. CASE ModuleAsks
  <2>1. UNCHANGED <<xm, file, line, now, sent, cut, late, source, boot, idle, faults>>
    BY <1>3 DEF ModuleAsks
  <2>2. back' \in Seq(Reply) /\ Len(back') <= Room
    BY <1>3, ItemsOf, AnswerTyped DEF ModuleAsks, Says
  <2> QED
    BY <1>1, <2>1, <2>2, SenderStill, AfterTyped DEF TypedAfter
<1>4. CASE Fault
  <2>0. faults < MaxFault /\ faults' = faults + 1 /\ UNCHANGED <<xm, file, now, sent, cut, late, source, idle>>
    BY <1>4 DEF Fault
  <2>1. faults' \in 0 .. MaxFault
    BY <1>1, <2>0, ConstantsOf
  <2>2. line' \in Seq(Item) /\ Len(line') <= Room
    BY <1>1, <1>4, LineRead DEF Fault
  <2>3. back' \in Seq(Reply) /\ Len(back') <= Room
    <3>1. CASE back # <<>> /\ back' = Tail(back)
      <4>1. Left = Tail(back)
        BY <3>1 DEF Left
      <4> QED
        BY <3>1, <4>1, LeftTyped
    <3> QED
      BY <1>1, <1>4, <3>1 DEF Fault
  <2>4. boot' \in BootRecord
    <3>1. \A phase \in {"off", "menu"} : [boot EXCEPT !.phase = phase] \in BootRecord
      BY <1>1 DEF BootRecord
    <3> QED
      BY <1>1, <1>4, <3>1 DEF Fault
  <2> QED
    BY <1>1, <2>0, <2>1, <2>2, <2>3, <2>4, SenderStill, AfterTyped DEF TypedAfter
<1>5. CASE TimePasses
  <2>1. /\ UNCHANGED <<xm, file, line, back, sent, cut, late, boot, faults>>
        /\ idle < MaxGap /\ idle' = idle + 1 /\ now' = (now + 1) % Wrap
        /\ source' = [source EXCEPT !.age = IF @ + 1 \in Waited THEN @ + 1 ELSE @]
    BY <1>5 DEF TimePasses
  <2>2. idle' \in 0 .. MaxGap /\ now' \in 0 .. Wrap - 1
    <3>1. idle < MaxGap /\ idle' = idle + 1 /\ now' = (now + 1) % Wrap
      BY <2>1
    <3>2. idle \in 0 .. MaxGap /\ now \in 0 .. Wrap - 1
      BY <1>1
    <3>3. (now + 1) % Wrap \in 0 .. Wrap - 1
      BY <3>2, ConstantsOf
    <3> QED
      BY <3>1, <3>2, <3>3, ConstantsOf
  <2>3. source' \in Trying
    BY <1>1, <2>1 DEF Trying, SourceRecord
  <2> QED
    BY <1>1, <2>1, <2>2, <2>3, SenderStill, AfterTyped DEF TypedAfter
<1> QED
  BY <1>2, <1>3, <1>4, <1>5

LEMMA StillTyped ==
    ASSUME Typed, UNCHANGED vars
    PROVE  Typed'
BY DEF Typed, TypeOK, XmodemType, SourceType, BootType, Sends, vars, xmodemVars, updateVars

LEMMA InitTyped ==
    ASSUME Init
    PROVE  Typed
<1>1. /\ source \in [kind : {"ebl", "hcs08"}, state : {"INIT"}, tries : {0}, age : {0},
                     ret : {"0"}, from : {0}]
      /\ boot = [phase |-> "app", flash |-> <<>>]
      /\ xm = [state |-> "START", packet_num |-> 0, block |-> 0,
               tries |-> 0, timer |-> 0]
      /\ sent = <<>> /\ cut = {} /\ file = 0 /\ line = <<>> /\ back = <<>> /\ late = FALSE
      /\ now \in 0 .. Wrap - 1 /\ idle = 0 /\ faults = 0
  BY DEF Init, XmodemInit
<1>2. /\ 0 \in 0 .. Packets - 1 /\ 0 \in 0 .. Blocks /\ 0 \in 0 .. Tries /\ 0 \in 0 .. Wrap - 1
      /\ 0 \in 0 .. LoadTries /\ 0 < LoadTries /\ 0 \in Waited /\ 0 \in 0 .. MaxGap /\ 0 \in 0 .. MaxFault
  BY ConstantsOf DEF Waited
<1>3. xm \in XmRecord /\ Sends
  BY <1>1, <1>2 DEF XmRecord, XmodemState, Sends
<1>4. source \in Trying
  BY <1>1, <1>2 DEF Trying, SourceRecord
<1> QED
  <2>1. /\ file \in 0 .. Blocks /\ late \in BOOLEAN /\ idle \in 0 .. MaxGap /\ faults \in 0 .. MaxFault
        /\ line \in Seq(Item) /\ Len(line) <= Room /\ back \in Seq(Reply) /\ Len(back) <= Room
    BY <1>1, <1>2, NothingLeft
  <2>2. boot \in [phase : {"app", "menu", "receive", "off"}, flash : Seq(1 .. Blocks)]
    BY <1>1
  <2> QED
    BY <1>1, <1>3, <1>4, <2>1, <2>2, TypedParts

\* The driver, the sender, the line and the module keep their types, for every file
\* and whatever the timeouts and the numbers of tries are: a try is counted only while
\* one is left (the timeouts of xbee_fw_install_ebl_tick()), a packet in flight has a
\* block of the file, and the module is given blocks of it and nothing else.
THEOREM TypeCorrect == Spec => []TypeOK
<1>1. Init => Typed
  BY InitTyped
<1>2. Typed /\ [Next]_vars => Typed'
  BY TickTyped, OtherTyped, StillTyped DEF Next
<1>3. Typed => TypeOK
  BY DEF Typed
<1> QED
  BY <1>1, <1>2, <1>3, PTL DEF Spec

-----------------------------------------------------------------------------
(* The invariant: a tick of the sender *)

\* The line, for a transfer in which the packets of the blocks in s were written.
LineAt(l, s) ==
    /\ Packed(l, s) /\ ~On(l, "load")
    /\ boot.phase = "receive" => Near(l, Has)

\* What InOrder and CutRead say of the sender's own record, the file being read to f.
Recorded(s, c, f) ==
    /\ \A i, j \in 1 .. Len(s) : i < j => s[i] < s[j]
    /\ \A b \in source.from + 1 .. f : b \in c \/ \E i \in 1 .. Len(s) : s[i] = b
    /\ \A i \in 1 .. Len(s) : s[i] \in (source.from + 1 .. f) \ c
    /\ \A b \in c : b <= f

\* What the module has is a beginning of s.
Beginning(s) == Has <= Len(s) /\ \A i \in 1 .. Has : boot.flash[i] = s[i]

LEMMA InOrderParts ==
    InOrder /\ CutRead <=> Beginning(sent) /\ Recorded(sent, cut, file)
BY DEF InOrder, CutRead, Beginning, Recorded, Has

LEMMA HasNat ==
    ASSUME Typed
    PROVE  Has \in Nat /\ (boot.flash = <<>> => Has = 0)
<1>1. boot.flash \in Seq(1 .. Blocks) /\ Len(<<>>) = 0
  BY TypedParts
<1> QED
  BY <1>1, LenProperties DEF Has

\* The next block is read, and its packet written whole or not.
LEMMA RecordGrows ==
    ASSUME NEW s \in Seq(1 .. Blocks), NEW c \in SUBSET (1 .. Blocks), NEW f \in Nat, f < Blocks,
           source.from \in Nat, source.from <= f, Recorded(s, c, f)
    PROVE  Recorded(Append(s, f + 1), c, f + 1) /\ Recorded(s, c \cup {f + 1}, f + 1)
<1> DEFINE t == Append(s, f + 1)
<1>1. f + 1 \in 1 .. Blocks /\ Blocks \in Nat
  BY ConstantsOf
<1>2. /\ Len(t) = Len(s) + 1 /\ Len(s) \in Nat
      /\ \A i \in 1 .. Len(s) : t[i] = s[i]
      /\ t[Len(s) + 1] = f + 1
  BY <1>1, AppendElements
<1> HIDE DEF t
<1>3. /\ \A b \in source.from + 1 .. f + 1 : b \in source.from + 1 .. f \/ b = f + 1
      /\ source.from + 1 .. f \subseteq source.from + 1 .. f + 1
      /\ f + 1 \in source.from + 1 .. f + 1 /\ f + 1 \notin source.from + 1 .. f
      /\ \A b \in source.from + 1 .. f : b < f + 1
  OBVIOUS
<1>4. f + 1 \notin c /\ \A b \in c : b <= f + 1
  BY DEF Recorded
<1>5. Recorded(t, c, f + 1)
  <2>1. \A i \in 1 .. Len(t) : (i \in 1 .. Len(s) /\ t[i] = s[i]) \/ (i = Len(s) + 1 /\ t[i] = f + 1)
    BY <1>2
  <2>2. \A i, j \in 1 .. Len(t) : i < j => t[i] < t[j]
    <3> SUFFICES ASSUME NEW i \in 1 .. Len(t), NEW j \in 1 .. Len(t), i < j
                 PROVE  t[i] < t[j]
      OBVIOUS
    <3>1. i \in 1 .. Len(s) /\ t[i] = s[i]
      BY <1>2, <2>1
    <3>2. CASE j \in 1 .. Len(s) /\ t[j] = s[j]
      BY <3>1, <3>2 DEF Recorded
    <3>3. CASE t[j] = f + 1
      <4>1. s[i] \in source.from + 1 .. f
        BY <3>1 DEF Recorded
      <4> QED
        BY <1>3, <3>1, <3>3, <4>1
    <3> QED
      BY <2>1, <3>2, <3>3
  <2>3. \A b \in source.from + 1 .. f + 1 : b \in c \/ \E i \in 1 .. Len(t) : t[i] = b
    <3>1. Len(s) + 1 \in 1 .. Len(t) /\ \A i \in 1 .. Len(s) : i \in 1 .. Len(t)
      BY <1>2
    <3> QED
      BY <1>2, <1>3, <3>1 DEF Recorded
  <2>4. \A i \in 1 .. Len(t) : t[i] \in (source.from + 1 .. f + 1) \ c
    BY <1>3, <1>4, <2>1 DEF Recorded
  <2> QED
    BY <1>4, <2>2, <2>3, <2>4 DEF Recorded
<1>6. Recorded(s, c \cup {f + 1}, f + 1)
  <2>1. \A b \in c \cup {f + 1} : b <= f + 1
    BY <1>4
  <2>2. \A i \in 1 .. Len(s) : s[i] \in (source.from + 1 .. f + 1) \ (c \cup {f + 1})
    BY <1>3 DEF Recorded
  <2> QED
    BY <1>3, <2>1, <2>2 DEF Recorded
<1> QED
  BY <1>5, <1>6 DEF t

LEMMA WrittenKeeps ==
    ASSUME Typed, NEW s, LineAt(line, s), NEW x \in Item, ~IsPacket(x), x.kind # "load"
    PROVE  LineAt(Written(x), s)
BY CharWritten DEF LineAt

LEMMA FailKeeps ==
    ASSUME Typed, NEW x \in XmRecord, NEW error, NEW ret, Fail(x, error, ret),
           NEW s, LineAt(line, s)
    PROVE  LineAt(line', s) /\ xm'.state = "FAILURE" /\ ret = error
<1>1. LineAt(Written(Char("CAN")), s)
  BY ItemsOf, WrittenKeeps
<1>2. Part(line', Written(Char("CAN")), 0) /\ xm'.state = "FAILURE" /\ ret = error
  BY FailTyped
<1> QED
  BY <1>1, <1>2, PartKeeps DEF LineAt

\* The packet of the last block in s goes out whole: the transfer is at WAIT_ACK.
LEMMA WholeWrite ==
    ASSUME Typed, NEW x \in XmRecord, NEW s \in Seq(1 .. Blocks), Len(s) \in Nat, Len(s) > 0,
           LineAt(line, s), x.block = s[Len(s)], x.packet_num = Len(s) % Packets,
           Followed(line, Len(s) - 1), NEW b,
           boot.phase = "receive" => Has <= Len(s) /\ Len(s) <= Has + Room + 1,
           boot.phase = "receive" /\ Heard(b, "ACK") => Len(s) <= Has + Room,
           line' = Append(line, Packet(x, Len(s))),
           xm' = [x EXCEPT !.state = "WAIT_ACK", !.timer = now]
    PROVE  LineAt(line', s) /\ SenderAt(xm', s, line', b)
<1> DEFINE p == Packet(x, Len(s))
<1>1. Len(s) \in 1 .. Len(s) /\ s[Len(s)] \in 1 .. Blocks
  <2>1. Len(s) \in 1 .. Len(s)
    OBVIOUS
  <2> QED
    BY <2>1, ElementOfSeq
<1>2. /\ p \in Item /\ IsPacket(p) /\ p.nth = Len(s)
      /\ p.num = Len(s) % Packets /\ p.block = s[Len(s)]
  <2>1. x.block \in 1 .. Blocks
    BY <1>1
  <2>2. \A n \in 1 .. Blocks : n > 0
    BY ConstantsOf
  <2>3. x.block > 0
    BY <2>1, <2>2
  <2> QED
    BY <2>3, ItemsOf
<1>3. line \in Seq(Item) /\ Packed(line, s) /\ ~On(line, "load")
  BY TypedParts DEF LineAt
<1>4. line' = Append(line, p)
  OBVIOUS
<1> HIDE DEF p
<1>5. /\ Packed(line', s) /\ ~On(line', "load") /\ Followed(line', Len(s))
      /\ \A n : Near(line, n) /\ Len(s) \in n .. n + Room + 1 => Near(line', n)
  BY <1>2, <1>3, <1>4, PacketAppended
<1>6. boot.phase = "receive" => Near(line', Has)
  <2> SUFFICES ASSUME boot.phase = "receive" PROVE Near(line', Has)
    OBVIOUS
  <2>1. Len(s) \in Has .. Has + Room + 1 /\ Near(line, Has)
    BY HasNat, ConstantsOf DEF LineAt
  <2> QED
    BY <1>5, <2>1
<1>7. xm'.state = "WAIT_ACK" /\ xm'.block = s[Len(s)] /\ xm'.packet_num = Len(s) % Packets
  BY DEF XmRecord
<1> QED
  BY <1>5, <1>6, <1>7 DEF LineAt, SenderAt

\* A part of it goes out, or nothing.
LEMMA PartWritten ==
    ASSUME Typed, NEW s, LineAt(line, s), NEW f \in Int, Followed(line, f)
    PROVE  LineAt(Written(Char("part")), s) /\ Followed(Written(Char("part")), f)
<1>1. Char("part") \in Item /\ ~IsPacket(Char("part")) /\ Char("part").kind = "part"
  BY ItemsOf
<1> QED
  BY <1>1, WrittenKeeps, CharWritten

\* What a tick that returns ret keeps.
SenderKeeps(ret) ==
    /\ LineAt(line', sent') /\ source.from <= file' /\ Recorded(sent', cut', file')
    /\ Len(sent) <= Len(sent') /\ \A i \in 1 .. Len(sent) : sent'[i] = sent[i]
    /\ ret = "0" => SenderAt(xm', sent', line', back') /\ AckedIn(back')
    /\ ret \in {"0", "1"} /\ ~late' => WholeAt(xm', file', sent')
    /\ ret = "1" => xm'.state = "SUCCESS"

\* What the invariant says of the sender.
LEMMA SenderHas ==
    ASSUME IInv, source.state = "XMODEM_SEND"
    PROVE  /\ Typed /\ LineAt(line, sent) /\ source.from <= file /\ AckedIn(back)
           /\ Recorded(sent, cut, file)
           /\ xm.state \notin {"FAILURE", "SUCCESS"} => SenderAt(xm, sent, line, back)
           /\ ~late => WholeAt(xm, file, sent)
           /\ file \in Nat /\ source.from \in Nat /\ Has \in Nat /\ Len(sent) \in Nat
           /\ file <= Blocks /\ xm \in XmRecord
<1>1. Typed
  BY DEF IInv
<1>2. Recorded(sent, cut, file)
  BY InOrderParts DEF IInv
<1> QED
  BY <1>1, <1>2, XmTyped, SourceFields, HasNat
     DEF IInv, NoLoad, After, Line, LineAt, Acked, Sender, Whole

\* A tick that reads no block and writes no packet whole leaves the record.
LEMMA RecordStill ==
    ASSUME IInv, source.state = "XMODEM_SEND", UNCHANGED <<file, sent, cut>>
    PROVE  /\ source.from <= file' /\ Recorded(sent', cut', file')
           /\ Len(sent) <= Len(sent') /\ \A i \in 1 .. Len(sent) : sent'[i] = sent[i]
BY SenderHas

\* The answers that are left.
LEMMA LeftKeeps ==
    ASSUME Typed
    PROVE  /\ Heard(Left, "ACK") => Heard(back, "ACK")
           /\ AckedIn(back) => AckedIn(Left)
           /\ Got = "ACK" => Heard(back, "ACK") /\ back # <<>> /\ back[1].ch = "ACK"
<1>1. Heard(Left, "ACK") => Heard(back, "ACK")
  BY LeftTyped
<1>2. ASSUME AckedIn(back) PROVE AckedIn(Left)
  <2>1. PICK d : Part(Left, back, d)
    BY LeftTyped
  <2>2. \A i \in 1 .. Len(Left) : i + d \in 1 .. Len(back) /\ Left[i] = back[i + d]
    BY <2>1 DEF Part
  <2> QED
    BY <1>2, <2>2 DEF AckedIn
<1>3. ASSUME Got = "ACK" PROVE Heard(back, "ACK") /\ back # <<>> /\ back[1].ch = "ACK"
  <2>1. back # <<>> /\ Head(back).ch = "ACK"
    BY <1>3 DEF Got
  <2> QED
    BY <2>1, LeftTyped DEF Heard
<1> QED
  BY <1>1, <1>2, <1>3

\* The sender reads the next block, and writes it whole, in part, or gives up.
LEMMA SendKeeps ==
    ASSUME IInv, source.state = "XMODEM_SEND",
           NEW num \in 0 .. Packets - 1, NEW rest \in Seq(Reply), Len(rest) <= Room,
           NEW ret, Send(num, rest, ret), UNCHANGED late,
           num = (Len(sent) + 1) % Packets,
           Followed(line, Len(sent)), Heard(rest, "ACK") => Heard(back, "ACK"), AckedIn(rest),
           boot.phase = "receive" => Has <= Len(sent) /\ Len(sent) <= Has + Room,
           ~late => Len(sent) <= Has
    PROVE  SenderKeeps(ret)
<1> DEFINE x == [xm EXCEPT !.state = "SEND", !.packet_num = num, !.tries = Tries]
<1>0. /\ Typed /\ LineAt(line, sent) /\ source.from <= file /\ Recorded(sent, cut, file)
      /\ file \in Nat /\ source.from \in Nat /\ Has \in Nat /\ Len(sent) \in Nat
      /\ file <= Blocks /\ xm \in XmRecord /\ line \in Seq(Item) /\ Blocks \in Nat /\ Room \in Nat
      /\ sent \in Seq(1 .. Blocks) /\ cut \in SUBSET (1 .. Blocks)
  BY SenderHas, TypedParts, ConstantsOf
<1>x. x \in XmRecord /\ x.state = "SEND" /\ x.packet_num = num
  <2>1. Tries \in 0 .. Tries /\ "SEND" \in XmodemState
    BY ConstantsOf DEF XmodemState
  <2> QED
    BY <1>0, <2>1 DEF XmRecord
<1>1. CASE /\ file < Blocks /\ file' = file + 1 /\ back' = <<>>
           /\ Sending([x EXCEPT !.block = file + 1], Len(sent) + 1, ret)
           /\ IF xm'.state = "WAIT_ACK"
              THEN sent' = Append(sent, file + 1) /\ UNCHANGED cut
              ELSE cut' = cut \cup {file + 1} /\ UNCHANGED sent
  <2> DEFINE y == [x EXCEPT !.block = file + 1]
             s == Append(sent, file + 1)
  <2>1. file' = file + 1 /\ back' = <<>> /\ file < Blocks /\ source.from <= file + 1
    BY <1>0, <1>1
  <2>2. y \in XmRecord /\ y.block = file + 1 /\ y.packet_num = num /\ y.state = "SEND"
    <3>1. file + 1 \in 0 .. Blocks
      BY <1>0, <2>1
    <3> QED
      BY <1>x, <3>1 DEF XmRecord
  <2>3. Recorded(s, cut, file + 1) /\ Recorded(sent, cut \cup {file + 1}, file + 1)
    BY <1>0, <2>1, RecordGrows
  <2>4. /\ s \in Seq(1 .. Blocks) /\ Len(s) = Len(sent) + 1 /\ s[Len(sent) + 1] = file + 1
        /\ \A i \in 1 .. Len(sent) : s[i] = sent[i]
    <3>1. file + 1 \in 1 .. Blocks
      BY <1>0, <2>1
    <3> QED
      BY <1>0, <3>1, AppendElements
  <2>5. LineAt(line, s)
    <3>1. file + 1 \in 1 .. Blocks /\ Packed(line, sent)
      BY <1>0, <2>1 DEF LineAt
    <3>2. Packed(line, s)
      BY <1>0, <3>1, PacketsGrow
    <3> QED
      BY <1>0, <3>2 DEF LineAt
  <2>6. ~Heard(<<>>, "ACK") /\ AckedIn(<<>>)
    BY DEF Heard, AckedIn
  <2>7. Sending(y, Len(sent) + 1, ret)
    BY <1>1
  <2>8. IF xm'.state = "WAIT_ACK"
        THEN sent' = s /\ UNCHANGED cut
        ELSE cut' = cut \cup {file + 1} /\ UNCHANGED sent
    BY <1>1
  <2> HIDE DEF x, y, s
  <2>9. CASE /\ Len(line) < Room /\ line' = Append(line, Packet(y, Len(sent) + 1))
             /\ xm' = [y EXCEPT !.state = "WAIT_ACK", !.timer = now] /\ ret = "0"
    <3>1. xm'.state = "WAIT_ACK"
      BY <2>2, <2>9 DEF XmRecord
    <3>2. sent' = s /\ cut' = cut
      BY <2>8, <3>1
    <3>3. /\ Len(s) \in Nat /\ Len(s) > 0 /\ y.block = s[Len(s)] /\ y.packet_num = Len(s) % Packets
          /\ Len(s) - 1 = Len(sent)
      BY <1>0, <2>2, <2>4
    <3>4. /\ boot.phase = "receive" => Has <= Len(s) /\ Len(s) <= Has + Room + 1
          /\ Followed(line, Len(s) - 1)
      BY <1>0, <2>4, <3>3
    <3>5. line' = Append(line, Packet(y, Len(s)))
      BY <2>4, <2>9
    <3>6. LineAt(line', s) /\ SenderAt(xm', s, line', <<>>)
      BY <1>0, <2>2, <2>4, <2>5, <2>6, <2>9, <3>3, <3>4, <3>5, WholeWrite
    <3>7. WholeAt(xm', file', s)
      BY <3>1 DEF WholeAt
    <3>8. Len(sent) <= Len(s)
      BY <1>0, <2>4
    <3> QED
      BY <2>1, <2>3, <2>4, <2>6, <2>9, <3>2, <3>6, <3>7, <3>8 DEF SenderKeeps
  <2>10. CASE line' = Written(Char("part")) /\ xm' = y /\ ret = "0"
    <3>1. xm'.state = "SEND" /\ xm'.packet_num = (Len(sent) + 1) % Packets
      BY <2>2, <2>10
    <3>2. sent' = sent /\ cut' = cut \cup {file + 1}
      BY <2>8, <3>1
    <3>3. LineAt(line', sent) /\ Followed(line', Len(sent))
      BY <1>0, <2>10, PartWritten
    <3>4. SenderAt(xm', sent, line', <<>>)
      <4>1. boot.phase = "receive" => Len(sent) <= Has + Room + 1
        BY <1>0
      <4> QED
        BY <3>1, <3>3, <4>1 DEF SenderAt
    <3>5. ~late' => WholeAt(xm', file', sent)
      BY <3>1 DEF WholeAt
    <3>6. Len(sent) <= Len(sent)
      BY <1>0
    <3> QED
      BY <2>1, <2>3, <2>6, <2>10, <3>2, <3>3, <3>4, <3>5, <3>6 DEF SenderKeeps
  <2>11. CASE Fail(y, "EIO", ret)
    <3>1. LineAt(line', sent) /\ xm'.state = "FAILURE" /\ ret = "EIO"
      BY <1>0, <2>2, <2>11, FailKeeps
    <3>2. sent' = sent /\ cut' = cut \cup {file + 1}
      BY <2>8, <3>1
    <3>3. Len(sent) <= Len(sent)
      BY <1>0
    <3> QED
      BY <2>1, <2>3, <3>1, <3>2, <3>3 DEF SenderKeeps
  <2> QED
    BY <2>7, <2>9, <2>10, <2>11 DEF Sending
<1>2. CASE /\ file = Blocks /\ xm' = [x EXCEPT !.state = "EOF"]
           /\ back' = rest /\ ret = "0" /\ UNCHANGED <<file, line, sent, cut>>
  <2>1. xm'.state = "EOF"
    BY <1>x, <1>2 DEF XmRecord
  <2> HIDE DEF x
  <2>2. SenderAt(xm', sent, line, rest)
    <3>1. boot.phase = "receive" => Len(sent) <= Has + Room + 1
      BY <1>0
    <3> QED
      BY <1>0, <2>1, <3>1 DEF SenderAt
  <2>3. ~late' => WholeAt(xm', file, sent)
    BY <1>2, <2>1 DEF WholeAt
  <2> QED
    BY <1>0, <1>2, <2>2, <2>3, RecordStill DEF SenderKeeps
<1>3. CASE /\ Fail(x, "EIO", ret)
           /\ back' = rest /\ UNCHANGED <<file, sent, cut>>
  <2>1. LineAt(line', sent) /\ ret = "EIO"
    BY <1>0, <1>x, <1>3, FailKeeps
  <2> QED
    BY <1>0, <1>3, <2>1, RecordStill DEF SenderKeeps
<1> QED
  BY <1>1, <1>2, <1>3 DEF Send

LEMMA AwaitKeeps ==
    ASSUME IInv, source.state = "XMODEM_SEND", NEW state, NEW wait, NEW again, NEW ret,
           Await(state, wait, again, ret),
           \/ state = "WAIT_ACK" /\ again = "RESEND"
           \/ state = "FINAL_ACK" /\ again = "EOF"
    PROVE  SenderKeeps(ret)
<1>0. /\ Typed /\ LineAt(line, sent) /\ xm \in XmRecord
      /\ xm.state = state /\ SenderAt(xm, sent, line, back)
      /\ ~late => WholeAt(xm, file, sent)
  BY SenderHas DEF Await
<1>1. back' = Left /\ UNCHANGED <<file, sent, cut, late>>
  BY DEF Await
<1>2. AckedIn(Left) /\ (Heard(Left, "ACK") => Heard(back, "ACK"))
  BY <1>0, SenderHas, LeftKeeps
<1>3. CASE ret = "0" /\ UNCHANGED <<xm, line>>
  <2>1. SenderAt(xm, sent, line, Left)
    BY <1>0, <1>2 DEF SenderAt
  <2> QED
    BY <1>0, <1>1, <1>2, <1>3, <2>1, RecordStill DEF SenderKeeps
<1>4. CASE Retry(again, ret)
  <2>1. CASE /\ xm' = [xm EXCEPT !.state = again, !.tries = @ - 1] /\ ret = "0" /\ UNCHANGED line
    <3>1. xm'.state = again /\ xm'.block = xm.block /\ xm'.packet_num = xm.packet_num
      BY <1>0, <2>1 DEF XmRecord
    <3>2. SenderAt(xm', sent, line, Left)
      BY <1>0, <1>2, <3>1 DEF SenderAt
    <3>3. ~late => WholeAt(xm', file, sent)
      BY <1>0, <3>1 DEF WholeAt
    <3> QED
      BY <1>0, <1>1, <1>2, <2>1, <3>2, <3>3, RecordStill DEF SenderKeeps
  <2>2. CASE Fail([xm EXCEPT !.tries = 0], "ETIMEDOUT", ret)
    <3>1. [xm EXCEPT !.tries = 0] \in XmRecord
      <4>1. 0 \in 0 .. Tries
        BY ConstantsOf
      <4> QED
        BY <1>0, <4>1 DEF XmRecord
    <3>2. LineAt(line', sent) /\ ret = "ETIMEDOUT"
      BY <1>0, <2>2, <3>1, FailKeeps
    <3> QED
      BY <1>0, <1>1, <3>2, RecordStill DEF SenderKeeps
  <2> QED
    BY <1>4, <2>1, <2>2 DEF Retry
<1> QED
  BY <1>3, <1>4 DEF Await

LEMMA TxTickKeeps ==
    ASSUME IInv, source.state = "XMODEM_SEND", NEW ret, TxTick(ret)
    PROVE  SenderKeeps(ret)
<1>0. /\ Typed /\ LineAt(line, sent) /\ AckedIn(back) /\ xm \in XmRecord
      /\ xm.state \notin {"FAILURE", "SUCCESS"} => SenderAt(xm, sent, line, back)
      /\ ~late => WholeAt(xm, file, sent)
      /\ file \in Nat /\ Has \in Nat /\ Len(sent) \in Nat /\ sent \in Seq(1 .. Blocks)
      /\ xm.packet_num \in 0 .. Packets - 1 /\ line \in Seq(Item)
      /\ back \in Seq(Reply) /\ Len(back) <= Room
  BY SenderHas, TypedParts DEF XmRecord
<1>1. /\ Left \in Seq(Reply) /\ Len(Left) <= Room /\ AckedIn(Left)
      /\ Heard(Left, "ACK") => Heard(back, "ACK")
      /\ Got = "ACK" => Heard(back, "ACK") /\ back # <<>> /\ back[1].ch = "ACK"
  BY <1>0, LeftTyped, LeftKeeps
<1>2. CASE Start(ret)
  <2>1. late' = late /\ xm.state = "START"
    BY <1>2 DEF Start
  <2>2. Len(sent) = 0 /\ Has = 0 /\ Followed(line, Len(sent))
    BY <1>0, <2>1, HasNat DEF SenderAt
  <2>3. CASE Send(1 % Packets, Left, ret)
    <3>1. 1 % Packets \in 0 .. Packets - 1 /\ 1 % Packets = (Len(sent) + 1) % Packets
      <4>1. Len(sent) + 1 = 1
        BY <2>2
      <4>2. 1 % Packets \in 0 .. Packets - 1
        BY ConstantsOf
      <4> QED
        BY <4>1, <4>2
    <3>2. Has <= Len(sent) /\ Len(sent) <= Has + Room /\ Len(sent) <= Has
      BY <1>0, <2>2, ConstantsOf
    <3> QED
      BY <1>1, <2>1, <2>2, <2>3, <3>1, <3>2, SendKeeps
  <2>4. CASE back' = Left /\ ret = "0" /\ UNCHANGED <<xm, file, line, sent, cut>>
    <3>1. SenderAt(xm, sent, line, Left)
      BY <1>0, <1>1, <2>1 DEF SenderAt
    <3> QED
      BY <1>0, <1>1, <2>1, <2>4, <3>1, RecordStill DEF SenderKeeps
  <2> QED
    BY <1>2, <2>3, <2>4 DEF Start
<1>3. CASE NextPacket(ret)
  <2>1. late' = late /\ xm.state = "SEND" /\ Send(xm.packet_num, back, ret)
    BY <1>3 DEF NextPacket
  <2>2. /\ xm.packet_num = (Len(sent) + 1) % Packets /\ Followed(line, Len(sent))
        /\ boot.phase = "receive" => Has <= Len(sent) /\ Len(sent) <= Has + Room
        /\ ~late => Len(sent) <= Has
    BY <1>0, <2>1 DEF SenderAt, WholeAt
  <2> QED
    BY <1>0, <2>1, <2>2, SendKeeps
<1>4. CASE Resend(ret)
  <2>1. Sending(xm, Len(sent), ret) /\ UNCHANGED <<file, back, sent, cut, late>> /\ xm.state = "RESEND"
    BY <1>4 DEF Resend
  <2>2. SenderAt(xm, sent, line, back)
    BY <1>0, <2>1
  <2>3. /\ Len(sent) > 0 /\ xm.block = sent[Len(sent)] /\ xm.packet_num = Len(sent) % Packets
        /\ Followed(line, Len(sent)) /\ Len(sent) \in Int
        /\ boot.phase = "receive" => Has <= Len(sent) /\ Len(sent) <= Has + Room + 1
        /\ boot.phase = "receive" /\ Heard(back, "ACK") => Len(sent) <= Has + Room
    BY <1>0, <2>1, <2>2 DEF SenderAt
  <2>4. CASE /\ line' = Append(line, Packet(xm, Len(sent)))
             /\ xm' = [xm EXCEPT !.state = "WAIT_ACK", !.timer = now] /\ ret = "0"
    <3>1. xm'.state = "WAIT_ACK"
      BY <1>0, <2>4 DEF XmRecord
    <3>2. Followed(line, Len(sent) - 1)
      BY <1>0, <2>3, FollowedLess
    <3>3. LineAt(line', sent) /\ SenderAt(xm', sent, line', back)
      BY <1>0, <2>3, <2>4, <3>2, WholeWrite
    <3> QED
      BY <1>0, <2>1, <2>4, <3>1, <3>3, RecordStill DEF SenderKeeps, WholeAt
  <2>5. CASE line' = Written(Char("part")) /\ xm' = xm /\ ret = "0"
    <3>1. LineAt(line', sent) /\ Followed(line', Len(sent))
      BY <1>0, <2>3, <2>5, PartWritten
    <3>2. SenderAt(xm', sent, line', back)
      BY <2>1, <2>2, <2>5, <3>1 DEF SenderAt
    <3>3. WholeAt(xm', file, sent)
      BY <2>1, <2>5 DEF WholeAt
    <3> QED
      BY <1>0, <2>1, <2>5, <3>1, <3>2, <3>3, RecordStill DEF SenderKeeps
  <2>6. CASE Fail(xm, "EIO", ret)
    <3>1. LineAt(line', sent) /\ ret = "EIO"
      BY <1>0, <2>6, FailKeeps
    <3> QED
      BY <2>1, <3>1, RecordStill DEF SenderKeeps
  <2> QED
    BY <2>1, <2>4, <2>5, <2>6 DEF Sending
<1>5. CASE WaitAck(ret)
  <2>1. CASE Await("WAIT_ACK", AckWait, "RESEND", ret)
    BY <2>1, AwaitKeeps
  <2>2. CASE /\ xm.state = "WAIT_ACK" /\ Got = "ACK"
             /\ Taken(Packet(xm, Len(sent))) /\ xm' = AckTaken
             /\ back' = Left /\ ret = "0" /\ UNCHANGED <<file, line, sent, cut>>
    <3>1. SenderAt(xm, sent, line, back) /\ Heard(back, "ACK") /\ back # <<>> /\ back[1].ch = "ACK"
      BY <1>0, <1>1, <2>2
    <3>2. xm'.state = "SEND" /\ xm'.packet_num = (xm.packet_num + 1) % Packets
      BY <1>0, <2>2 DEF AckTaken, XmRecord
    <3>3. xm'.packet_num = (Len(sent) + 1) % Packets
      <4>1. xm.packet_num = Len(sent) % Packets
        BY <2>2, <3>1 DEF SenderAt
      <4>2. ((Len(sent) % Packets) + 1) % Packets = (Len(sent) + 1) % Packets
        BY <1>0, ConstantsOf, ModNext
      <4> QED
        BY <3>2, <4>1, <4>2
    <3>4. SenderAt(xm', sent, line, Left)
      BY <2>2, <3>1, <3>2, <3>3 DEF SenderAt
    <3>5. ASSUME ~late' PROVE WholeAt(xm', file, sent)
      <4>1. Head(back).of = Packet(xm, Len(sent))
        BY <2>2, <3>5 DEF Taken
      <4>2. back[1].of = Packet(xm, Len(sent)) /\ 1 \in 1 .. Len(back)
        BY <1>0, <3>1, <4>1, LeftTyped
      <4>3. IsPacket(back[1].of) /\ back[1].of.nth = Len(sent)
        BY <4>2 DEF Packet, IsPacket
      <4>4. Len(sent) <= Has
        BY <1>0, <3>1, <4>2, <4>3 DEF AckedIn
      <4> QED
        BY <3>2, <4>4 DEF WholeAt
    <3> QED
      BY <1>0, <1>1, <2>2, <3>4, <3>5, RecordStill DEF SenderKeeps
  <2> QED
    BY <1>5, <2>1, <2>2 DEF WaitAck
<1>6. CASE Eof(ret)
  <2>1. /\ xm.state = "EOF" /\ line' = Written(Char("EOT")) /\ ret = "0"
        /\ xm' = [xm EXCEPT !.state = "FINAL_ACK", !.timer = now]
        /\ UNCHANGED <<file, back, sent, cut, late>>
    BY <1>6 DEF Eof
  <2>2. Char("EOT") \in Item /\ ~IsPacket(Char("EOT")) /\ Char("EOT").kind = "EOT"
    BY ItemsOf
  <2>3. LineAt(line', sent)
    BY <1>0, <2>1, <2>2, WrittenKeeps
  <2>4. Followed(line', Len(sent))
    <3>1. Followed(line, Len(sent)) /\ Len(sent) \in Int
      BY <1>0, <2>1 DEF SenderAt
    <3> QED
      BY <1>0, <2>1, <2>2, <3>1, CharWritten
  <2>5. xm'.state = "FINAL_ACK"
    BY <1>0, <2>1 DEF XmRecord
  <2>6. SenderAt(xm', sent, line', back)
    BY <1>0, <2>1, <2>4, <2>5 DEF SenderAt
  <2> QED
    BY <1>0, <2>1, <2>3, <2>5, <2>6, RecordStill DEF SenderKeeps, WholeAt
<1>7. CASE FinalAck(ret)
  <2>1. CASE Await("FINAL_ACK", FinalWait, "EOF", ret)
    BY <2>1, AwaitKeeps
  <2>2. CASE /\ xm.state = "FINAL_ACK"
             /\ Taken(Char("EOT")) /\ xm' = [xm EXCEPT !.state = "SUCCESS"]
             /\ back' = Left /\ ret = "1" /\ UNCHANGED <<file, line, sent, cut>>
    <3>1. xm'.state = "SUCCESS"
      BY <1>0, <2>2 DEF XmRecord
    <3>2. ~late' => ~late
      BY <2>2 DEF Taken
    <3> QED
      BY <1>0, <2>2, <3>1, <3>2, RecordStill DEF SenderKeeps, WholeAt
  <2> QED
    BY <1>7, <2>1, <2>2 DEF FinalAck
<1>8. CASE Over(ret)
  BY <1>0, <1>8, RecordStill DEF Over, SenderKeeps
<1> QED
  BY <1>2, <1>3, <1>4, <1>5, <1>6, <1>7, <1>8 DEF TxTick

-----------------------------------------------------------------------------
(* The invariant: the other steps *)

\* A tick of the driver that is not one of the sender: what is left to show.
LEMMA DriverKeeps ==
    ASSUME IInv, Typed', UNCHANGED <<file, sent, cut, late, boot>>, source'.from = source.from,
           source'.state # "XMODEM_SEND",
           Packed(line', sent),
           boot.phase = "receive" => Near(line', Has),
           source'.state \in After => ~On(line', "load"),
           source'.state \in {"XMODEM_DONE", "FINAL_PROMPT", "SUCCESS"} =>
               source.state \in {"XMODEM_DONE", "FINAL_PROMPT", "SUCCESS"},
           Early'
    PROVE  IInv'
<1>1. Has' = Has
  BY DEF Has
<1>2. InOrder' /\ CutRead' /\ (source.from <= file)'
  BY DEF IInv, InOrder, CutRead
<1>3. Line'
  BY <1>1 DEF Line
<1>4. Whole'
  BY <1>1 DEF IInv, Whole
<1> QED
  BY <1>2, <1>3, <1>4 DEF IInv, Sender, Acked, NoLoad

\* What the driver makes of its source keeps where the transfer began.
LEMMA SourceKeeps ==
    ASSUME Typed
    PROVE  /\ \A state \in SourceState :
                 /\ GoTo(state).state = state /\ GoTo(state).from = source.from
                 /\ [GoTo(state) EXCEPT !.ret = "1"].state = state
                 /\ [GoTo(state) EXCEPT !.ret = "1"].from = source.from
           /\ Timeout.state \in {source.state, "RESET"} /\ Timeout.from = source.from
           /\ [GoTo("BREAK") EXCEPT !.tries = IF source.state = "INIT" THEN 0 ELSE @].state = "BREAK"
           /\ [GoTo("BREAK") EXCEPT !.tries = IF source.state = "INIT" THEN 0 ELSE @].from = source.from
           /\ [source EXCEPT !.state = "XMODEM_SEND", !.from = file].state = "XMODEM_SEND"
           /\ [source EXCEPT !.state = "XMODEM_SEND", !.from = file].from = file
           /\ \A ret : /\ [source EXCEPT !.state = "FAILURE", !.ret = ret].state = "FAILURE"
                       /\ [source EXCEPT !.state = "FAILURE", !.ret = ret].from = source.from
<1>1. source \in SourceRecord
  BY SourceFields
<1> QED
  BY <1>1 DEF GoTo, Timeout, SourceRecord

LEMMA ResetKeeps ==
    ASSUME IInv, Typed', Reset
    PROVE  IInv'
<1>1. /\ source'.state = "BREAK" /\ source'.from = source.from /\ line' = <<>>
      /\ UNCHANGED <<xm, file, sent, cut, late, back>>
  BY SourceKeeps DEF Reset, KeepsXmodem, IInv
<1>2. boot'.phase # "receive" /\ boot'.flash = boot.flash
  <2>1. boot \in BootRecord
    BY TypedParts DEF IInv, BootRecord
  <2> QED
    BY <2>1 DEF Reset, BootRecord
<1>3. Packed(<<>>, sent) /\ (\A kind : ~On(<<>>, kind))
  BY DEF Packed, On
<1>4. Line' /\ Early'
  BY <1>1, <1>2, <1>3 DEF Line, Early
<1>5. InOrder' /\ CutRead' /\ (source.from <= file)'
  BY <1>1, <1>2 DEF IInv, InOrder, CutRead
<1> QED
  BY <1>1, <1>4, <1>5 DEF IInv, Sender, Acked, Whole, NoLoad, After

LEMMA BreakKeeps ==
    ASSUME IInv, Typed', Break
    PROVE  IInv'
<1>0. Typed /\ source.state = "BREAK" /\ UNCHANGED <<xm, file, sent, cut, late, boot>>
  BY DEF IInv, Break, Running, KeepsXmodem
<1>1. /\ ~On(line, "packet") /\ ~On(line, "EOT") /\ ~On(line, "load")
      /\ boot.phase # "receive" /\ Packed(line, sent)
  BY <1>0 DEF IInv, Early, Line
<1>2. CASE source' = GoTo("PROMPT") /\ back' = <<>> /\ line' = Written(Char("CR"))
  <2>1. source'.state = "PROMPT" /\ source'.from = source.from
    BY <1>0, <1>2, SourceKeeps DEF SourceState
  <2>2. Char("CR") \in Item /\ ~IsPacket(Char("CR")) /\ Char("CR").kind = "CR"
    BY ItemsOf
  <2>3. /\ Packed(line', sent)
        /\ ~On(line', "packet") /\ ~On(line', "EOT") /\ ~On(line', "load")
    BY <1>0, <1>1, <1>2, <2>2, CharWritten
  <2>4. Early'
    <3>1. ~Heard(<<>>, "C") /\ ~Heard(<<>>, "ACK")
      BY DEF Heard
    <3> QED
      BY <1>0, <1>1, <1>2, <2>1, <2>3, <3>1 DEF Early
  <2> QED
    BY <1>0, <1>1, <2>1, <2>3, <2>4, DriverKeeps DEF After
<1>3. CASE source' = Timeout /\ UNCHANGED <<line, back>>
  <2>1. source'.state \in {"BREAK", "RESET"} /\ source'.from = source.from
    BY <1>0, <1>3, SourceKeeps
  <2>2. Early'
    BY <1>0, <1>1, <1>3, <2>1 DEF Early
  <2> QED
    BY <1>0, <1>1, <1>3, <2>1, <2>2, DriverKeeps DEF After
<1> QED
  BY <1>2, <1>3 DEF Break

\* The command to receive goes out on a line that has neither it nor a packet.
LEMMA LoadWritten ==
    ASSUME Typed, ~On(line, "packet"), ~On(line, "load"), NEW s
    PROVE  /\ Packed(Written(Char("load")), s)
           /\ \A kind : kind # "load" /\ ~On(line, kind) => ~On(Written(Char("load")), kind)
<1>1. Char("load") \in Item /\ ~IsPacket(Char("load")) /\ Char("load").kind = "load"
  BY ItemsOf
<1>2. \A i \in 1 .. Len(line) : line[i].kind # "load" /\ ~IsPacket(line[i])
  BY DEF On, IsPacket
<1>3. ASSUME Len(line) < Room
      PROVE  Packed(Written(Char("load")), s)
  <2> DEFINE m == Append(line, Char("load"))
  <2>1. /\ Len(m) = Len(line) + 1 /\ Len(line) \in Nat
        /\ \A i \in 1 .. Len(line) : m[i] = line[i]
        /\ m[Len(line) + 1] = Char("load")
    BY <1>1, TypedParts, AppendElements
  <2> HIDE DEF m
  <2>2. \A i \in 1 .. Len(m) :
            (i \in 1 .. Len(line) /\ m[i] = line[i]) \/ (i = Len(line) + 1 /\ m[i] = Char("load"))
    BY <2>1
  <2>3. \A i \in 1 .. Len(m) : ~IsPacket(m[i])
    BY <1>1, <1>2, <2>2
  <2>4. \A i, j \in 1 .. Len(m) : i # j /\ m[i].kind = "load" => m[j].kind # "load"
    BY <1>2, <2>2
  <2>5. Packed(m, s)
    BY <2>3, <2>4 DEF Packed
  <2>6. Written(Char("load")) = m
    BY <1>3 DEF Written, m
  <2> QED
    BY <2>5, <2>6
<1>4. ASSUME ~(Len(line) < Room)
      PROVE  Packed(Written(Char("load")), s)
  BY <1>2, <1>4 DEF Packed, Written
<1>5. \A kind : kind # "load" /\ ~On(line, kind) => ~On(Written(Char("load")), kind)
  BY <1>1, CharWritten
<1> QED
  BY <1>3, <1>4, <1>5

LEMMA PromptKeeps ==
    ASSUME IInv, Typed', Prompt
    PROVE  IInv'
<1>0. Typed /\ source.state = "PROMPT" /\ UNCHANGED <<xm, file, sent, cut, late, boot>> /\ back' = Left
  BY DEF IInv, Prompt, Running, KeepsXmodem
<1>1. /\ ~On(line, "packet") /\ ~On(line, "EOT") /\ ~On(line, "load")
      /\ boot.phase # "receive" /\ Packed(line, sent)
      /\ ~Heard(back, "C") /\ ~Heard(back, "ACK")
  BY <1>0 DEF IInv, Early, Line
<1>2. ~Heard(Left, "C") /\ ~Heard(Left, "ACK")
  BY <1>0, <1>1, LeftTyped
<1>3. CASE source' = GoTo("XMODEM_WAIT") /\ line' = Written(Char("load"))
  <2>1. source'.state = "XMODEM_WAIT" /\ source'.from = source.from
    BY <1>0, <1>3, SourceKeeps DEF SourceState
  <2>2. Packed(line', sent) /\ ~On(line', "packet") /\ ~On(line', "EOT")
    BY <1>0, <1>1, <1>3, LoadWritten
  <2>3. Early'
    BY <1>0, <1>1, <1>2, <2>1, <2>2 DEF Early
  <2> QED
    BY <1>0, <1>1, <2>1, <2>2, <2>3, DriverKeeps DEF After
<1>4. CASE source' = Timeout /\ UNCHANGED line
  <2>1. source'.state \in {"PROMPT", "RESET"} /\ source'.from = source.from
    BY <1>0, <1>4, SourceKeeps
  <2>2. Early'
    BY <1>0, <1>1, <1>2, <1>4, <2>1 DEF Early
  <2> QED
    BY <1>0, <1>1, <1>4, <2>1, <2>2, DriverKeeps DEF After
<1> QED
  BY <1>3, <1>4 DEF Prompt

LEMMA XmodemWaitKeeps ==
    ASSUME IInv, Typed', XmodemWait
    PROVE  IInv'
<1>0. Typed /\ source.state = "XMODEM_WAIT" /\ UNCHANGED <<file, line, late, boot>> /\ back' = Left
  BY DEF IInv, XmodemWait, Running
<1>1. /\ ~On(line, "packet") /\ ~On(line, "EOT") /\ ~Heard(back, "ACK")
      /\ boot.phase = "receive" \/ Heard(back, "C") => boot.flash = <<>> /\ ~On(line, "load")
      /\ Packed(line, sent)
  BY <1>0 DEF IInv, Early, Line
<1>2. ~Heard(Left, "ACK") /\ (Heard(Left, "C") => Heard(back, "C"))
  BY <1>0, <1>1, LeftTyped
<1>3. \A i \in 1 .. Len(line) : ~IsPacket(line[i])
  BY <1>1 DEF On, IsPacket
<1>4. \A n : Near(line, n)
  BY <1>3 DEF Near
<1>5. CASE /\ Got = "C" /\ xm' = [xm EXCEPT !.state = "START", !.packet_num = 0]
           /\ source' = [source EXCEPT !.state = "XMODEM_SEND", !.from = file]
           /\ sent' = <<>> /\ cut' = {}
  <2>1. source'.state = "XMODEM_SEND" /\ source'.from = file
    BY <1>0, <1>5, SourceKeeps
  <2>2. xm'.state = "START"
    BY <1>0, <1>5, XmTyped DEF XmRecord
  <2>3. Heard(back, "C")
    <3>1. back # <<>> /\ Head(back).ch = "C"
      BY <1>5 DEF Got
    <3> QED
      BY <1>0, <3>1, LeftTyped DEF Heard
  <2>4. boot.flash = <<>> /\ ~On(line, "load")
    BY <1>1, <2>3
  <2>5. /\ Has' = 0 /\ Len(sent') = 0 /\ Room \in Nat /\ file \in Nat /\ sent' = <<>> /\ cut' = {}
        /\ boot'.flash = <<>> /\ Len(boot'.flash) = 0 /\ file' = file
    <3>1. boot'.flash = <<>> /\ sent' = <<>> /\ cut' = {} /\ file' = file /\ Len(<<>>) = 0
      BY <1>0, <1>5, <2>4
    <3> QED
      BY <1>0, <3>1, XmTyped, ConstantsOf DEF Has
  <2>6. Line'
    <3>1. Packed(line, <<>>)
      BY <1>3, <2>4 DEF Packed, On
    <3> QED
      BY <1>0, <1>4, <2>5, <3>1 DEF Line
  <2>7. Sender'
    <3>1. Followed(line', 0)
      BY <1>0, <1>3 DEF Followed
    <3>2. ~Heard(back', "ACK")
      BY <1>0, <1>2
    <3>3. 0 <= 0 + Room + 1
      BY <2>5
    <3> QED
      BY <2>1, <2>2, <2>5, <3>1, <3>2, <3>3 DEF Sender, SenderAt
  <2>8. Acked'
    BY <1>0, <1>2 DEF Acked, AckedIn, Heard
  <2>9. Early' /\ Whole' /\ NoLoad'
    BY <1>0, <2>1, <2>2, <2>4 DEF Early, Whole, WholeAt, NoLoad
  <2>10. InOrder' /\ CutRead' /\ (source.from <= file)'
    <3>1. \A b \in file + 1 .. file : FALSE
      BY <2>5
    <3>2. \A i \in 1 .. 0 : FALSE
      OBVIOUS
    <3>3. source'.from <= file'
      BY <2>1, <2>5
    <3> QED
      BY <2>1, <2>5, <3>1, <3>2, <3>3 DEF InOrder, CutRead
  <2> QED
    BY <2>6, <2>7, <2>8, <2>9, <2>10 DEF IInv
<1>6. CASE source' = Timeout /\ UNCHANGED <<xm, sent, cut>>
  <2>1. source'.state \in {"XMODEM_WAIT", "RESET"} /\ source'.from = source.from
    BY <1>0, <1>6, SourceKeeps
  <2>2. Early'
    BY <1>0, <1>1, <1>2, <1>6, <2>1 DEF Early
  <2> QED
    BY <1>0, <1>1, <1>4, <1>6, <2>1, <2>2, DriverKeeps DEF After
<1> QED
  BY <1>5, <1>6 DEF XmodemWait

LEMMA XmodemSendKeeps ==
    ASSUME IInv, Typed', XmodemSend
    PROVE  IInv'
<1>0. Typed /\ source.state = "XMODEM_SEND" /\ UNCHANGED boot
  BY DEF IInv, XmodemSend, Running
<1>1. PICK ret \in {"0", "1", "EIO", "ETIMEDOUT"} :
        /\ TxTick(ret)
        /\ source' = IF ret = "0" THEN source
                     ELSE IF ret = "1" THEN GoTo("XMODEM_DONE")
                     ELSE [source EXCEPT !.state = "FAILURE", !.ret = ret]
  BY DEF XmodemSend
<1>2. /\ source'.from = source.from
      /\ ret = "0" => source'.state = "XMODEM_SEND"
      /\ ret = "1" => source'.state = "XMODEM_DONE"
      /\ ret \notin {"0", "1"} => source'.state = "FAILURE"
  BY <1>0, <1>1, SourceKeeps DEF SourceState
<1>3. SenderKeeps(ret)
  BY <1>0, <1>1, TxTickKeeps
<1>4. Has' = Has
  BY <1>0, <1>2 DEF Has
<1>5. Line' /\ NoLoad' /\ (source.from <= file)'
  BY <1>0, <1>2, <1>3, <1>4 DEF SenderKeeps, LineAt, Line, NoLoad
<1>5a. InOrder' /\ CutRead'
  <2>1. Beginning(sent) /\ Has \in Nat /\ Len(sent) \in Nat
    BY <1>0, InOrderParts, HasNat, XmTyped DEF IInv
  <2>2. Len(sent') \in Nat
    BY XmTyped, LenProperties, TypedParts
  <2>3. Has <= Len(sent') /\ \A i \in 1 .. Has : boot.flash[i] = sent'[i]
    BY <1>3, <2>1, <2>2 DEF SenderKeeps, Beginning
  <2>4. Beginning(sent)'
    BY <1>0, <1>4, <2>3 DEF Beginning
  <2>5. Recorded(sent, cut, file)'
    BY <1>2, <1>3 DEF SenderKeeps, Recorded
  <2> QED
    BY <2>4, <2>5 DEF InOrder, CutRead, Beginning, Recorded, Has
<1>6. Early'
  BY <1>1, <1>2 DEF Early
<1>7. Sender' /\ Acked'
  BY <1>0, <1>1, <1>2, <1>3, <1>4 DEF SenderKeeps, Sender, SenderAt, Acked, AckedIn
<1>8. Whole'
  BY <1>1, <1>2, <1>3, <1>4 DEF SenderKeeps, Whole, WholeAt
<1> QED
  BY <1>5, <1>5a, <1>6, <1>7, <1>8 DEF IInv

\* After the transfer.
LEMMA LastPromptKeeps ==
    ASSUME IInv, Typed', source.state \in {"XMODEM_DONE", "FINAL_PROMPT"},
           NEW s \in Trying, s.from = source.from,
           s.state \in {"FINAL_PROMPT", "SUCCESS", "RESET"},
           NEW l \in Seq(Item), LineAt(l, sent),
           LastPrompt(s, l), UNCHANGED <<xm, file, sent, cut, late, boot>>
    PROVE  IInv'
<1>0. Typed
  BY DEF IInv
<1>1. CASE /\ source' = [GoTo("SUCCESS") EXCEPT !.ret = "1"]
           /\ line' = IF Len(l) < Room THEN Append(l, Char("run")) ELSE l
  <2>1. source'.state = "SUCCESS" /\ source'.from = source.from
    BY <1>0, <1>1, SourceKeeps DEF SourceState
  <2>2. Char("run") \in Item /\ ~IsPacket(Char("run")) /\ Char("run").kind = "run"
    BY ItemsOf
  <2>3. LineAt(Append(l, Char("run")), sent)
    BY <2>2, CharAppended DEF LineAt
  <2>4. LineAt(line', sent)
    BY <1>1, <2>3
  <2>5. Early'
    BY <2>1 DEF Early
  <2> QED
    BY <1>0, <2>1, <2>4, <2>5, DriverKeeps DEF LineAt
<1>2. CASE source' = s /\ line' = l
  <2>1. Early'
    BY <1>2 DEF Early
  <2> QED
    BY <1>0, <1>2, <2>1, DriverKeeps DEF LineAt
<1> QED
  BY <1>1, <1>2 DEF LastPrompt

LEMMA DoneKeeps ==
    ASSUME IInv, Typed', XmodemDone \/ FinalPrompt
    PROVE  IInv'
<1>0. /\ Typed /\ source.state \in {"XMODEM_DONE", "FINAL_PROMPT"} /\ source.ret = "0"
      /\ UNCHANGED <<xm, file, sent, cut, late, boot>>
  BY DEF IInv, XmodemDone, FinalPrompt, Running, KeepsXmodem
<1>1. LineAt(line, sent) /\ line \in Seq(Item)
  BY <1>0, TypedParts DEF IInv, NoLoad, After, Line, LineAt
<1>2. CASE UNCHANGED <<source, line, back>>
  <2>1. Early'
    BY <1>0, <1>2 DEF Early
  <2> QED
    BY <1>0, <1>1, <1>2, <2>1, DriverKeeps DEF LineAt
<1>3. CASE LastPrompt(IF source.kind = "ebl" THEN GoTo("FINAL_PROMPT")
                      ELSE [GoTo("SUCCESS") EXCEPT !.ret = "1"], Written(Char("CR")))
  <2> DEFINE s == IF source.kind = "ebl" THEN GoTo("FINAL_PROMPT")
                  ELSE [GoTo("SUCCESS") EXCEPT !.ret = "1"]
  <2>1. s \in Trying /\ s.from = source.from /\ s.state \in {"FINAL_PROMPT", "SUCCESS"}
    BY <1>0, SourceTyped, SourceKeeps DEF SourceState
  <2>2. LastPrompt(s, Written(Char("CR")))
    BY <1>3
  <2> HIDE DEF s
  <2>3. LineAt(Written(Char("CR")), sent) /\ Written(Char("CR")) \in Seq(Item)
    BY <1>0, <1>1, ItemsOf, WrittenKeeps, CharWritten
  <2> QED
    BY <1>0, <2>1, <2>2, <2>3, LastPromptKeeps
<1>4. CASE source.state = "FINAL_PROMPT" /\ LastPrompt(Timeout, line)
  <2>1. /\ Timeout \in Trying /\ Timeout.from = source.from
        /\ Timeout.state \in {"FINAL_PROMPT", "RESET"}
    BY <1>0, <1>4, SourceTyped, SourceKeeps
  <2> QED
    BY <1>0, <1>1, <1>4, <2>1, LastPromptKeeps
<1> QED
  BY <1>2, <1>3, <1>4 DEF XmodemDone, FinalPrompt, Running

\* While a transfer is on, the sender is at most as far ahead as the line is long.
Ahead ==
    source.state = "XMODEM_SEND" /\ xm.state \notin {"FAILURE", "SUCCESS"} =>
        Len(sent) <= Has + Room

\* A step of the module or of the line that leaves what the module has: what is left to
\* show of the line and of the answers.
LEMMA OthersKeep ==
    ASSUME IInv, Typed', UNCHANGED <<xm, file, sent, cut, late>>,
           source'.state = source.state, source'.from = source.from,
           boot'.flash = boot.flash, boot'.phase = boot.phase \/ boot'.phase # "receive",
           Packed(line', sent),
           \A n : Near(line, n) => Near(line', n),
           \A f \in Int : Followed(line, f) => Followed(line', f),
           \A kind : ~On(line, kind) => ~On(line', kind),
           Heard(back', "C") => Heard(back, "C") \/ boot.phase = "receive",
           \/ Heard(back', "ACK") => Heard(back, "ACK")
           \/ /\ boot.phase = "receive" /\ source.state # "XMODEM_WAIT"
              /\ boot'.phase = "receive" => Ahead,
           source.state = "XMODEM_SEND" => AckedIn(back')
    PROVE  IInv'
<1>0. Has' = Has
  BY DEF Has
<1>1. InOrder' /\ CutRead' /\ (source.from <= file)'
  BY DEF IInv, InOrder, CutRead
<1>2. Line'
  BY <1>0 DEF IInv, Line
<1>3. NoLoad' /\ Whole'
  BY <1>0 DEF IInv, NoLoad, Whole, WholeAt
<1>4. Acked'
  BY <1>0 DEF Acked, AckedIn
<1>5. Sender'
  <2> SUFFICES ASSUME source.state = "XMODEM_SEND", xm.state \notin {"FAILURE", "SUCCESS"}
               PROVE  SenderAt(xm, sent, line, back)'
    BY DEF Sender
  <2>1. SenderAt(xm, sent, line, back) /\ Len(sent) \in Int
    BY XmTyped DEF IInv, Sender
  <2>2. Followed(line', Len(sent))
    BY <2>1 DEF SenderAt
  <2>3. boot'.phase = "receive" => boot.phase = "receive" /\ (Heard(back', "ACK") => Len(sent) <= Has + Room)
    BY <2>1 DEF SenderAt, Ahead
  <2> QED
    BY <1>0, <2>1, <2>2, <2>3 DEF SenderAt
<1>6. Early'
  BY DEF IInv, Early
<1> QED
  BY <1>1, <1>2, <1>3, <1>4, <1>5, <1>6 DEF IInv

\* What the rest of the line keeps.
LEMMA RestKeeps ==
    ASSUME IInv, NEW m, NEW d, Part(m, line, d), Len(m) + d = Len(line)
    PROVE  /\ Packed(m, sent)
           /\ \A n : Near(line, n) => Near(m, n)
           /\ \A f \in Int : Followed(line, f) => Followed(m, f)
           /\ \A kind : ~On(line, kind) => ~On(m, kind)
<1>1. line \in Seq(Item) /\ Packed(line, sent)
  BY TypedParts DEF IInv, Line
<1> QED
  BY <1>1, PartKeeps, RestFollowed

LEMMA TailKeeps ==
    ASSUME IInv, line # <<>>
    PROVE  /\ Packed(Tail(line), sent)
           /\ \A n : Near(line, n) => Near(Tail(line), n)
           /\ \A f \in Int : Followed(line, f) => Followed(Tail(line), f)
           /\ \A kind : ~On(line, kind) => ~On(Tail(line), kind)
<1>1. Part(Tail(line), line, 1) /\ Len(Tail(line)) + 1 = Len(line)
  BY LineRead DEF IInv
<1> QED
  BY <1>1, RestKeeps

\* The answer of the module is heard, or finds no room.
LEMMA AnswerKeeps ==
    ASSUME IInv, NEW ch \in {"C", ">", "CAN", "NAK", "ACK"}, NEW x \in Item, Answer(ch, x),
           ch = "ACK" /\ IsPacket(x) => x.nth <= Has
    PROVE  /\ \A c : c # ch /\ ~Heard(back, c) => ~Heard(back', c)
           /\ source.state = "XMODEM_SEND" => AckedIn(back')
<1>1. Typed
  BY DEF IInv
<1>2. /\ \A c : c # ch /\ ~Heard(back, c) => ~Heard(back', c)
      /\ \A i \in 1 .. Len(back') :
            (i \in 1 .. Len(back) /\ back'[i] = back[i]) \/ back'[i] = [ch |-> ch, of |-> x]
  BY <1>1, AnswerTyped
<1>3. ASSUME source.state = "XMODEM_SEND" PROVE AckedIn(back')
  <2>1. AckedIn(back)
    BY <1>3 DEF IInv, Acked
  <2> QED
    BY <1>2, <2>1 DEF AckedIn
<1> QED
  BY <1>2, <1>3

\* The number of the packet at the head of the line says which packet it is.
LEMMA HeadPacket ==
    ASSUME IInv, Packets > Room + 1, line # <<>>, IsPacket(Head(line)), boot.phase = "receive"
    PROVE  /\ Head(line).nth \in 1 .. Len(sent) /\ Head(line).block = sent[Head(line).nth]
           /\ Head(line).num = (Has + 1) % Packets => Head(line).nth = Has + 1
           /\ Head(line).num = Has % Packets => Head(line).nth = Has
<1> DEFINE p == Head(line)
<1>1. Typed /\ p \in Item /\ p = line[1] /\ 1 \in 1 .. Len(line)
  BY LineRead DEF IInv
<1>2. /\ Has \in Nat /\ Len(sent) \in Nat /\ Packets \in Nat /\ Packets > 0 /\ Room \in Nat
  BY <1>1, HasNat, XmTyped, ConstantsOf
<1>3. p.nth \in 1 .. Len(sent) /\ p.num = p.nth % Packets /\ p.block = sent[p.nth]
  BY <1>1 DEF IInv, Line, Packed
<1>4. p.nth \in Has .. Has + Room + 1
  BY <1>1 DEF IInv, Line, Near
<1> HIDE DEF p
<1>5. p.nth \in Nat /\ Has <= p.nth /\ p.nth <= Has + Room + 1
  BY <1>2, <1>3, <1>4
<1>6. ASSUME p.num = (Has + 1) % Packets PROVE p.nth = Has + 1
  <2>1. Has + 1 \in Nat /\ p.nth - (Has + 1) < Packets /\ (Has + 1) - p.nth < Packets
    BY <1>2, <1>5
  <2> QED
    BY <1>2, <1>3, <1>5, <1>6, <2>1, ModNear
<1>7. ASSUME p.num = Has % Packets PROVE p.nth = Has
  <2>1. p.nth - Has < Packets /\ Has - p.nth < Packets
    BY <1>2, <1>5
  <2> QED
    BY <1>2, <1>3, <1>5, <1>7, <2>1, ModNear
<1> QED
  BY <1>3, <1>6, <1>7 DEF p

\* The packet that is expected is taken.
LEMMA PacketTaken ==
    ASSUME IInv, Typed', Packets > Room + 1, line # <<>>, line' = Tail(line),
           UNCHANGED <<xm, file, sent, cut, late, source>>,
           boot.phase = "receive", IsPacket(Head(line)),
           Head(line).num = (Len(boot.flash) + 1) % Packets,
           boot' = [boot EXCEPT !.flash = Append(@, Head(line).block)],
           Acknowledges(Head(line))
    PROVE  IInv'
<1> DEFINE p == Head(line)
<1>1. /\ Typed /\ p \in Item /\ p = line[1] /\ 1 \in 1 .. Len(line)
      /\ line \in Seq(Item) /\ Part(Tail(line), line, 1) /\ boot \in BootRecord
      /\ Packed(line, sent) /\ sent \in Seq(1 .. Blocks)
  BY LineRead, TypedParts DEF IInv, BootRecord, Line
<1>2. /\ Has \in Nat /\ Len(sent) \in Nat /\ Room \in Nat /\ Len(boot.flash) = Has
  BY <1>1, HasNat, XmTyped, ConstantsOf DEF Has
<1>3. p.nth \in Nat /\ p.nth = Has + 1 /\ p.nth <= Len(sent) /\ p.block = sent[Has + 1]
  <2>1. p.nth \in 1 .. Len(sent) /\ p.block = sent[p.nth] /\ p.nth = Has + 1
    BY <1>2, HeadPacket
  <2> QED
    BY <1>2, <2>1
<1>4. boot.flash \in Seq(1 .. Blocks) /\ p.block \in 1 .. Blocks
  <2>1. boot.flash \in Seq(1 .. Blocks)
    BY <1>1 DEF BootRecord
  <2>2. Has + 1 \in 1 .. Len(sent)
    BY <1>2, <1>3
  <2>3. sent[Has + 1] \in 1 .. Blocks
    BY <1>1, <2>2, ElementOfSeq
  <2> QED
    BY <1>3, <2>1, <2>3
<1>5. /\ boot'.flash = Append(boot.flash, p.block) /\ boot'.phase = "receive"
      /\ Len(boot'.flash) = Len(boot.flash) + 1
      /\ \A i \in 1 .. Len(boot.flash) : boot'.flash[i] = boot.flash[i]
      /\ boot'.flash[Len(boot.flash) + 1] = p.block
  <2>1. boot'.flash = Append(boot.flash, p.block) /\ boot'.phase = "receive"
    BY <1>1 DEF BootRecord
  <2> QED
    BY <1>4, <2>1, AppendElements
<1>6. IsPacket(p)
  OBVIOUS
<1> HIDE DEF p
<1>7. Has' = Has + 1
  BY <1>2, <1>5 DEF Has
<1>8. InOrder' /\ CutRead'
  <2>1. Beginning(sent) /\ Recorded(sent, cut, file)
    BY InOrderParts DEF IInv
  <2>2. Has + 1 <= Len(sent)
    BY <1>3
  <2>3. ASSUME NEW i \in 1 .. Has + 1
        PROVE  boot'.flash[i] = sent[i]
    <3>1. i \in 1 .. Has \/ i = Has + 1
      BY <1>2
    <3> QED
      BY <1>2, <1>3, <1>5, <2>1, <3>1 DEF Beginning
  <2>4. Beginning(sent)'
    BY <1>7, <2>2, <2>3 DEF Beginning
  <2>5. Recorded(sent, cut, file)'
    BY <2>1 DEF Recorded
  <2> QED
    BY <2>4, <2>5 DEF InOrder, CutRead, Beginning, Recorded, Has
<1>9. Line'
  <2>1. Packed(Tail(line), sent)
    BY TailKeeps
  <2>2. Near(Tail(line), Has + 1)
    <3> SUFFICES ASSUME NEW i \in 1 .. Len(Tail(line)), IsPacket(Tail(line)[i])
                 PROVE  Tail(line)[i].nth \in Has + 1 .. Has + 1 + Room + 1
      BY DEF Near
    <3>1. i + 1 \in 1 .. Len(line) /\ Tail(line)[i] = line[i + 1] /\ 1 < i + 1
      BY <1>1 DEF Part
    <3>2. line[i + 1].nth \in Has .. Has + Room + 1
      BY <1>1, <3>1 DEF IInv, Line, Near
    <3>3. p.nth <= line[i + 1].nth
      BY <1>1, <1>6, <3>1 DEF Packed
    <3>4. \A n \in Has .. Has + Room + 1 : Has + 1 <= n => n \in Has + 1 .. Has + 1 + Room + 1
      BY <1>2
    <3> QED
      BY <1>3, <3>1, <3>2, <3>3, <3>4
  <2> QED
    BY <1>7, <2>1, <2>2 DEF Line
<1>10. On(line, "packet")
  BY <1>1, <1>6 DEF On, IsPacket
<1>11. source.state \notin {"BREAK", "PROMPT", "XMODEM_WAIT"}
  BY <1>10 DEF IInv, Early
<1>12. Early'
  BY <1>11 DEF Early
<1>13. Acked' /\ NoLoad'
  <2>1. NoLoad'
    BY TailKeeps DEF IInv, NoLoad
  <2>2. ASSUME source.state = "XMODEM_SEND" PROVE AckedIn(back)'
    <3>1. Answer("ACK", p)
      BY DEF Acknowledges, p
    <3>2. \A i \in 1 .. Len(back') :
              (i \in 1 .. Len(back) /\ back'[i] = back[i]) \/ back'[i] = [ch |-> "ACK", of |-> p]
      BY <1>1, <3>1, AnswerTyped
    <3>3. \A i \in 1 .. Len(back) :
              back[i].ch = "ACK" /\ IsPacket(back[i].of) => back[i].of.nth <= Has + 1
      <4> SUFFICES ASSUME NEW i \in 1 .. Len(back), back[i].ch = "ACK", IsPacket(back[i].of)
                   PROVE  back[i].of.nth <= Has + 1
        OBVIOUS
      <4>1. back[i].of.nth <= Has
        BY <2>2 DEF IInv, Acked, AckedIn
      <4>2. back[i] \in Reply
        BY <1>1, TypedParts
      <4>3. back[i].of \in Item
        BY <4>2 DEF Reply
      <4>4. back[i].of.nth \in Int
        BY <4>3 DEF Item
      <4>5. Has \in Nat
        BY <1>2
      <4> QED
        BY <4>1, <4>4, <4>5
    <3>4. p.nth <= Has + 1
      BY <1>2, <1>3
    <3> QED
      BY <1>7, <3>2, <3>3, <3>4 DEF AckedIn
  <2> QED
    BY <2>1, <2>2 DEF Acked
<1>14. Sender'
  <2> SUFFICES ASSUME source.state = "XMODEM_SEND", xm.state \notin {"FAILURE", "SUCCESS"}
               PROVE  SenderAt(xm, sent, line, back)'
    BY DEF Sender
  <2>1. SenderAt(xm, sent, line, back)
    BY DEF IInv, Sender
  <2>2. xm.state # "START"
    BY <1>2, <1>3, <2>1 DEF SenderAt
  <2>3. Followed(line', Len(sent))
    <3>1. Len(sent) \in Int
      BY <1>2
    <3> QED
      BY <2>1, <3>1, TailKeeps DEF SenderAt
  <2>4. Has + 1 <= Len(sent) /\ Len(sent) <= Has + 1 + Room
    BY <1>2, <1>3, <2>1 DEF SenderAt
  <2>5. Len(sent) <= Has + 1 + Room + 1
    BY <1>2, <2>4
  <2> QED
    BY <1>7, <2>1, <2>2, <2>3, <2>4, <2>5 DEF SenderAt
<1>15. Whole'
  <2>1. Len(sent) <= Has => Len(sent) <= Has + 1
    BY <1>2
  <2> QED
    BY <1>7, <2>1 DEF IInv, Whole, WholeAt
<1> QED
  BY <1>8, <1>9, <1>12, <1>13, <1>14, <1>15 DEF IInv

\* The module takes what is at the head of the line.
LEMMA TakeKeeps ==
    ASSUME IInv, Typed', Packets > Room + 1, line # <<>>, Take(Head(line)), line' = Tail(line),
           UNCHANGED <<xm, file, now, sent, cut, late, source, idle, faults>>
    PROVE  IInv'
<1> DEFINE item == Head(line)
<1>1. /\ line # <<>> /\ Take(item) /\ line' = Tail(line)
      /\ UNCHANGED <<xm, file, now, sent, cut, late, source, idle, faults>>
  OBVIOUS
<1>2. /\ Typed /\ item \in Item /\ item = line[1] /\ 1 \in 1 .. Len(line) /\ Len(line) <= Room
      /\ Len(line) \in Nat /\ boot \in BootRecord /\ Packed(line, sent)
      /\ line \in Seq(Item) /\ Len(Tail(line)) = Len(line) - 1 /\ Part(Tail(line), line, 1)
  BY <1>1, LineRead, TypedParts DEF IInv, BootRecord, Line
<1>3. /\ Packed(line', sent)
      /\ \A n : Near(line, n) => Near(line', n)
      /\ \A f \in Int : Followed(line, f) => Followed(line', f)
      /\ \A kind : ~On(line, kind) => ~On(line', kind)
  BY <1>1, TailKeeps
<1>4. \A kind : item.kind = kind => On(line, kind)
  BY <1>2 DEF On
<1>5. \A ch \in {"C", ">", "CAN"} : Char(ch) \in Item /\ ~IsPacket(Char(ch))
  BY ItemsOf
<1>6. source.state = "XMODEM_SEND" => AckedIn(back)
  BY DEF IInv, Acked
<1> HIDE DEF item
<1>7. CASE /\ boot.phase = "menu" /\ item.kind = "CR"
           /\ Answer(">", Char(">")) /\ boot' = boot
  <2>1. /\ \A c : c # ">" /\ ~Heard(back, c) => ~Heard(back', c)
        /\ source.state = "XMODEM_SEND" => AckedIn(back')
    BY <1>5, <1>7, AnswerKeeps
  <2> QED
    BY <1>1, <1>3, <1>7, <2>1, OthersKeep
<1>8. CASE /\ boot.phase = "menu" /\ item.kind = "load"
           /\ Answer("C", Char("C")) /\ boot' = [phase |-> "receive", flash |-> <<>>]
  <2>1. On(line, "load")
    BY <1>4, <1>8
  <2>2. source.state \notin After /\ source.state \notin {"BREAK", "PROMPT"}
    BY <2>1 DEF IInv, NoLoad, Early
  <2>3. \A i \in 1 .. Len(line') : ~IsPacket(line'[i]) /\ line'[i].kind # "load"
    <3> SUFFICES ASSUME NEW i \in 1 .. Len(line')
                 PROVE  ~IsPacket(line'[i]) /\ line'[i].kind # "load"
      OBVIOUS
    <3>1. i + 1 \in 1 .. Len(line) /\ line'[i] = line[i + 1] /\ 1 # i + 1
      BY <1>1, <1>2 DEF Part
    <3> QED
      BY <1>2, <1>8, <3>1 DEF Packed
  <2>4. ~On(line', "load") /\ \A n : Near(line', n)
    BY <2>3 DEF On, Near
  <2>5. \A c : c # "C" /\ ~Heard(back, c) => ~Heard(back', c)
    BY <1>5, <1>8, AnswerKeeps
  <2>6. boot'.flash = <<>> /\ Len(boot'.flash) = 0
    BY <1>8
  <2>7. InOrder' /\ CutRead' /\ (source.from <= file)'
    <3>1. 0 <= Len(sent) /\ \A i \in 1 .. 0 : FALSE
      BY <1>2, XmTyped
    <3> QED
      BY <1>1, <2>6, <3>1 DEF IInv, InOrder, CutRead
  <2>8. Line'
    BY <1>1, <1>3, <2>4 DEF Line
  <2>9. Early'
    BY <1>1, <1>3, <2>2, <2>4, <2>5, <2>6 DEF IInv, Early
  <2> QED
    BY <1>1, <2>2, <2>7, <2>8, <2>9 DEF IInv, Sender, Acked, Whole, NoLoad, After
<1>9. CASE /\ boot.phase = "menu" /\ item.kind = "run"
           /\ back' = back /\ boot' = [boot EXCEPT !.phase = "app"]
  <2>1. boot'.flash = boot.flash /\ boot'.phase = "app"
    BY <1>2, <1>9 DEF BootRecord
  <2> QED
    BY <1>1, <1>3, <1>6, <1>9, <2>1, OthersKeep
<1>10. CASE boot.phase = "receive" /\ item.kind = "packet" /\ TakePacket(item)
  <2>1. IsPacket(item) /\ On(line, "packet")
    BY <1>4, <1>10 DEF IsPacket
  <2>2. source.state \notin {"BREAK", "PROMPT", "XMODEM_WAIT"}
    BY <2>1 DEF IInv, Early
  <2>3. CASE /\ item.num = (Len(boot.flash) + 1) % Packets
             /\ boot' = [boot EXCEPT !.flash = Append(@, item.block)] /\ Acknowledges(item)
    BY <1>1, <1>10, <2>1, <2>3, PacketTaken DEF item
  <2>4. CASE /\ item.num = Len(boot.flash) % Packets
             /\ Acknowledges(item) /\ UNCHANGED boot
    <3>1. item.nth = Has
      BY <1>1, <1>10, <2>1, <2>4, HeadPacket DEF item, Has
    <3>2. Has \in Nat /\ Len(sent) \in Nat /\ Room \in Nat
      BY <1>2, HasNat, XmTyped, ConstantsOf
    <3>3. item.nth <= Has
      BY <3>1, <3>2
    <3>4. /\ \A c : c # "ACK" /\ ~Heard(back, c) => ~Heard(back', c)
          /\ source.state = "XMODEM_SEND" => AckedIn(back')
      BY <1>2, <2>4, <3>3, AnswerKeeps DEF Acknowledges
    <3>5. Ahead
      <4> SUFFICES ASSUME source.state = "XMODEM_SEND", xm.state \notin {"FAILURE", "SUCCESS"}
                   PROVE  Len(sent) <= Has + Room
        BY DEF Ahead
      <4>1. Followed(line, Len(sent))
        BY DEF IInv, Sender, SenderAt
      <4>2. Has + (Len(line) - 1) >= Len(sent)
        BY <1>2, <2>1, <3>1, <4>1 DEF Followed
      <4> QED
        BY <1>2, <3>2, <4>2
    <3> QED
      BY <1>1, <1>3, <1>10, <2>2, <2>4, <3>4, <3>5, OthersKeep
  <2>5. CASE Says("CAN") /\ boot' = [boot EXCEPT !.phase = "menu"]
    <3>1. boot'.flash = boot.flash /\ boot'.phase = "menu"
      BY <1>2, <2>5 DEF BootRecord
    <3>2. /\ \A c : c # "CAN" /\ ~Heard(back, c) => ~Heard(back', c)
          /\ source.state = "XMODEM_SEND" => AckedIn(back')
      BY <1>5, <2>5, AnswerKeeps DEF Says
    <3> QED
      BY <1>1, <1>3, <3>1, <3>2, OthersKeep
  <2> QED
    BY <1>10, <2>3, <2>4, <2>5 DEF TakePacket
<1>11. CASE /\ boot.phase = "receive" /\ item.kind = "EOT"
            /\ Answer("ACK", item)
            /\ \E phase \in {"app", "menu"} : boot' = [boot EXCEPT !.phase = phase]
  <2>1. boot'.flash = boot.flash /\ boot'.phase # "receive"
    BY <1>2, <1>11 DEF BootRecord
  <2>2. source.state # "XMODEM_WAIT"
    BY <1>4, <1>11 DEF IInv, Early
  <2>3. /\ \A c : c # "ACK" /\ ~Heard(back, c) => ~Heard(back', c)
        /\ source.state = "XMODEM_SEND" => AckedIn(back')
    BY <1>2, <1>11, AnswerKeeps DEF IsPacket
  <2> QED
    BY <1>1, <1>3, <1>11, <2>1, <2>2, <2>3, OthersKeep
<1>12. CASE /\ boot.phase = "receive" /\ item.kind = "CAN"
            /\ back' = back /\ boot' = [boot EXCEPT !.phase = "menu"]
  <2>1. boot'.flash = boot.flash /\ boot'.phase = "menu"
    BY <1>2, <1>12 DEF BootRecord
  <2> QED
    BY <1>1, <1>3, <1>6, <1>12, <2>1, OthersKeep
<1>13. CASE back' = back /\ boot' = boot
  BY <1>1, <1>3, <1>6, <1>13, OthersKeep
<1> QED
  BY <1>1, <1>7, <1>8, <1>9, <1>10, <1>11, <1>12, <1>13, TakeCases

\* The module reads what is written, or drops a part of a packet and what follows it.
LEMMA ReadsKeep ==
    ASSUME IInv, Typed', Packets > Room + 1, ModuleReads
    PROVE  IInv'
<1>1. line # <<>> /\ UNCHANGED <<xm, file, now, sent, cut, late, source, idle, faults>>
  BY DEF ModuleReads
<1>2. CASE Take(Head(line)) /\ line' = Tail(line)
  BY <1>1, <1>2, TakeKeeps
<1>3. CASE Len(line) > 1 /\ line' = Tail(Tail(line)) /\ UNCHANGED <<back, boot>>
  <2>1. Typed /\ (source.state = "XMODEM_SEND" => AckedIn(back))
    BY DEF IInv, Acked
  <2>2. Part(Tail(Tail(line)), line, 2) /\ Len(Tail(Tail(line))) + 2 = Len(line)
    <3>1. Len(Tail(Tail(line))) = Len(line) - 2 /\ Part(Tail(Tail(line)), line, 2)
      BY <1>3, <2>1, LineRead2
    <3> QED
      BY <3>1 DEF Part
  <2>3. /\ Packed(line', sent)
        /\ \A n : Near(line, n) => Near(line', n)
        /\ \A f \in Int : Followed(line, f) => Followed(line', f)
        /\ \A kind : ~On(line, kind) => ~On(line', kind)
    BY <1>3, <2>2, RestKeeps
  <2> QED
    BY <1>1, <1>3, <2>1, <2>3, OthersKeep
<1> QED
  BY <1>1, <1>2, <1>3 DEF ModuleReads

LEMMA AsksKeep ==
    ASSUME IInv, Typed', ModuleAsks
    PROVE  IInv'
<1>1. boot.phase = "receive" /\ UNCHANGED <<xm, file, line, sent, cut, late, source, boot>>
  BY DEF ModuleAsks
<1>2. PICK ch \in {"C", "NAK"} : Answer(ch, Char(ch))
  BY DEF ModuleAsks, Says
<1>3. Char(ch) \in Item /\ ~IsPacket(Char(ch))
  BY <1>2, ItemsOf
<1>4. /\ \A c : c # ch /\ ~Heard(back, c) => ~Heard(back', c)
      /\ source.state = "XMODEM_SEND" => AckedIn(back')
  BY <1>2, <1>3, AnswerKeeps
<1>5. Packed(line, sent)
  BY DEF IInv, Line
<1> QED
  BY <1>1, <1>2, <1>4, <1>5, OthersKeep

LEMMA FaultKeeps ==
    ASSUME IInv, Typed', Fault
    PROVE  IInv'
<1>1. UNCHANGED <<xm, file, sent, cut, late, source>>
  BY DEF Fault
<1>2. /\ Typed /\ boot \in BootRecord /\ Packed(line, sent)
      /\ source.state = "XMODEM_SEND" => AckedIn(back)
  BY TypedParts DEF IInv, BootRecord, Line, Acked
<1>3. CASE line # <<>> /\ line' = Tail(line) /\ UNCHANGED <<back, boot>>
  <2>1. /\ Packed(line', sent)
        /\ \A n : Near(line, n) => Near(line', n)
        /\ \A f \in Int : Followed(line, f) => Followed(line', f)
        /\ \A kind : ~On(line, kind) => ~On(line', kind)
    BY <1>3, TailKeeps
  <2> QED
    BY <1>1, <1>2, <1>3, <2>1, OthersKeep
<1>4. CASE back # <<>> /\ back' = Tail(back) /\ UNCHANGED <<line, boot>>
  <2>1. back' = Left
    BY <1>4 DEF Left
  <2>2. /\ \A c : ~Heard(back, c) => ~Heard(back', c)
        /\ AckedIn(back) => AckedIn(back')
    BY <1>2, <2>1, LeftTyped, LeftKeeps
  <2> QED
    BY <1>1, <1>2, <1>4, <2>2, OthersKeep
<1>5. CASE (\E phase \in {"off", "menu"} : boot' = [boot EXCEPT !.phase = phase]) /\ UNCHANGED <<line, back>>
  <2>1. boot'.flash = boot.flash /\ boot'.phase # "receive"
    BY <1>2, <1>5 DEF BootRecord
  <2> QED
    BY <1>1, <1>2, <1>5, <2>1, OthersKeep
<1> QED
  BY <1>3, <1>4, <1>5 DEF Fault

LEMMA StillKeeps ==
    ASSUME IInv, Typed', TimePasses \/ UNCHANGED vars
    PROVE  IInv'
<1>1. UNCHANGED <<xm, file, line, back, sent, cut, late, boot>>
  BY DEF TimePasses, vars, xmodemVars, updateVars
<1>2. source'.state = source.state /\ source'.from = source.from
  <2>1. CASE UNCHANGED vars
    BY <2>1 DEF vars, updateVars
  <2>2. CASE TimePasses
    <3>1. source \in SourceRecord
      BY SourceFields DEF IInv
    <3> QED
      BY <2>2, <3>1 DEF TimePasses, SourceRecord
  <2> QED
    BY <2>1, <2>2
<1>3. Packed(line, sent) /\ (source.state = "XMODEM_SEND" => AckedIn(back))
  BY DEF IInv, Line, Acked
<1> QED
  BY <1>1, <1>2, <1>3, OthersKeep

LEMMA InitHolds ==
    ASSUME Init
    PROVE  IInv
<1>1. /\ source.state = "INIT" /\ source.from = 0 /\ file = 0 /\ line = <<>> /\ Len(line) = 0
      /\ boot.flash = <<>> /\ Len(boot.flash) = 0 /\ boot.phase = "app"
      /\ sent = <<>> /\ Len(sent) = 0 /\ cut = {}
  BY DEF Init
<1>2. Typed
  BY InitTyped
<1>3. InOrder /\ CutRead /\ source.from <= file
  <2>1. \A i \in 1 .. 0 : FALSE
    OBVIOUS
  <2>2. \A b \in 0 + 1 .. 0 : FALSE
    OBVIOUS
  <2> QED
    BY <1>1, <2>1, <2>2 DEF InOrder, CutRead
<1> QED
  BY <1>1, <1>2, <1>3 DEF IInv, Line, Packed, Early, Sender, Acked, Whole, NoLoad, After

LEMMA NextKeeps ==
    ASSUME Packets > Room + 1, IInv, [Next]_vars
    PROVE  IInv'
<1>1. Typed
  BY DEF IInv
<1>2. Typed'
  BY <1>1, TickTyped, OtherTyped, StillTyped DEF Next
<1>3. CASE Tick
  BY <1>2, <1>3, ResetKeeps, BreakKeeps, PromptKeeps, XmodemWaitKeeps, XmodemSendKeeps, DoneKeeps
     DEF Tick
<1> QED
  BY <1>2, <1>3, ReadsKeep, AsksKeep, FaultKeeps, StillKeeps DEF Next

\* IInv is inductive.
LEMMA Inductive ==
    ASSUME Packets > Room + 1
    PROVE  Spec => []IInv
<1>1. Init => IInv
  BY InitHolds
<1>2. IInv /\ [Next]_vars => IInv'
  BY NextKeeps
<1> QED
  BY <1>1, <1>2, PTL DEF Spec

\* What the bootloader has is a beginning of what xbee_xmodem_tx_tick() has written
\* whole in this transfer: no packet is taken twice, left out or taken for another,
\* whatever is sent again and whatever is lost.  And what was written whole is the file
\* from where the transfer began, without the blocks whose first write the port took in
\* part or not at all.  It needs that more packet numbers exist than packets fit between
\* the sender and the module; there are 256 of them.
THEOREM TakenInOrder ==
    ASSUME Packets > Room + 1
    PROVE  Spec => []InOrder
<1>1. IInv => InOrder
  BY DEF IInv
<1> QED
  BY <1>1, Inductive, PTL

\* What the tick of the driver reports as success is the file in the module without the
\* blocks in `cut', which xbee_xmodem_tx_tick() left out: those and no others.  But for
\* an ACK that was mistaken (it carries no number) and for a second try, which goes on
\* in the middle of the file.
THEOREM SuccessIsWhole ==
    ASSUME Packets > Room + 1
    PROVE  Spec => []WholeImage
<1>1. IInv => WholeImage
  <2> SUFFICES ASSUME IInv, source.state = "SUCCESS", ~late, source.from = 0
               PROVE  /\ \A b \in (1 .. Blocks) \ cut : \E i \in 1 .. Len(boot.flash) : boot.flash[i] = b
                      /\ \A i \in 1 .. Len(boot.flash) : boot.flash[i] \notin cut
                      /\ \A i, j \in 1 .. Len(boot.flash) : i < j => boot.flash[i] < boot.flash[j]
    BY DEF WholeImage
  <2>1. /\ Typed /\ file = Blocks /\ Len(sent) <= Len(boot.flash)
        /\ Beginning(sent) /\ Recorded(sent, cut, file)
    BY InOrderParts DEF IInv, Whole, Has
  <2>2. Len(sent) \in Nat /\ Len(boot.flash) \in Nat /\ Len(boot.flash) <= Len(sent)
    BY <2>1, XmTyped, HasNat DEF Beginning, Has
  <2>3. Len(boot.flash) = Len(sent) /\ \A i \in 1 .. Len(boot.flash) : boot.flash[i] = sent[i]
    BY <2>1, <2>2 DEF Beginning, Has
  <2>4. \A b \in 1 .. Blocks : b \in source.from + 1 .. file
    BY <2>1
  <2> QED
    BY <2>1, <2>3, <2>4 DEF Recorded
<1> QED
  BY <1>1, Inductive, PTL
=============================================================================
