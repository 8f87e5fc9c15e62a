------------------------------ MODULE CbufProofs ------------------------------
(* Theorems about Cbuf, for buffers of any size. *)
EXTENDS Cbuf, SequenceTheorems, TLAPS

\* The ways of using a buffer that are sound: only a buffer that no interrupt
\* handler fills, and that is not read byte by byte, is read in blocks.
Legal(m) ==
    \/ m.isr = "putch" /\ m.main \subseteq {"getch", "flush"}
    \/ m.isr = "getch" /\ m.main \subseteq {"putch", "put", "flush"}
    \/ m.isr = "none"  /\ m.main \subseteq {"put", "get", "flush"}

LegalMixes == \A m \in Mixes : Legal(m)
-----------------------------------------------------------------------------
(* Lemmas about a ring of Size bytes with h the head and t the tail. *)

\* The index expressions of the module, without the remainder.
LEMMA Remainders ==
    ASSUME NEW h \in 0 .. Size, NEW t \in Index
    PROVE  /\ (t - h) % Size = IF t >= h THEN t - h ELSE t - h + Size
           /\ (h - t - 1) % Size = Size - 1 - ((t - h) % Size)
           /\ (t - h) % Size \in 0 .. Size - 1
           /\ NextIndex(t) = IF t = Size - 1 THEN 0 ELSE t + 1
           /\ NextIndex(t) \in Index
           /\ \A k \in 1 .. Size : (h + k - 1) % Size =
                                     IF h + k - 1 < Size THEN h + k - 1 ELSE h + k - 1 - Size
<1> USE CbufAssumption DEF Index
<1>1. (t - h) % Size = IF t >= h THEN t - h ELSE t - h + Size
  BY SMT
<1>2. (h - t - 1) % Size = Size - 1 - ((t - h) % Size)
  <2>1. CASE t >= h
    BY <2>1, <1>1, SMT
  <2>2. CASE t < h
    BY <2>2, <1>1, SMT
  <2> QED
    BY <2>1, <2>2
<1>3. (t - h) % Size \in 0 .. Size - 1
  BY <1>1
<1>4. NextIndex(t) = IF t = Size - 1 THEN 0 ELSE t + 1
  BY DEF NextIndex
<1>5. NextIndex(t) \in Index
  BY <1>4
<1>6. ASSUME NEW k \in 1 .. Size
      PROVE  (h + k - 1) % Size = IF h + k - 1 < Size THEN h + k - 1 ELSE h + k - 1 - Size
  BY SMT
<1> QED
  BY <1>1, <1>2, <1>3, <1>4, <1>5, <1>6

\* The ring holds a sequence of bytes.
LEMMA RingType ==
    ASSUME NEW h \in 0 .. Size, NEW t \in Index, NEW d \in [Index -> Byte]
    PROVE  /\ Ring(h, t, d) \in Seq(Byte)
           /\ Len(Ring(h, t, d)) = (t - h) % Size
           /\ \A k \in 1 .. ((t - h) % Size) : Ring(h, t, d)[k] = d[(h + k - 1) % Size]
<1> DEFINE u == (t - h) % Size
<1>1. u \in Nat /\ u <= Size
  BY CbufAssumption, Remainders
<1>2. \A k \in 1 .. u : (h + k - 1) % Size \in Index
  BY <1>1, CbufAssumption, Remainders DEF Index
<1>3. Ring(h, t, d) \in [1 .. u -> Byte]
  BY <1>2 DEF Ring
<1>4. \A k \in 1 .. u : Ring(h, t, d)[k] = d[(h + k - 1) % Size]
  BY DEF Ring
<1>5. Ring(h, t, d) \in Seq(Byte) /\ Len(Ring(h, t, d)) = u
  <2> HIDE DEF u
  <2> QED
    BY <1>1, <1>3, SMT
<1> QED
  BY <1>4, <1>5

\* Bytes outside the part that is in use do not matter.
LEMMA RingAgrees ==
    ASSUME NEW h \in 0 .. Size, NEW t \in Index,
           NEW d \in [Index -> Byte], NEW e \in [Index -> Byte],
           \A k \in 1 .. ((t - h) % Size) : d[(h + k - 1) % Size] = e[(h + k - 1) % Size]
    PROVE  Ring(h, t, d) = Ring(h, t, e)
<1> QED
  BY DEF Ring

\* Moving the head over n bytes takes a prefix off the ring.
LEMMA RingDrop ==
    ASSUME NEW h \in 0 .. Size, NEW t \in Index, NEW d \in [Index -> Byte],
           NEW n \in 0 .. ((t - h) % Size), NEW g \in 0 .. Size,
           g = h + n \/ g = h + n - Size
    PROVE  /\ Ring(g, t, d) = SubSeq(Ring(h, t, d), n + 1, Len(Ring(h, t, d)))
           /\ Len(SubSeq(Ring(h, t, d), 1, n)) = n
           /\ \A k \in 1 .. n : SubSeq(Ring(h, t, d), 1, n)[k] = d[(h + k - 1) % Size]
<1> DEFINE u == (t - h) % Size
           r == Ring(h, t, d)
           s == SubSeq(r, n + 1, Len(r))
<1>1. u \in 0 .. Size - 1 /\ r \in Seq(Byte) /\ Len(r) = u
  BY Remainders, RingType
<1>2. Ring(g, t, d) \in Seq(Byte) /\ Len(Ring(g, t, d)) = (t - g) % Size
  BY RingType
<1>3. /\ s \in Seq(Byte)
      /\ Len(s) = u - n
      /\ \A k \in 1 .. u - n : s[k] = r[n + k]
  <2>1. n + 1 \in 1 .. Len(r) + 1 /\ Len(r) \in 0 .. Len(r)
    BY <1>1, CbufAssumption
  <2> QED
    BY <1>1, SMT
<1>4. (t - g) % Size = u - n
  <2>1. u = IF t >= h THEN t - h ELSE t - h + Size
    BY Remainders
  <2> DEFINE w == (t - g) % Size
  <2>2. w = IF t >= g THEN t - g ELSE t - g + Size
    BY Remainders
  <2> HIDE DEF u, w
  <2>3. w = u - n
    BY <2>1, <2>2, <1>1, CbufAssumption, SMT DEF Index
  <2> QED
    BY <2>3 DEF w
<1>5. ASSUME NEW k \in 1 .. u - n
      PROVE  (g + k - 1) % Size = (h + (n + k) - 1) % Size
  <2>1. k \in 1 .. Size /\ n + k \in 1 .. Size
    BY <1>1, CbufAssumption
  <2>2. /\ (g + k - 1) % Size = IF g + k - 1 < Size THEN g + k - 1 ELSE g + k - 1 - Size
        /\ (h + (n + k) - 1) % Size = IF h + (n + k) - 1 < Size THEN h + (n + k) - 1
                                      ELSE h + (n + k) - 1 - Size
    BY <2>1, Remainders
  <2> HIDE DEF u
  <2> QED
    BY <2>1, <2>2, <1>1, CbufAssumption, SMT DEF Index
<1>6. \A k \in 1 .. u - n : Ring(g, t, d)[k] = s[k]
  <2> TAKE k \in 1 .. u - n
  <2>1. Ring(g, t, d)[k] = d[(g + k - 1) % Size]
    BY <1>4, RingType
  <2>2. n + k \in 1 .. u
    BY <1>1, CbufAssumption
  <2>3. r[n + k] = d[(h + (n + k) - 1) % Size]
    BY <2>2, RingType
  <2> QED
    BY <2>1, <2>3, <1>5, <1>3
<1>7. Ring(g, t, d) = s
  BY <1>2, <1>3, <1>4, <1>6, SeqEqual
<1>8. /\ Len(SubSeq(r, 1, n)) = n
      /\ \A k \in 1 .. n : SubSeq(r, 1, n)[k] = r[k]
  BY <1>1, CbufAssumption, SMT
<1>9. \A k \in 1 .. n : r[k] = d[(h + k - 1) % Size]
  <2>1. \A k \in 1 .. n : k \in 1 .. u
    BY <1>1
  <2> QED
    BY <2>1, RingType
<1> QED
  BY <1>7, <1>8, <1>9

\* Moving the tail over bytes that were written appends them.
LEMMA RingAdd ==
    ASSUME NEW h \in 0 .. Size, NEW t \in Index, NEW d \in [Index -> Byte],
           NEW s \in Seq(Byte), ((t - h) % Size) + Len(s) <= Size - 1,
           NEW v \in Index, v = t + Len(s) \/ v = t + Len(s) - Size,
           \A k \in 1 .. Len(s) : d[(t + k - 1) % Size] = s[k]
    PROVE  Ring(h, v, d) = Ring(h, t, d) \o s
<1> DEFINE u == (t - h) % Size
           r == Ring(h, t, d)
<1>1. u \in 0 .. Size - 1 /\ r \in Seq(Byte) /\ Len(r) = u /\ Len(s) \in Nat
  BY Remainders, RingType
<1>2. Ring(h, v, d) \in Seq(Byte) /\ Len(Ring(h, v, d)) = (v - h) % Size
  BY RingType
<1>3. /\ r \o s \in Seq(Byte)
      /\ Len(r \o s) = u + Len(s)
      /\ \A k \in 1 .. u + Len(s) : (r \o s)[k] = IF k <= u THEN r[k] ELSE s[k - u]
  <2> HIDE DEF r, u
  <2> QED
    BY <1>1, ConcatProperties
<1>4. u = IF t >= h THEN t - h ELSE t - h + Size
  BY Remainders
<1>5. (v - h) % Size = u + Len(s)
  <2> DEFINE w == (v - h) % Size
  <2>1. w = IF v >= h THEN v - h ELSE v - h + Size
    BY Remainders
  <2> DEFINE l == Len(s)
  <2>2. u + l <= Size - 1 /\ (v = t + l \/ v = t + l - Size)
    OBVIOUS
  <2>3. l \in Nat
    BY <1>1
  <2> HIDE DEF u, w, l
  <2>4. w = u + l
    BY <2>1, <2>2, <2>3, <1>1, <1>4, CbufAssumption, SMT DEF Index
  <2> QED
    BY <2>4 DEF w, l
<1>6. ASSUME NEW k \in 1 .. Len(s)
      PROVE  (h + (u + k) - 1) % Size = (t + k - 1) % Size
  <2>1. k \in 1 .. Size /\ u + k \in 1 .. Size
    BY <1>1, CbufAssumption
  <2>2. t \in 0 .. Size
    BY CbufAssumption DEF Index
  <2>3. /\ (t + k - 1) % Size = IF t + k - 1 < Size THEN t + k - 1 ELSE t + k - 1 - Size
        /\ (h + (u + k) - 1) % Size = IF h + (u + k) - 1 < Size THEN h + (u + k) - 1
                                      ELSE h + (u + k) - 1 - Size
    BY <2>1, <2>2, Remainders
  <2> HIDE DEF u
  <2> QED
    BY <2>1, <2>3, <1>1, <1>4, CbufAssumption, SMT DEF Index
<1>7. \A k \in 1 .. u + Len(s) : Ring(h, v, d)[k] = (r \o s)[k]
  <2> TAKE k \in 1 .. u + Len(s)
  <2>1. Ring(h, v, d)[k] = d[(h + k - 1) % Size]
    BY <1>5, RingType
  <2>2. CASE k <= u
    <3>1. k \in 1 .. u
      BY <2>2, <1>1
    <3> QED
      BY <3>1, <2>1, <1>3, RingType
  <2>3. CASE k > u
    <3>1. k - u \in 1 .. Len(s) /\ u + (k - u) = k /\ ~(k <= u)
      BY <2>3, <1>1, CbufAssumption
    <3>2. (h + k - 1) % Size = (t + (k - u) - 1) % Size
      BY <3>1, <1>6
    <3> QED
      BY <3>1, <3>2, <2>1, <1>3
  <2> QED
    BY <2>2, <2>3, <1>1, CbufAssumption
<1> QED
  BY <1>2, <1>3, <1>5, <1>7, SeqEqual
-----------------------------------------------------------------------------
(* The inductive invariant: what the main program knows at each of its steps, *)
(* although the handler has moved the other end since it looked.              *)

\* The bytes of s have been written behind the tail.
Written(s) == \A k \in 1 .. Len(s) : data[(tail + k - 1) % Size] = s[k]

\* The bytes of s are the first in the buffer.
Loaded(s) == \A k \in 1 .. Len(s) : data[(head + k - 1) % Size] = s[k]

\* The calls the use of the buffer allows; only a buffer without handler is
\* left with its head past the end.
InMix ==
    /\ mix.isr = "putch" => pc \in {"idle", "getch_load", "getch_head", "flush_head"}
    /\ mix.isr = "getch" => pc \in {"idle", "putch_check", "putch_tail", "put_wrap", "put_zero",
                                    "put_copy", "put_tail", "flush_head"}
    /\ mix.isr = "none"  => pc \notin {"putch_check", "putch_tail", "getch_load", "getch_head"}
    /\ mix.isr # "none"  => head # Size

PutStage ==
    /\ pc \in {"putch_check", "putch_tail"} => Len(buf) = 1 /\ Written(buf)
    /\ pc = "putch_tail" => Used < Size - 1
    /\ pc \in {"put_wrap", "put_zero", "put_copy", "put_tail"} => Used + Len(buf) <= Size - 1
    /\ pc \in {"put_wrap", "put_zero"} => Len(buf) >= Size - tail
    /\ pc \in {"put_copy", "put_tail"} => Len(buf) < Size - tail
    /\ pc = "put_zero" => Written(SubSeq(buf, 1, Size - tail))
    /\ pc = "put_tail" => Written(buf)

GetStage ==
    /\ pc \in {"getch_load", "getch_head"} => Used >= 1
    /\ pc = "getch_head" => Len(buf) = 1 /\ Loaded(buf)
    /\ pc \in {"get_wrap", "get_zero", "get_copy", "get_head"} => len <= Used
    /\ pc \in {"get_wrap", "get_zero"} => len > Size - head
    /\ pc \in {"get_copy", "get_head"} => len <= Size - head
    /\ pc = "get_zero" => Len(buf) = Size - head /\ Loaded(buf)
    /\ pc = "get_head" => Len(buf) = len /\ Loaded(buf)
    /\ pc = "flush_head" => len \in Index /\ (len - head) % Size <= Used
    /\ pc = "flush_head" /\ mix.isr # "putch" => len = tail

IInv == TypeOK /\ InMix /\ PutStage /\ GetStage
-----------------------------------------------------------------------------
(* Steps of the queue. *)

\* A step that moves the head over n bytes, which were copied out, takes them.
LEMMA TakeStep ==
    ASSUME TypeOK, TypeOK', NEW n \in 0 .. Used,
           head' = head + n \/ head' = head + n - Size,
           UNCHANGED <<tail, data, Offered>>,
           Len(out') = n, \A k \in 1 .. n : out'[k] = data[(head + k - 1) % Size]
    PROVE  Queue!Next
<1> DEFINE s == SubSeq(Contents, 1, n)
<1>1. /\ head \in 0 .. Size /\ head' \in 0 .. Size /\ tail \in Index
      /\ data \in [Index -> Byte] /\ out' \in Seq(Byte)
  BY DEF TypeOK
<1>2. Contents \in Seq(Byte) /\ Len(Contents) = Used
  BY <1>1, RingType DEF Contents, Used
<1>3. /\ Contents' = SubSeq(Contents, n + 1, Len(Contents))
      /\ Len(s) = n
      /\ \A k \in 1 .. n : s[k] = data[(head + k - 1) % Size]
  BY <1>1, RingDrop DEF Contents, Used
<1>4. Used \in Nat
  BY <1>1, Remainders DEF Used
<1>5. s \in Seq(Byte)
  <2> HIDE DEF Contents
  <2> QED
    BY <1>2, <1>4, SMT
<1>6. out' = s
  <2> HIDE DEF s
  <2> QED
    BY <1>1, <1>3, <1>5, SeqEqual
<1>7. Queue!Take(n)
  BY <1>3, <1>6 DEF Queue!Take
<1> QED
  BY <1>2, <1>7 DEF Queue!Next

\* A step that moves the head over n bytes without reading them drops them.
LEMMA DiscardStep ==
    ASSUME TypeOK, TypeOK', NEW n \in 0 .. Used,
           head' = head + n \/ head' = head + n - Size,
           UNCHANGED <<tail, data, Offered, out>>
    PROVE  Queue!Next
<1>1. /\ head \in 0 .. Size /\ head' \in 0 .. Size /\ tail \in Index
      /\ data \in [Index -> Byte]
  BY DEF TypeOK
<1>2. Len(Contents) = Used
  BY <1>1, RingType DEF Contents, Used
<1>3. Contents' = SubSeq(Contents, n + 1, Len(Contents))
  BY <1>1, RingDrop DEF Contents, Used
<1>4. Queue!Discard(n)
  BY <1>3 DEF Queue!Discard
<1> QED
  BY <1>2, <1>4 DEF Queue!Next

\* A step that moves the tail over bytes that were written and offered.
LEMMA AcceptStep ==
    ASSUME TypeOK, TypeOK', NEW n \in 0 .. Len(Offered), Offered \in Seq(Byte),
           Used + n <= Size - 1,
           tail' = tail + n \/ tail' = tail + n - Size,
           Written(SubSeq(Offered, 1, n)),
           Offered' = SubSeq(Offered, n + 1, Len(Offered)),
           UNCHANGED <<head, data, out>>
    PROVE  Queue!Next \/ UNCHANGED Queue!vars
<1> DEFINE s == SubSeq(Offered, 1, n)
<1>1. /\ head \in 0 .. Size /\ tail \in Index /\ tail' \in Index
      /\ data \in [Index -> Byte]
  BY DEF TypeOK
<1>2. s \in Seq(Byte) /\ Len(s) = n
  <2> HIDE DEF Offered
  <2> QED
    BY SMT
<1>3. Len(Contents) = Used
  BY <1>1, RingType DEF Contents, Used
<1>4. \A k \in 1 .. Len(s) : data[(tail + k - 1) % Size] = s[k]
  BY DEF Written
<1>5. Contents' = Contents \o s
  <2> HIDE DEF s
  <2> QED
    BY <1>1, <1>2, <1>4, RingAdd DEF Contents, Used
<1>6. CASE n = 0
  <2>1. SubSeq(Offered, 1, Len(Offered)) = Offered
    BY SubSeqFull
  <2>2. Offered' = Offered
    BY <1>6, <2>1
  <2>3. Contents' = Contents
    BY <1>6, <1>1, CbufAssumption DEF Contents, Index
  <2> QED
    BY <2>2, <2>3 DEF Queue!vars
<1>7. CASE n # 0
  <2>1. n \in 1 .. Len(Offered)
    <3> HIDE DEF Offered
    <3> QED
      BY <1>7, SMT
  <2>2. Queue!Accept(n)
    BY <1>3, <1>5 DEF Queue!Accept
  <2> QED
    BY <2>1, <2>2 DEF Queue!Next
<1> QED
  BY <1>6, <1>7

\* A step that writes outside the part in use, and may offer bytes that fit.
LEMMA OfferStep ==
    ASSUME TypeOK, TypeOK', Offered' = Offered \/ Offered = <<>>,
           Offered' \in Seq(Byte), Used + Len(Offered') <= Size - 1,
           \A k \in 1 .. Used : data'[(head + k - 1) % Size] = data[(head + k - 1) % Size],
           UNCHANGED <<head, tail, out>>
    PROVE  Queue!Next \/ UNCHANGED Queue!vars
<1>1. /\ head \in 0 .. Size /\ tail \in Index
      /\ data \in [Index -> Byte] /\ data' \in [Index -> Byte]
  BY DEF TypeOK
<1>2. Contents' = Contents
  BY <1>1, RingAgrees DEF Contents, Used
<1>3. Len(Contents) = Used /\ Used \in Nat
  BY <1>1, RingType, Remainders DEF Contents, Used
<1>4. CASE Offered' = Offered
  BY <1>2, <1>4 DEF Queue!vars
<1>5. CASE Offered = <<>>
  <2> DEFINE m == Len(Offered')
  <2>1. m \in Nat /\ Offered' \in [1 .. m -> Byte]
    <3> HIDE DEF Offered
    <3> QED
      BY LenProperties
  <2>2. m <= (Size - 1) - Len(Contents) /\ m \in 0 .. (Size - 1) - Len(Contents)
    BY <1>3, <2>1, CbufAssumption
  <2>3. Queue!Offer(Offered')
    BY <1>2, <1>5, <2>2 DEF Queue!Offer, Queue!Room
  <2> HIDE DEF m
  <2> QED
    BY <2>1, <2>2, <2>3 DEF Queue!Next, Queue!Room
<1> QED
  BY <1>4, <1>5
-----------------------------------------------------------------------------
(* Type correctness.  The main program keeps the tail in the array because a  *)
(* block is cut to the room there is, and the head because it is cut to the   *)
(* bytes there are.                                                           *)

LEMMA Arith ==
    ASSUME TypeOK
    PROVE  /\ Used = IF tail >= head THEN tail - head ELSE tail - head + Size
           /\ Used \in 0 .. Size - 1
           /\ Free = Size - 1 - Used
           /\ NextIndex(tail) \in Index
           /\ NextIndex(tail) = IF tail = Size - 1 THEN 0 ELSE tail + 1
           /\ head # Size => /\ NextIndex(head) \in Index
                             /\ NextIndex(head) = IF head = Size - 1 THEN 0 ELSE head + 1
<1>1. head \in 0 .. Size /\ tail \in Index
  BY DEF TypeOK
<1>2. head # Size => head \in Index
  BY <1>1, CbufAssumption DEF Index
<1> QED
  BY <1>1, <1>2, Remainders DEF Used, Free

LEMMA ArithNext ==
    ASSUME TypeOK'
    PROVE  /\ Used' = IF tail' >= head' THEN tail' - head' ELSE tail' - head' + Size
           /\ Used' \in 0 .. Size - 1
<1>1. head' \in 0 .. Size /\ tail' \in Index
  BY DEF TypeOK
<1> QED
  BY <1>1, Remainders DEF Used

LEMMA CopiedInType ==
    ASSUME TypeOK, NEW i \in Index, NEW s \in Seq(Byte)
    PROVE  CopiedIn(i, s) \in [Index -> Byte]
<1>1. ASSUME NEW j \in Index, j \in i .. (i + Len(s) - 1)
      PROVE  s[j - i + 1] \in Byte
  <2>1. j - i + 1 \in 1 .. Len(s)
    BY <1>1, CbufAssumption, LenProperties DEF Index
  <2> QED
    BY <2>1, ElementOfSeq
<1> QED
  BY <1>1 DEF TypeOK, CopiedIn

LEMMA CopiedOutType ==
    ASSUME TypeOK, NEW n \in Nat, head + n <= Size
    PROVE  /\ CopiedOut(head, n) \in Seq(Byte)
           /\ Len(CopiedOut(head, n)) = n
           /\ \A k \in 1 .. n : CopiedOut(head, n)[k] = data[head + k - 1]
<1>1. \A k \in 1 .. n : head + k - 1 \in Index
  BY CbufAssumption DEF TypeOK, Index
<1>2. CopiedOut(head, n) \in [1 .. n -> Byte]
  BY <1>1 DEF CopiedOut, TypeOK
<1>3. CopiedOut(head, n) \in Seq(Byte) /\ Len(CopiedOut(head, n)) = n
  BY <1>2, SMT
<1> QED
  BY <1>3 DEF CopiedOut

LEMMA ByteAtType ==
    ASSUME TypeOK, NEW b \in ByteAt(head)
    PROVE  b \in Byte /\ <<b>> \in Seq(Byte)
<1>1. b \in Byte
  BY DEF ByteAt, TypeOK
<1> QED
  BY <1>1

LEMMA BlockType ==
    ASSUME NEW s \in Block
    PROVE  s \in Seq(Byte) /\ Len(s) \in 0 .. MaxBlock
<1>1. PICK n \in 0 .. MaxBlock : s \in [1 .. n -> Byte]
  BY DEF Block
<1> QED
  BY <1>1, CbufAssumption, SMT

LEMMA TypeStep ==
    ASSUME IInv, Next
    PROVE  TypeOK'
<1> USE CbufAssumption
<1>1. /\ TypeOK /\ PutStage /\ GetStage /\ InMix /\ <<>> \in Seq(Byte)
  BY DEF IInv
<1>2. CASE Isr
  <2>1. CASE IsrPutch
    BY <2>1, <1>1, Arith DEF IsrPutch, TypeOK, Index
  <2>2. CASE IsrGetch
    <3>1. PICK b \in ByteAt(head) : out' = <<b>>
      BY <2>2 DEF IsrGetch
    <3>2. <<b>> \in Seq(Byte)
      BY <1>1, ByteAtType
    <3>3. head # Size
      BY <2>2, <1>1 DEF IsrGetch, InMix
    <3> QED
      BY <2>2, <3>1, <3>2, <3>3, <1>1, Arith DEF IsrGetch, TypeOK, Index
  <2> QED
    BY <1>2, <2>1, <2>2 DEF Isr
<1>3. ASSUME NEW b \in Byte, PutchStore(b) PROVE TypeOK'
  BY <1>1, <1>3 DEF PutchStore, TypeOK, Pc
<1>4. CASE PutchCheck \/ PutchTail
  BY <1>1, <1>4, Arith DEF PutchCheck, PutchTail, TypeOK, Pc
<1>5. ASSUME NEW s \in Block, PutBegin(s) PROVE TypeOK'
  <2>1. s \in Seq(Byte) /\ Len(s) \in Nat
    BY BlockType
  <2>2. Free \in Nat
    BY <1>1, Arith
  <2>3. SubSeq(s, 1, MinOf(Len(s), Free)) \in Seq(Byte)
    <3> DEFINE m == MinOf(Len(s), Free)
    <3>1. m \in 0 .. Len(s)
      BY <2>1, <2>2 DEF MinOf
    <3> HIDE DEF m
    <3>2. SubSeq(s, 1, m) \in Seq(Byte)
      BY <2>1, <3>1, SMT
    <3> QED
      BY <3>2 DEF m
  <2> QED
    BY <1>1, <1>5, <2>3 DEF PutBegin, TypeOK, Pc
<1>6. CASE PutWrap
  <2>1. SubSeq(buf, 1, Size - tail) \in Seq(Byte)
    BY <1>1, <1>6, SMT DEF PutWrap, PutStage, TypeOK, Index
  <2>2. CopiedIn(tail, SubSeq(buf, 1, Size - tail)) \in [Index -> Byte]
    BY <1>1, <2>1, CopiedInType DEF TypeOK
  <2> QED
    BY <1>1, <1>6, <2>2 DEF PutWrap, TypeOK, Pc
<1>7. CASE PutZero
  <2>1. SubSeq(buf, Size - tail + 1, Len(buf)) \in Seq(Byte)
    BY <1>1, <1>7, SMT DEF PutZero, PutStage, TypeOK, Index
  <2> QED
    BY <1>1, <1>7, <2>1 DEF PutZero, TypeOK, Pc, Index
<1>8. CASE PutCopy
  <2>1. CopiedIn(tail, buf) \in [Index -> Byte]
    BY <1>1, CopiedInType DEF TypeOK
  <2> QED
    BY <1>1, <1>8, <2>1 DEF PutCopy, TypeOK, Pc
<1>9. CASE PutTail
  <2>1. Len(buf) \in Nat /\ Len(buf) < Size - tail
    BY <1>1, <1>9 DEF PutTail, PutStage, TypeOK
  <2> QED
    BY <1>1, <1>9, <2>1 DEF PutTail, TypeOK, Pc, Index
<1>10. CASE GetchBegin \/ FlushBegin
  BY <1>1, <1>10 DEF GetchBegin, FlushBegin, TypeOK, Pc, Index
<1>11. CASE GetchLoad
  <2>1. PICK b \in ByteAt(head) : buf' = <<b>>
    BY <1>11 DEF GetchLoad
  <2>2. <<b>> \in Seq(Byte)
    BY <1>1, ByteAtType
  <2> QED
    BY <1>1, <1>11, <2>1, <2>2 DEF GetchLoad, TypeOK, Pc
<1>12. CASE GetchHead
  <2>1. head # Size
    BY <1>1, <1>12 DEF GetchHead, InMix, TypeOK, MixType
  <2> QED
    BY <1>1, <1>12, <2>1, Arith DEF GetchHead, TypeOK, Pc, Index
<1>13. ASSUME NEW n \in 0 .. MaxBlock, GetBegin(n) PROVE TypeOK'
  BY <1>1, <1>13, Arith DEF GetBegin, TypeOK, Pc, MinOf
<1>14. CASE GetWrap
  <2>1. CopiedOut(head, Size - head) \in Seq(Byte)
    BY <1>1, CopiedOutType DEF TypeOK
  <2> QED
    BY <1>1, <1>14, <2>1 DEF GetWrap, TypeOK, Pc
<1>15. CASE GetZero
  BY <1>1, <1>15 DEF GetZero, GetStage, TypeOK, Pc
<1>16. CASE GetCopy
  <2>1. CopiedOut(head, len) \in Seq(Byte)
    BY <1>1, <1>16, CopiedOutType DEF GetCopy, GetStage, TypeOK
  <2> QED
    BY <1>1, <1>16, <2>1 DEF GetCopy, TypeOK, Pc
<1>17. CASE GetHead
  BY <1>1, <1>17 DEF GetHead, GetStage, TypeOK, Pc
<1>18. CASE FlushHead
  BY <1>1, <1>18 DEF FlushHead, GetStage, TypeOK, Pc, Index
<1> QED
  BY <1>2, <1>3, <1>4, <1>5, <1>6, <1>7, <1>8, <1>9, <1>10, <1>11, <1>12, <1>13,
     <1>14, <1>15, <1>16, <1>17, <1>18 DEF Next, Main
-----------------------------------------------------------------------------
(* The invariant is preserved. *)

\* Only the calls of the mix are made.
LEMMA InMixStep ==
    ASSUME LegalMixes, IInv, Next
    PROVE  InMix'
<1> USE CbufAssumption
<1>1. /\ TypeOK /\ InMix /\ GetStage /\ TypeOK'
  BY TypeStep DEF IInv
<1>2. Legal(mix) /\ mix \in MixType /\ mix' = mix
  <2>1. mix' = mix
    BY DEF Next, Isr, Main, IsrPutch, IsrGetch, PutchStore, PutchCheck, PutchTail, PutBegin,
           PutWrap, PutZero, PutCopy, PutTail, GetchBegin, GetchLoad, GetchHead, GetBegin,
           GetWrap, GetZero, GetCopy, GetHead, FlushBegin, FlushHead
  <2> QED
    BY <2>1, <1>1 DEF LegalMixes, TypeOK
<1>3. mix.isr # "none" => head' # Size
  <2>1. SUFFICES ASSUME mix.isr # "none", head' # head
                 PROVE  head' \in Index
    BY <1>1, <1>2 DEF InMix, Index
  <2>2. mix.isr \in {"putch", "getch"} /\ head # Size
    BY <1>1, <1>2, <2>1 DEF MixType, InMix
  <2>3. CASE IsrGetch \/ GetchHead
    BY <2>2, <2>3, <1>1, Arith DEF IsrGetch, GetchHead
  <2>4. CASE FlushHead
    BY <2>4, <1>1 DEF FlushHead, GetStage
  <2>5. CASE GetZero \/ GetHead
    BY <2>2, <2>5, <1>1 DEF GetZero, GetHead, InMix
  <2> QED
    BY <2>1, <2>3, <2>4, <2>5
    DEF Next, Isr, Main, IsrPutch, PutchStore, PutchCheck, PutchTail, PutBegin,
        PutWrap, PutZero, PutCopy, PutTail, GetchBegin, GetchLoad, GetBegin,
        GetWrap, GetCopy, FlushBegin
<1>4. CASE Isr
  BY <1>1, <1>2, <1>3, <1>4 DEF Isr, IsrPutch, IsrGetch, InMix
<1>5. ASSUME NEW b \in Byte, PutchStore(b) PROVE InMix'
  BY <1>1, <1>2, <1>3, <1>5 DEF PutchStore, Calls, Legal, InMix
<1>6. ASSUME NEW s \in Block, PutBegin(s) PROVE InMix'
  BY <1>1, <1>2, <1>3, <1>6 DEF PutBegin, Calls, Legal, InMix
<1>7. ASSUME NEW n \in 0 .. MaxBlock, GetBegin(n) PROVE InMix'
  BY <1>1, <1>2, <1>3, <1>7 DEF GetBegin, Calls, Legal, InMix
<1>8. CASE GetchBegin \/ FlushBegin
  BY <1>1, <1>2, <1>3, <1>8 DEF GetchBegin, FlushBegin, Calls, Legal, InMix
<1>9. CASE PutchCheck \/ PutchTail \/ PutWrap \/ PutZero \/ PutCopy \/ PutTail
  BY <1>1, <1>2, <1>3, <1>9
  DEF PutchCheck, PutchTail, PutWrap, PutZero, PutCopy, PutTail, InMix
<1>10. CASE GetchLoad \/ GetchHead \/ GetWrap \/ GetZero \/ GetCopy \/ GetHead \/ FlushHead
  BY <1>1, <1>2, <1>3, <1>10
  DEF GetchLoad, GetchHead, GetWrap, GetZero, GetCopy, GetHead, FlushHead, InMix
<1> QED
  BY <1>4, <1>5, <1>6, <1>7, <1>8, <1>9, <1>10 DEF Next, Main

\* The handler takes a byte: there is one less, and nothing else changes.
LEMMA HandlerTakes ==
    ASSUME TypeOK, TypeOK', InMix, IsrGetch
    PROVE  Used >= 1 /\ Used' = Used - 1
<1>1. head # Size /\ head # tail /\ head' = NextIndex(head) /\ tail' = tail
  BY DEF IsrGetch, InMix
<1>2. head \in Index /\ tail \in Index
  BY <1>1, CbufAssumption DEF TypeOK, Index
<1>3. Used = IF tail >= head THEN tail - head ELSE tail - head + Size
  BY Arith
<1>4. Used' = IF tail >= head' THEN tail - head' ELSE tail - head' + Size
  BY <1>1, ArithNext
<1>5. CASE head = Size - 1
  BY <1>1, <1>2, <1>3, <1>4, <1>5, Arith, CbufAssumption DEF Index
<1>6. CASE head # Size - 1
  BY <1>1, <1>2, <1>3, <1>4, <1>6, Arith, CbufAssumption DEF Index
<1> QED
  BY <1>5, <1>6

\* The handler adds a byte, if there is room, behind the bytes there are.
LEMMA HandlerAdds ==
    ASSUME TypeOK, TypeOK', InMix, IsrPutch
    PROVE  /\ NextIndex(tail) = head => Used' = Used /\ tail' = tail /\ Used = Size - 1
           /\ NextIndex(tail) # head => Used' = Used + 1 /\ tail' = NextIndex(tail)
           /\ \A i \in Index : i # tail => data'[i] = data[i]
<1>1. /\ head # Size /\ head' = head
      /\ tail' = IF NextIndex(tail) = head THEN tail ELSE NextIndex(tail)
      /\ \E b \in Byte : data' = [data EXCEPT ![tail] = b]
  BY DEF IsrPutch, InMix
<1>2. NextIndex(tail) = head => Used' = Used /\ tail' = tail /\ Used = Size - 1
  BY <1>1, Arith, ArithNext, CbufAssumption DEF TypeOK, Index
<1>3. ASSUME NextIndex(tail) # head
      PROVE  Used' = Used + 1 /\ tail' = NextIndex(tail)
  <2>1. head \in Index /\ tail \in Index /\ tail' = NextIndex(tail)
    BY <1>1, <1>3, CbufAssumption DEF TypeOK, Index
  <2>2. Used = IF tail >= head THEN tail - head ELSE tail - head + Size
    BY Arith
  <2>3. Used' = IF tail' >= head THEN tail' - head ELSE tail' - head + Size
    BY <1>1, ArithNext
  <2>4. CASE tail = Size - 1
    BY <1>3, <2>1, <2>2, <2>3, <2>4, Arith, CbufAssumption DEF Index
  <2>5. CASE tail # Size - 1
    BY <1>3, <2>1, <2>2, <2>3, <2>5, Arith, CbufAssumption DEF Index
  <2> QED
    BY <2>1, <2>4, <2>5
<1>4. \A i \in Index : i # tail => data'[i] = data[i]
  BY <1>1 DEF TypeOK
<1> QED
  BY <1>2, <1>3, <1>4

\* Where the k-th byte of the buffer is, and the k-th place behind them.
LEMMA Places ==
    ASSUME TypeOK, NEW k \in 1 .. Size
    PROVE  /\ (head + k - 1) % Size = IF head + k - 1 < Size THEN head + k - 1
                                      ELSE head + k - 1 - Size
           /\ (tail + k - 1) % Size = IF tail + k - 1 < Size THEN tail + k - 1
                                      ELSE tail + k - 1 - Size
           /\ (head + k - 1) % Size \in Index
           /\ (tail + k - 1) % Size \in Index
           /\ k <= Used => \A i \in tail .. (tail + Size - 1 - Used) : (head + k - 1) % Size # i
<1> DEFINE p == (head + k - 1) % Size
           r == (tail + k - 1) % Size
<1>1. head \in 0 .. Size /\ tail \in 0 .. Size /\ tail \in Index
  BY CbufAssumption DEF TypeOK, Index
<1>2. p = IF head + k - 1 < Size THEN head + k - 1 ELSE head + k - 1 - Size
  BY <1>1, Remainders
<1>3. r = IF tail + k - 1 < Size THEN tail + k - 1 ELSE tail + k - 1 - Size
  BY <1>1, Remainders
<1> HIDE DEF p, r
<1>4. p \in Index /\ r \in Index
  BY <1>1, <1>2, <1>3, CbufAssumption DEF Index
<1>5. ASSUME k <= Used, NEW i \in tail .. (tail + Size - 1 - Used), p = i
      PROVE  FALSE
  <2> DEFINE u == Used
  <2>1. u = IF tail >= head THEN tail - head ELSE tail - head + Size
    BY Arith
  <2>2. k <= u /\ i \in tail .. (tail + Size - 1 - u) /\ p = i
    BY <1>5
  <2> HIDE DEF u
  <2> QED
    BY <1>1, <1>2, <2>1, <2>2, CbufAssumption, SMT DEF Index
<1> QED
  BY <1>2, <1>3, <1>4, <1>5 DEF p, r

\* memcpy() into the buffer writes the bytes behind the tail ...
LEMMA CopyWrites ==
    ASSUME TypeOK, NEW s \in Seq(Byte), Len(s) <= Size - tail
    PROVE  \A k \in 1 .. Len(s) : CopiedIn(tail, s)[(tail + k - 1) % Size] = s[k]
<1> TAKE k \in 1 .. Len(s)
<1>1. Len(s) \in Nat /\ tail \in Index
  BY DEF TypeOK
<1>2. k \in 1 .. Size /\ tail + k - 1 \in Index /\ tail + k - 1 \in tail .. (tail + Len(s) - 1)
  BY <1>1, CbufAssumption DEF Index
<1>3. (tail + k - 1) % Size = tail + k - 1
  BY <1>2, Places, CbufAssumption DEF Index
<1>4. CopiedIn(tail, s)[tail + k - 1] = s[(tail + k - 1) - tail + 1]
  BY <1>2 DEF CopiedIn
<1>5. (tail + k - 1) - tail + 1 = k
  BY <1>1, CbufAssumption DEF Index
<1> QED
  BY <1>3, <1>4, <1>5

\* ... and none of those that are in the buffer, if they fit.
LEMMA CopyKeeps ==
    ASSUME TypeOK, NEW s \in Seq(Byte), Used + Len(s) <= Size, NEW k \in 1 .. Used
    PROVE  CopiedIn(tail, s)[(head + k - 1) % Size] = data[(head + k - 1) % Size]
<1>1. Len(s) \in Nat /\ Used \in 0 .. Size - 1 /\ tail \in Index
  BY Arith DEF TypeOK
<1>2. k \in 1 .. Size
  BY <1>1, CbufAssumption
<1> DEFINE p == (head + k - 1) % Size
<1>3. p \in Index /\ \A i \in tail .. (tail + Size - 1 - Used) : p # i
  BY <1>2, Places
<1> HIDE DEF p
<1>4. \A i \in tail .. (tail + Len(s) - 1) : i \in tail .. (tail + Size - 1 - Used)
  BY <1>1, CbufAssumption DEF Index
<1>5. CopiedIn(tail, s)[p] = data[p]
  BY <1>3, <1>4 DEF CopiedIn
<1> QED
  BY <1>5 DEF p

LEMMA PutStageStep ==
    ASSUME LegalMixes, IInv, Next
    PROVE  PutStage'
<1> USE CbufAssumption
<1>1. /\ TypeOK /\ InMix /\ PutStage /\ TypeOK' /\ InMix'
  BY TypeStep, InMixStep DEF IInv
<1>2. /\ tail \in Index /\ head \in 0 .. Size /\ buf \in Seq(Byte) /\ Len(buf) \in Nat
      /\ Used \in 0 .. Size - 1
  BY <1>1, Arith DEF TypeOK
<1>3. CASE IsrPutch
  BY <1>1, <1>3 DEF IsrPutch, InMix, PutStage
<1>4. CASE IsrGetch
  <2>1. Used' = Used - 1
    BY <1>1, <1>4, HandlerTakes
  <2>3. UNCHANGED <<tail, buf, pc>>
    BY <1>4 DEF IsrGetch
  <2> HIDE DEF Written
  <2>4. Written(buf)' <=> Written(buf)
    BY <1>4 DEF IsrGetch, Written
  <2>5. Written(SubSeq(buf, 1, Size - tail))' <=> Written(SubSeq(buf, 1, Size - tail))
    BY <1>4 DEF IsrGetch, Written
  <2> QED
    BY <1>1, <1>2, <2>1, <2>3, <2>4, <2>5 DEF PutStage
<1>5. ASSUME NEW b \in Byte, PutchStore(b) PROVE PutStage'
  <2>1. /\ pc' = "putch_check" /\ buf' = <<b>> /\ tail' = tail
        /\ data' = [data EXCEPT ![tail] = b]
    BY <1>5 DEF PutchStore
  <2>2. data'[tail] = b
    BY <2>1, <1>1, <1>2 DEF TypeOK
  <2>3. (tail + 1 - 1) % Size = tail
    BY <1>1, <1>2, Places DEF Index
  <2>4. Written(buf)'
    BY <2>1, <2>2, <2>3 DEF Written
  <2> QED
    BY <2>1, <2>4 DEF PutStage
<1>6. CASE PutchCheck
  <2>1. CASE NextIndex(tail) = head
    BY <1>6, <2>1 DEF PutchCheck, PutStage
  <2>2. CASE NextIndex(tail) # head
    <3>1. pc' = "putch_tail" /\ UNCHANGED <<buf, tail, data, head>> /\ Len(buf) = 1 /\ Written(buf)
      BY <1>1, <1>6, <2>2 DEF PutchCheck, PutStage
    <3>2. head # Size
      BY <1>1, <1>6 DEF PutchCheck, InMix, TypeOK, MixType
    <3>3. Used < Size - 1
      <4>1. CASE tail = Size - 1
        BY <4>1, <2>2, <3>2, <1>1, <1>2, Arith DEF Index
      <4>2. CASE tail # Size - 1
        BY <4>2, <2>2, <3>2, <1>1, <1>2, Arith DEF Index
      <4> QED
        BY <4>1, <4>2
    <3>4. Used' = Used /\ Written(buf)'
      BY <3>1 DEF Used, Written
    <3> QED
      BY <3>1, <3>3, <3>4 DEF PutStage
  <2> QED
    BY <2>1, <2>2
<1>7. ASSUME NEW s \in Block, PutBegin(s) PROVE PutStage'
  <2>1. s \in Seq(Byte) /\ Len(s) \in Nat /\ Free = Size - 1 - Used
    BY <1>1, BlockType, Arith
  <2>2. Len(buf') <= Size - 1 - Used /\ Len(buf') \in Nat
    <3> DEFINE m == MinOf(Len(s), Free)
    <3>1. m \in 0 .. Len(s) /\ m <= Free
      BY <2>1, <1>2 DEF MinOf
    <3> HIDE DEF m
    <3>2. Len(SubSeq(s, 1, m)) = m
      BY <2>1, <3>1, SMT
    <3>3. buf' = SubSeq(s, 1, m)
      BY <1>7 DEF PutBegin, m
    <3> QED
      BY <2>1, <3>1, <3>2, <3>3
  <2>3. UNCHANGED <<tail, head>> /\ pc' = IF Len(buf') >= Size - tail THEN "put_wrap" ELSE "put_copy"
    BY <1>7 DEF PutBegin
  <2>4. Used' = Used
    BY <2>3 DEF Used
  <2> QED
    BY <1>2, <2>2, <2>3, <2>4 DEF PutStage, Index
<1>8. CASE PutWrap
  <2> DEFINE s == SubSeq(buf, 1, Size - tail)
  <2>1. /\ Used + Len(buf) <= Size - 1 /\ Len(buf) >= Size - tail
        /\ data' = CopiedIn(tail, s) /\ pc' = "put_zero" /\ UNCHANGED <<head, tail, buf>>
    BY <1>1, <1>8 DEF PutWrap, PutStage
  <2>2. s \in Seq(Byte) /\ Len(s) = Size - tail
    BY <1>2, <2>1, SMT DEF Index
  <2> HIDE DEF s
  <2>3. \A k \in 1 .. Len(s) : CopiedIn(tail, s)[(tail + k - 1) % Size] = s[k]
    <3>1. Len(s) <= Size - tail
      BY <2>2, <1>2 DEF Index
    <3> QED
      BY <1>1, <2>2, <3>1, CopyWrites
  <2>4. \A k \in 1 .. Len(s) : data'[(tail' + k - 1) % Size] = s[k]
    BY <2>1, <2>3
  <2>5. Written(SubSeq(buf, 1, Size - tail))'
    BY <2>1, <2>4 DEF Written, s
  <2>6. Used' = Used
    BY <2>1 DEF Used
  <2> QED
    BY <2>1, <2>5, <2>6 DEF PutStage
<1>9. CASE PutZero
  <2>1. /\ Used + Len(buf) <= Size - 1 /\ Len(buf) >= Size - tail
        /\ pc' = "put_copy" /\ tail' = 0 /\ head' = head
        /\ buf' = SubSeq(buf, Size - tail + 1, Len(buf))
    BY <1>1, <1>9 DEF PutZero, PutStage
  <2>2. Len(buf') = Len(buf) - (Size - tail)
    BY <1>2, <2>1, SMT DEF Index
  <2>3. Used + Len(buf') <= tail - 1 /\ Len(buf') \in Nat /\ Len(buf') < Size
    BY <1>2, <2>1, <2>2 DEF Index
  <2>4. Used = IF tail >= head THEN tail - head ELSE tail - head + Size
    BY <1>1, Arith
  <2>5. Used' = IF 0 >= head THEN 0 - head ELSE 0 - head + Size
    BY <1>1, <2>1, ArithNext
  <2>6. head > 0 /\ tail >= head
    BY <1>2, <2>3, <2>4 DEF Index
  <2>7. Used' = Used + (Size - tail)
    BY <1>2, <2>4, <2>5, <2>6 DEF Index
  <2>8. Len(buf') < Size - tail' /\ Used' + Len(buf') <= Size - 1
    <3> DEFINE m == Len(buf')
    <3>1. m \in Nat /\ m < Size /\ Used + m <= tail - 1
      BY <2>3
    <3> HIDE DEF m
    <3>2. m < Size - 0 /\ Used' + m <= Size - 1
      BY <1>2, <2>7, <3>1 DEF Index
    <3> QED
      BY <2>1, <3>2 DEF m
  <2> QED
    BY <2>1, <2>8 DEF PutStage
<1>10. CASE PutCopy
  <2>1. /\ Used + Len(buf) <= Size - 1 /\ Len(buf) < Size - tail
        /\ data' = CopiedIn(tail, buf) /\ pc' = "put_tail" /\ UNCHANGED <<head, tail, buf>>
    BY <1>1, <1>10 DEF PutCopy, PutStage
  <2>2. \A k \in 1 .. Len(buf) : CopiedIn(tail, buf)[(tail + k - 1) % Size] = buf[k]
    <3>1. Len(buf) <= Size - tail
      BY <2>1, <1>2 DEF Index
    <3> QED
      BY <1>1, <1>2, <3>1, CopyWrites
  <2>3. Written(buf)' /\ Used' = Used
    BY <2>1, <2>2 DEF Written, Used
  <2> QED
    BY <2>1, <2>3 DEF PutStage
<1>11. CASE PutchTail \/ PutTail \/ GetchBegin \/ GetchLoad \/ GetchHead \/ GetWrap \/ GetZero
            \/ GetCopy \/ GetHead \/ FlushBegin \/ FlushHead
  BY <1>11 DEF PutchTail, PutTail, GetchBegin, GetchLoad, GetchHead, GetWrap, GetZero,
               GetCopy, GetHead, FlushBegin, FlushHead, PutStage
<1>12. ASSUME NEW n \in 0 .. MaxBlock, GetBegin(n) PROVE PutStage'
  BY <1>12 DEF GetBegin, PutStage
<1> QED
  BY <1>3, <1>4, <1>5, <1>6, <1>7, <1>8, <1>9, <1>10, <1>11, <1>12 DEF Next, Isr, Main

LEMMA GetStageStep ==
    ASSUME LegalMixes, IInv, Next
    PROVE  GetStage'
<1> USE CbufAssumption
<1>1. /\ TypeOK /\ InMix /\ GetStage /\ TypeOK' /\ InMix'
  BY TypeStep, InMixStep DEF IInv
<1>2. /\ tail \in Index /\ head \in 0 .. Size /\ buf \in Seq(Byte) /\ len \in 0 .. Size
      /\ Used \in 0 .. Size - 1
  BY <1>1, Arith DEF TypeOK
<1>3. head # Size => (head + 1 - 1) % Size = head
  BY <1>1, <1>2, Places DEF Index
<1>4. CASE IsrPutch
  <2>1. /\ Used' >= Used
        /\ \A i \in Index : i # tail => data'[i] = data[i]
        /\ UNCHANGED <<head, pc, buf, len, mix>> /\ mix.isr = "putch" /\ head \in Index
    <3>1. UNCHANGED <<head, pc, buf, len, mix>> /\ mix.isr = "putch" /\ head \in Index
      BY <1>1, <1>2, <1>4 DEF IsrPutch, InMix, Index
    <3>2. \A i \in Index : i # tail => data'[i] = data[i]
      BY <1>1, <1>4, HandlerAdds
    <3>3. Used' = Used \/ Used' = Used + 1
      BY <1>1, <1>4, HandlerAdds
    <3> QED
      BY <1>2, <3>1, <3>2, <3>3
  <2>2. pc = "getch_head" => Loaded(buf)'
    <3>1. SUFFICES ASSUME pc = "getch_head"
                   PROVE  Loaded(buf)'
      OBVIOUS
    <3>2. Len(buf) = 1 /\ Loaded(buf) /\ Used >= 1
      BY <1>1, <3>1 DEF GetStage
    <3>3. data[(head + 1 - 1) % Size] = buf[1]
      BY <3>2 DEF Loaded
    <3>4. head # tail
      BY <3>2, <1>1, <1>2, Arith DEF Index
    <3>5. head \in Index /\ (head + 1 - 1) % Size = head
      BY <1>3, <2>1 DEF Index
    <3>6. data'[(head + 1 - 1) % Size] = buf[1]
      BY <2>1, <3>3, <3>4, <3>5
    <3> QED
      BY <2>1, <3>2, <3>6 DEF Loaded
  <2>3. pc = "flush_head" => (len' - head') % Size <= Used'
    <3>1. SUFFICES ASSUME pc = "flush_head"
                   PROVE  (len - head) % Size <= Used'
      BY <2>1
    <3> DEFINE w == (len - head) % Size
    <3>2. w <= Used /\ w \in Int
      BY <1>1, <1>2, <3>1, Remainders DEF GetStage
    <3> HIDE DEF w
    <3>3. Used' \in Int
      BY <1>1, ArithNext
    <3>4. w <= Used'
      BY <1>2, <2>1, <3>2, <3>3
    <3> QED
      BY <3>4 DEF w
  <2>4. pc \in {"idle", "getch_load", "getch_head", "flush_head"}
    BY <1>1, <2>1 DEF InMix
  <2>5. Used >= 1 => Used' >= 1
    BY <1>1, <1>2, <2>1, ArithNext
  <2> QED
    BY <1>1, <2>1, <2>2, <2>3, <2>4, <2>5 DEF GetStage
<1>5. CASE IsrGetch
  <2>1. /\ UNCHANGED <<tail, pc, buf, len, mix>> /\ mix.isr = "getch"
        /\ pc \in {"idle", "putch_check", "putch_tail", "put_wrap", "put_zero",
                   "put_copy", "put_tail", "flush_head"}
    BY <1>1, <1>5 DEF IsrGetch, InMix
  <2>2. pc = "flush_head" => len = tail /\ (len' - head') % Size = Used'
    BY <1>1, <2>1 DEF GetStage, Used
  <2>3. Used' <= Used'
    BY <1>1, ArithNext
  <2> QED
    BY <1>1, <1>2, <2>1, <2>2, <2>3 DEF GetStage
<1>6. CASE GetchBegin
  <2>1. head # tail /\ head # Size /\ UNCHANGED <<head, tail>> /\ pc' = "getch_load"
    BY <1>1, <1>6 DEF GetchBegin, InMix, TypeOK, MixType
  <2>2. Used' >= 1
    BY <1>1, <1>2, <2>1, Arith DEF Used, Index
  <2> QED
    BY <2>1, <2>2 DEF GetStage
<1>7. CASE GetchLoad
  <2>1. PICK b \in ByteAt(head) : buf' = <<b>>
    BY <1>7 DEF GetchLoad
  <2>2. /\ head # Size /\ UNCHANGED <<head, tail, data>> /\ pc' = "getch_head" /\ Used >= 1
    BY <1>1, <1>7 DEF GetchLoad, InMix, TypeOK, MixType, GetStage
  <2>3. b = data[head]
    BY <1>2, <2>1, <2>2 DEF ByteAt, Index
  <2>4. Loaded(buf)' /\ Len(buf') = 1
    BY <1>3, <2>1, <2>2, <2>3 DEF Loaded
  <2>5. Used' = Used
    BY <2>2 DEF Used
  <2> QED
    BY <2>2, <2>4, <2>5 DEF GetStage
<1>8. ASSUME NEW n \in 0 .. MaxBlock, GetBegin(n) PROVE GetStage'
  <2>1. /\ len' = MinOf(n, Used) /\ UNCHANGED <<head, tail>>
        /\ pc' = IF len' > Size - head THEN "get_wrap" ELSE "get_copy"
    BY <1>8 DEF GetBegin
  <2>2. len' <= Used /\ Used' = Used
    BY <1>2, <2>1 DEF MinOf, Used
  <2> QED
    BY <1>2, <2>1, <2>2 DEF GetStage, MinOf
<1>9. CASE GetWrap
  <2>1. /\ len <= Used /\ len > Size - head /\ buf' = CopiedOut(head, Size - head)
        /\ pc' = "get_zero" /\ UNCHANGED <<head, tail, data, len>>
    BY <1>1, <1>9 DEF GetWrap, GetStage
  <2>2. /\ Len(buf') = Size - head
        /\ \A k \in 1 .. Size - head : buf'[k] = data[head + k - 1]
    BY <1>1, <1>2, <2>1, CopiedOutType
  <2>3. \A k \in 1 .. Size - head : (head + k - 1) % Size = head + k - 1
    <3> TAKE k \in 1 .. Size - head
    <3>1. k \in 1 .. Size /\ head + k - 1 < Size
      BY <1>2
    <3> QED
      BY <1>1, <3>1, Places
  <2>4. Loaded(buf)' /\ Used' = Used
    BY <2>1, <2>2, <2>3 DEF Loaded, Used
  <2> QED
    BY <2>1, <2>2, <2>4 DEF GetStage
<1>10. CASE GetZero
  <2>1. /\ len <= Used /\ len > Size - head /\ len' = len - (Size - head)
        /\ head' = 0 /\ tail' = tail /\ pc' = "get_copy"
    BY <1>1, <1>10 DEF GetZero, GetStage
  <2>2. Used = tail - head + Size
    BY <1>1, <1>2, <2>1, Arith DEF Index
  <2>3. Used' = tail
    BY <1>1, <1>2, <2>1, ArithNext DEF Index
  <2>4. len' <= Used' /\ len' <= Size - head'
    BY <1>2, <2>1, <2>2, <2>3 DEF Index
  <2> QED
    BY <2>1, <2>4 DEF GetStage
<1>11. CASE GetCopy
  <2>1. /\ len <= Used /\ len <= Size - head /\ buf' = CopiedOut(head, len)
        /\ pc' = "get_head" /\ UNCHANGED <<head, tail, data, len>>
    BY <1>1, <1>11 DEF GetCopy, GetStage
  <2>2. Len(buf') = len /\ \A k \in 1 .. len : buf'[k] = data[head + k - 1]
    <3>1. len \in Nat /\ head + len <= Size
      BY <1>2, <2>1
    <3> QED
      BY <1>1, <2>1, <3>1, CopiedOutType
  <2>3. \A k \in 1 .. len : (head + k - 1) % Size = head + k - 1
    <3> TAKE k \in 1 .. len
    <3>1. k \in 1 .. Size /\ head + k - 1 < Size
      BY <1>2, <2>1
    <3> QED
      BY <1>1, <3>1, Places
  <2>4. Loaded(buf)' /\ Used' = Used
    BY <2>1, <2>2, <2>3 DEF Loaded, Used
  <2> QED
    BY <2>1, <2>2, <2>4 DEF GetStage
<1>12. CASE FlushBegin
  <2>1. len' = tail /\ UNCHANGED <<head, tail>> /\ pc' = "flush_head"
    BY <1>12 DEF FlushBegin
  <2>2. (len' - head') % Size = Used /\ Used' = Used
    BY <2>1 DEF Used
  <2>3. Used <= Used
    BY <1>2
  <2> QED
    BY <1>2, <2>1, <2>2, <2>3 DEF GetStage
<1>13. ASSUME NEW b \in Byte, PutchStore(b) PROVE GetStage'
  BY <1>13 DEF PutchStore, GetStage
<1>14. ASSUME NEW s \in Block, PutBegin(s) PROVE GetStage'
  BY <1>14 DEF PutBegin, GetStage
<1>15. CASE PutchCheck \/ PutchTail \/ PutWrap \/ PutZero \/ PutCopy \/ PutTail \/ GetchHead
            \/ GetHead \/ FlushHead
  BY <1>15 DEF PutchCheck, PutchTail, PutWrap, PutZero, PutCopy, PutTail, GetchHead, GetHead,
               FlushHead, GetStage
<1> QED
  BY <1>4, <1>5, <1>6, <1>7, <1>8, <1>9, <1>10, <1>11, <1>12, <1>13, <1>14, <1>15
  DEF Next, Isr, Main
-----------------------------------------------------------------------------
(* Every step is a step of the queue, or changes nothing the queue shows. *)

LEMMA QueueStep ==
    ASSUME LegalMixes, IInv, Next
    PROVE  Queue!Next \/ UNCHANGED Queue!vars
<1> USE CbufAssumption
<1>1. /\ TypeOK /\ InMix /\ PutStage /\ GetStage /\ TypeOK'
  BY TypeStep DEF IInv
<1>2. /\ tail \in Index /\ head \in 0 .. Size /\ buf \in Seq(Byte) /\ len \in 0 .. Size
      /\ Used \in 0 .. Size - 1 /\ Len(buf) \in Nat /\ Contents \in Seq(Byte)
      /\ data \in [Index -> Byte]
  <2>1. /\ tail \in Index /\ head \in 0 .. Size /\ buf \in Seq(Byte) /\ len \in 0 .. Size
        /\ data \in [Index -> Byte]
    BY <1>1 DEF TypeOK
  <2>2. Contents \in Seq(Byte)
    BY <2>1, RingType DEF Contents
  <2> QED
    BY <1>1, <2>1, <2>2, Arith, LenProperties
<1>3. head # Size => (head + 1 - 1) % Size = head
  BY <1>1, <1>2, Places DEF Index
<1>4. CASE IsrGetch
  <2>1. PICK b \in ByteAt(head) : out' = <<b>>
    BY <1>4 DEF IsrGetch
  <2>2. /\ head # Size /\ head # tail /\ head' = NextIndex(head)
        /\ UNCHANGED <<tail, data, Offered>>
    BY <1>1, <1>4 DEF IsrGetch, InMix, Offered
  <2>3. 1 \in 0 .. Used /\ (head' = head + 1 \/ head' = head + 1 - Size)
    BY <1>1, <1>2, <2>2, Arith, HandlerTakes, <1>4 DEF Index
  <2>4. b = data[head]
    BY <1>2, <2>1, <2>2 DEF ByteAt, Index
  <2>5. Len(out') = 1 /\ \A k \in 1 .. 1 : out'[k] = data[(head + k - 1) % Size]
    BY <1>3, <2>1, <2>2, <2>4
  <2> QED
    BY <1>1, <2>2, <2>3, <2>5, TakeStep
<1>5. CASE IsrPutch
  <2>1. PICK b \in Byte : data' = [data EXCEPT ![tail] = b]
    BY <1>5 DEF IsrPutch
  <2>2. /\ UNCHANGED <<head, out, pc, buf>> /\ head # Size
        /\ tail' = IF NextIndex(tail) = head THEN tail ELSE NextIndex(tail)
    BY <1>1, <1>5 DEF IsrPutch, InMix
  <2>3. \A k \in 1 .. Used : data'[(head + k - 1) % Size] = data[(head + k - 1) % Size]
    <3> TAKE k \in 1 .. Used
    <3>1. k \in 1 .. Size /\ tail \in tail .. (tail + Size - 1 - Used) /\ k <= Used
      BY <1>2 DEF Index
    <3>2. (head + k - 1) % Size \in Index /\ (head + k - 1) % Size # tail
      BY <1>1, <3>1, Places
    <3> QED
      BY <1>2, <2>1, <3>2
  <2>4. Offered' = Offered
    BY <2>2 DEF Offered
  <2>5. Ring(head, tail, data') = Contents
    <3>1. data' \in [Index -> Byte]
      BY <1>1 DEF TypeOK
    <3> QED
      BY <1>2, <2>3, <3>1, RingAgrees DEF Contents, Used
  <2>6. CASE NextIndex(tail) = head
    BY <2>2, <2>4, <2>5, <2>6 DEF Queue!vars, Contents
  <2>7. CASE NextIndex(tail) # head
    <3>1. Used' = Used + 1 /\ tail' = NextIndex(tail)
      BY <1>1, <1>5, <2>7, HandlerAdds
    <3>2. Used' <= Size - 1
      BY <1>1, ArithNext
    <3>3. <<b>> \in Seq(Byte) /\ Len(<<b>>) = 1 /\ <<b>>[1] = b
      OBVIOUS
    <3>4. data'[(tail + 1 - 1) % Size] = b
      <4>1. (tail + 1 - 1) % Size = tail
        BY <1>1, <1>2, Places DEF Index
      <4> QED
        BY <1>2, <2>1, <4>1
    <3>5. tail' \in Index /\ (tail' = tail + 1 \/ tail' = tail + 1 - Size)
      BY <1>1, <1>2, <3>1, Arith DEF Index
    <3>6. Ring(head, tail', data') = Ring(head, tail, data') \o <<b>>
      <4> DEFINE s == <<b>>
      <4>1. data' \in [Index -> Byte]
        BY <1>1 DEF TypeOK
      <4>2. \A k \in 1 .. Len(s) : data'[(tail + k - 1) % Size] = s[k]
        BY <3>3, <3>4
      <4>3. ((tail - head) % Size) + Len(s) <= Size - 1
        BY <1>2, <3>1, <3>2, <3>3 DEF Used
      <4>4. tail' = tail + Len(s) \/ tail' = tail + Len(s) - Size
        BY <3>3, <3>5
      <4>5. s \in Seq(Byte)
        BY <3>3
      <4> HIDE DEF s
      <4>6. head \in 0 .. Size /\ tail \in Index /\ tail' \in Index
        BY <1>2, <3>5
      <4>7. Ring(head, tail', data') = Ring(head, tail, data') \o s
        BY <4>1, <4>2, <4>3, <4>4, <4>5, <4>6, RingAdd, SMTT(30)
      <4> QED
        BY <4>7 DEF s
    <3>7. Contents' = Append(Contents, b)
      <4>1. Contents' = Contents \o <<b>>
        BY <2>2, <2>5, <3>6 DEF Contents
      <4> HIDE DEF Contents
      <4>2. Contents \o <<b>> = Append(Contents, b)
        BY <1>2, AppendIsConcat
      <4> QED
        BY <4>1, <4>2
    <3>8. (Size - 1) - Len(Contents) > 0
      <4>1. Len(Contents) = Used
        BY <1>2, RingType DEF Contents, Used
      <4> QED
        BY <1>2, <3>1, <3>2, <4>1
    <3>9. Queue!Append1(b)
      BY <2>2, <2>4, <3>7, <3>8 DEF Queue!Append1, Queue!Room
    <3> QED
      BY <3>9 DEF Queue!Next
  <2> QED
    BY <2>6, <2>7
<1>6. ASSUME NEW b \in Byte, PutchStore(b) PROVE Queue!Next \/ UNCHANGED Queue!vars
  <2>1. /\ data' = [data EXCEPT ![tail] = b] /\ UNCHANGED <<head, tail, out>>
        /\ Offered = <<>> /\ Offered' = <<>>
    BY <1>6 DEF PutchStore, Calls, Offered
  <2>2. \A k \in 1 .. Used : data'[(head + k - 1) % Size] = data[(head + k - 1) % Size]
    <3> TAKE k \in 1 .. Used
    <3>1. k \in 1 .. Size /\ tail \in tail .. (tail + Size - 1 - Used) /\ k <= Used
      BY <1>2 DEF Index
    <3>2. (head + k - 1) % Size \in Index /\ (head + k - 1) % Size # tail
      BY <1>1, <3>1, Places
    <3> QED
      BY <1>2, <2>1, <3>2
  <2>3. Used + Len(Offered') <= Size - 1 /\ Offered' \in Seq(Byte)
    BY <1>2, <2>1
  <2> QED
    BY <1>1, <2>1, <2>2, <2>3, OfferStep
<1>7. CASE PutchCheck
  <2>1. /\ UNCHANGED <<head, tail, data, out>> /\ pc = "putch_check" /\ Len(buf) = 1
        /\ IF NextIndex(tail) = head THEN pc' = "idle" ELSE pc' = "putch_tail" /\ buf' = buf
    BY <1>1, <1>7 DEF PutchCheck, PutStage
  <2>2. Offered = <<>>
    BY <2>1 DEF Offered
  <2>3. CASE pc' = "idle"
    <3>1. Offered' = Offered /\ Contents' = Contents
      BY <2>1, <2>2, <2>3 DEF Offered, Contents
    <3> QED
      BY <2>1, <3>1 DEF Queue!vars
  <2>4. CASE pc' = "putch_tail"
    <3>1. buf' = buf /\ Offered' = buf
      BY <2>1, <2>4 DEF Offered
    <3>2. Used' < Size - 1 /\ Used' = Used
      BY <2>1, <2>4, PutStageStep DEF PutStage, Used
    <3>3. Used + Len(Offered') <= Size - 1
      <4>1. Len(Offered') = 1
        BY <2>1, <3>1
      <4> QED
        BY <1>2, <3>2, <4>1
    <3>4. Offered' \in Seq(Byte)
      BY <1>2, <3>1
    <3> QED
      BY <1>1, <2>1, <2>2, <3>3, <3>4, OfferStep
  <2> QED
    BY <2>1, <2>3, <2>4
<1>8. CASE PutchTail
  <2>1. /\ UNCHANGED <<head, data, out>> /\ pc = "putch_tail" /\ tail' = NextIndex(tail)
        /\ Offered = buf /\ Offered' = <<>> /\ Len(buf) = 1 /\ Written(buf) /\ Used < Size - 1
    BY <1>1, <1>8 DEF PutchTail, PutStage, Offered
  <2>2. SubSeq(buf, 1, 1) = buf /\ SubSeq(buf, 2, 1) = <<>>
    <3>1. SubSeq(buf, 1, 1) = buf
      BY <1>2, <2>1, SubSeqFull
    <3>2. SubSeq(buf, 2, 1) = <<>>
      BY <1>2, SubSeqEmpty
    <3> QED
      BY <3>1, <3>2
  <2>3. tail' = tail + 1 \/ tail' = tail + 1 - Size
    BY <1>1, <1>2, <2>1, Arith DEF Index
  <2>4. 1 \in 0 .. Len(Offered) /\ Used + 1 <= Size - 1
    BY <1>2, <2>1
  <2>5. Written(SubSeq(Offered, 1, 1)) /\ Offered' = SubSeq(Offered, 1 + 1, Len(Offered))
    <3>1. Written(SubSeq(Offered, 1, 1))
      <4>1. SubSeq(Offered, 1, 1) = buf
        BY <2>1, <2>2
      <4> QED
        BY <2>1, <4>1
    <3>2. Offered' = SubSeq(Offered, 1 + 1, Len(Offered))
      <4>1. 1 + 1 = 2 /\ Offered = buf /\ Len(Offered) = 1
        BY <2>1
      <4> QED
        BY <2>1, <2>2, <4>1
    <3> QED
      BY <3>1, <3>2
  <2>6. Offered \in Seq(Byte)
    BY <1>2, <2>1
  <2> QED
    BY <1>1, <2>1, <2>3, <2>4, <2>5, <2>6, AcceptStep
<1>9. ASSUME NEW s \in Block, PutBegin(s) PROVE Queue!Next \/ UNCHANGED Queue!vars
  <2>1. /\ UNCHANGED <<head, tail, data, out>> /\ Offered = <<>> /\ Offered' = buf'
        /\ pc' \in {"put_wrap", "put_copy"}
    BY <1>9 DEF PutBegin, Calls, Offered
  <2>2. Used' + Len(buf') <= Size - 1 /\ Used' = Used /\ buf' \in Seq(Byte)
    BY <1>1, <2>1, PutStageStep DEF PutStage, Used, TypeOK
  <2>3. Used + Len(Offered') <= Size - 1 /\ Offered' \in Seq(Byte)
    BY <2>1, <2>2
  <2> QED
    BY <1>1, <2>1, <2>3, OfferStep
<1>10. CASE PutWrap \/ PutCopy
  <2>1. PICK s \in Seq(Byte) : Len(s) <= Len(buf) /\ data' = CopiedIn(tail, s)
    <3>1. CASE PutCopy
      BY <1>2, <3>1 DEF PutCopy
    <3>2. CASE PutWrap
      <4> DEFINE t == SubSeq(buf, 1, Size - tail)
      <4>1. Len(buf) >= Size - tail /\ data' = CopiedIn(tail, t)
        BY <1>1, <3>2 DEF PutWrap, PutStage
      <4>2. t \in Seq(Byte) /\ Len(t) = Size - tail
        BY <1>2, <4>1, SMT DEF Index
      <4> QED
        BY <4>1, <4>2
    <3> QED
      BY <1>10, <3>1, <3>2
  <2>2. /\ UNCHANGED <<head, tail, out, Offered>> /\ Offered = buf
        /\ Used + Len(buf) <= Size - 1
    BY <1>1, <1>10 DEF PutWrap, PutCopy, PutStage, Offered
  <2>3. Used + Len(s) <= Size
    BY <1>2, <2>1, <2>2, LenProperties
  <2>4. \A k \in 1 .. Used : data'[(head + k - 1) % Size] = data[(head + k - 1) % Size]
    BY <1>1, <2>1, <2>3, CopyKeeps
  <2>5. Used + Len(Offered') <= Size - 1 /\ Offered' \in Seq(Byte)
    BY <1>2, <2>2
  <2> QED
    BY <1>1, <2>2, <2>4, <2>5, OfferStep
<1>11. CASE PutZero
  <2> DEFINE n == Size - tail
  <2>1. /\ UNCHANGED <<head, data, out>> /\ tail' = 0
        /\ Offered = buf /\ Offered' = SubSeq(buf, Size - tail + 1, Len(buf))
        /\ Written(SubSeq(buf, 1, n)) /\ Len(buf) >= n /\ Used + Len(buf) <= Size - 1
    BY <1>1, <1>11 DEF PutZero, PutStage, Offered
  <2>2. n \in 0 .. Len(Offered) /\ Used + n <= Size - 1 /\ tail' = tail + n - Size
    BY <1>2, <2>1 DEF Index
  <2>3. Written(SubSeq(Offered, 1, n)) /\ Offered' = SubSeq(Offered, n + 1, Len(Offered))
    BY <2>1
  <2>4. Offered \in Seq(Byte)
    BY <1>2, <2>1
  <2> QED
    BY <1>1, <2>1, <2>2, <2>3, <2>4, AcceptStep
<1>12. CASE PutTail
  <2> DEFINE n == Len(buf)
  <2>1. /\ UNCHANGED <<head, data, out>> /\ tail' = tail + n
        /\ Offered = buf /\ Offered' = <<>> /\ Written(buf) /\ Used + n <= Size - 1
    BY <1>1, <1>12 DEF PutTail, PutStage, Offered
  <2>2. SubSeq(buf, 1, n) = buf /\ SubSeq(buf, n + 1, n) = <<>>
    <3>1. SubSeq(buf, 1, n) = buf
      BY <1>2, SubSeqFull
    <3>2. n + 1 \in 1 .. n + 1 /\ n \in 0 .. n
      BY <1>2
    <3>3. SubSeq(buf, n + 1, n) = <<>>
      BY <1>2, <3>2, SubSeqEmpty
    <3> QED
      BY <3>1, <3>3
  <2>3. n \in 0 .. Len(Offered)
    BY <1>2, <2>1
  <2>4. Written(SubSeq(Offered, 1, n)) /\ Offered' = SubSeq(Offered, n + 1, Len(Offered))
    BY <2>1, <2>2
  <2>5. Offered \in Seq(Byte)
    BY <1>2, <2>1
  <2> QED
    BY <1>1, <2>1, <2>3, <2>4, <2>5, AcceptStep
<1>13. CASE GetchBegin \/ GetchLoad \/ GetWrap \/ GetCopy \/ FlushBegin
  <2>1. UNCHANGED <<head, tail, data, out, Offered>>
    BY <1>13 DEF GetchBegin, GetchLoad, GetWrap, GetCopy, FlushBegin, Calls, Offered
  <2> QED
    BY <2>1 DEF Queue!vars, Contents
<1>14. ASSUME NEW n \in 0 .. MaxBlock, GetBegin(n) PROVE UNCHANGED Queue!vars
  <2>1. UNCHANGED <<head, tail, data, out, Offered>>
    BY <1>14 DEF GetBegin, Calls, Offered
  <2> QED
    BY <2>1 DEF Queue!vars, Contents
<1>15. CASE GetchHead
  <2>1. /\ UNCHANGED <<tail, data, Offered>> /\ head' = NextIndex(head) /\ out' = buf
        /\ Len(buf) = 1 /\ Loaded(buf) /\ Used >= 1 /\ head # Size
    BY <1>1, <1>15 DEF GetchHead, GetStage, Offered, InMix, TypeOK, MixType
  <2>2. 1 \in 0 .. Used /\ (head' = head + 1 \/ head' = head + 1 - Size)
    BY <1>1, <1>2, <2>1, Arith
  <2>3. Len(out') = 1 /\ \A k \in 1 .. 1 : out'[k] = data[(head + k - 1) % Size]
    BY <2>1 DEF Loaded
  <2> QED
    BY <1>1, <2>1, <2>2, <2>3, TakeStep
<1>16. CASE GetZero
  <2> DEFINE n == Size - head
  <2>1. /\ UNCHANGED <<tail, data, Offered>> /\ head' = 0 /\ out' = buf
        /\ Len(buf) = n /\ Loaded(buf) /\ len <= Used /\ len > n
    BY <1>1, <1>16 DEF GetZero, GetStage, Offered
  <2>2. n \in 0 .. Used /\ head' = head + n - Size
    BY <1>2, <2>1
  <2>3. Len(out') = n /\ \A k \in 1 .. n : out'[k] = data[(head + k - 1) % Size]
    BY <2>1 DEF Loaded
  <2> QED
    BY <1>1, <2>1, <2>2, <2>3, TakeStep
<1>17. CASE GetHead
  <2>1. /\ UNCHANGED <<tail, data, Offered>> /\ head' = head + len /\ out' = buf
        /\ Len(buf) = len /\ Loaded(buf) /\ len <= Used
    BY <1>1, <1>17 DEF GetHead, GetStage, Offered
  <2>2. len \in 0 .. Used
    BY <1>2, <2>1
  <2>3. Len(out') = len /\ \A k \in 1 .. len : out'[k] = data[(head + k - 1) % Size]
    BY <2>1 DEF Loaded
  <2> QED
    BY <1>1, <2>1, <2>2, <2>3, TakeStep
<1>18. CASE FlushHead
  <2> DEFINE n == (len - head) % Size
  <2>1. UNCHANGED <<tail, data, Offered, out>> /\ head' = len /\ len \in Index /\ n <= Used
    BY <1>1, <1>18 DEF FlushHead, GetStage, Offered
  <2>2. n = (IF len >= head THEN len - head ELSE len - head + Size) /\ n \in 0 .. Size - 1
    BY <1>2, <2>1, Remainders
  <2> HIDE DEF n
  <2>3. n \in 0 .. Used /\ (head' = head + n \/ head' = head + n - Size)
    BY <1>2, <2>1, <2>2 DEF Index
  <2> QED
    BY <1>1, <2>1, <2>3, DiscardStep
<1> QED
  BY <1>4, <1>5, <1>6, <1>7, <1>8, <1>9, <1>10, <1>11, <1>12, <1>13, <1>14, <1>15,
     <1>16, <1>17, <1>18 DEF Next, Isr, Main
-----------------------------------------------------------------------------
(* The theorems *)

LEMMA InitInvariant ==
    ASSUME Init
    PROVE  IInv /\ Queue!Init
<1> USE CbufAssumption
<1>1. /\ head = 0 /\ tail = 0 /\ pc = "idle" /\ buf = <<>> /\ len = 0 /\ out = <<>>
      /\ data \in [Index -> Byte] /\ mix \in Mixes /\ <<>> \in Seq(Byte)
  BY DEF Init
<1>2. TypeOK
  BY <1>1 DEF TypeOK, Pc, Index
<1>3. InMix /\ PutStage /\ GetStage
  BY <1>1 DEF InMix, PutStage, GetStage
<1>4. Used = 0
  BY <1>1, <1>2, Arith
<1>5. Contents = <<>>
  BY <1>1, <1>2, <1>4, RingType DEF Contents, Used, TypeOK
<1>6. Offered = <<>>
  BY <1>1 DEF Offered
<1> QED
  BY <1>1, <1>2, <1>3, <1>5, <1>6 DEF IInv, Queue!Init

LEMMA StutterInvariant ==
    ASSUME IInv, UNCHANGED vars
    PROVE  IInv'
<1>1. /\ head' = head /\ tail' = tail /\ data' = data /\ mix' = mix
      /\ pc' = pc /\ buf' = buf /\ len' = len /\ out' = out
  BY DEF vars
<1>2. TypeOK'
  BY <1>1 DEF IInv, TypeOK
<1>3. InMix'
  BY <1>1 DEF IInv, InMix
<1>4. Used' = Used
  BY <1>1 DEF Used
<1>5. PutStage'
  <2>1. Written(buf)' <=> Written(buf)
    BY <1>1 DEF Written
  <2>2. Written(SubSeq(buf, 1, Size - tail))' <=> Written(SubSeq(buf, 1, Size - tail))
    BY <1>1 DEF Written
  <2> QED
    BY <1>1, <1>4, <2>1, <2>2 DEF IInv, PutStage
<1>6. GetStage'
  <2>1. Loaded(buf)' = Loaded(buf)
    BY <1>1 DEF Loaded
  <2> QED
    BY <1>1, <1>4, <2>1 DEF IInv, GetStage
<1> QED
  BY <1>2, <1>3, <1>5, <1>6 DEF IInv

LEMMA Invariant ==
    ASSUME LegalMixes
    PROVE  Spec => []IInv
<1>1. Init => IInv
  BY InitInvariant
<1>2. IInv /\ [Next]_vars => IInv'
  <2>1. ASSUME IInv, Next PROVE IInv'
    BY <2>1, TypeStep, InMixStep, PutStageStep, GetStageStep DEF IInv
  <2>2. ASSUME IInv, UNCHANGED vars PROVE IInv'
    BY <2>2, StutterInvariant
  <2> QED
    BY <2>1, <2>2
<1> QED
  BY <1>1, <1>2, PTL DEF Spec

\* The indices stay in the array: xbee_cbuf_put() and xbee_cbuf_get() never copy
\* past its end, wherever an interrupt comes.
THEOREM TypeCorrect ==
    ASSUME LegalMixes
    PROVE  Spec => []TypeOK
<1>1. IInv => TypeOK
  BY DEF IInv
<1> QED
  BY <1>1, Invariant, PTL

\* The buffer implements the bounded queue, whatever its size and wherever an
\* interrupt comes, if it is used in one of the sound ways.
THEOREM ImplementsFifo ==
    ASSUME LegalMixes
    PROVE  Spec => Implements
<1>1. Init => Queue!Init
  BY InitInvariant
<1>2. IInv /\ [Next]_vars => [Queue!Next]_(Queue!vars)
  <2>1. ASSUME IInv, Next PROVE Queue!Next \/ UNCHANGED Queue!vars
    BY <2>1, QueueStep
  <2>2. ASSUME UNCHANGED vars PROVE UNCHANGED Queue!vars
    BY <2>2 DEF vars, Queue!vars, Contents, Offered
  <2> QED
    BY <2>1, <2>2
<1> QED
  BY <1>1, <1>2, Invariant, PTL DEF Spec, Implements, Queue!Spec
=============================================================================
