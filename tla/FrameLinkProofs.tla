---------------------------- MODULE FrameLinkProofs ----------------------------
(* Theorems about FrameLink, for any handler table, buffers and uses. *)
EXTENDS FrameLink, FiniteSetTheorems, SequenceTheorems, TLAPS

Call == [dispatched : 0 .. MaxDispatch, entry : 0 .. Len(Handlers), frame : Seq(Byte)]
-----------------------------------------------------------------------------
(* The inductive invariant *)

\* A tick runs alone, and while its handlers run no frame is being received.
OneTick ==
    /\ Len(calls) <= 1
    /\ inTick <=> calls # <<>>
    /\ calls # <<>> /\ Top.entry # 0 => rx.state = "WAITSTART"
    /\ calls # <<>> /\ Top.entry = 0 => Top.dispatched < MaxDispatch

\* A frame that is received fits the buffer.
FrameFits ==
    /\ rx.state = "LENGTH_LSB" => rx.bytes_in_frame + Base <= Base * Base
    /\ rx.state = "RXFRAME" => /\ rx.bytes_in_frame \in 2 .. MaxLen
                               /\ Len(rx.frame_data) <= rx.bytes_in_frame

\* Once a frame has room it keeps it: only its own bytes are added.
RoomKept ==
    /\ w.stage = "used" => w.put = 0 /\ w.free <= TxSize - tx
    /\ w.stage \in {"prefix", "bytes", "checksum"} => w.size - w.put <= TxSize - tx
    /\ w.stage # "none" => w.size \in 5 .. MaxLen + 4
    /\ w.stage = "prefix" => w.put = 0
    /\ w.stage = "bytes" => w.put = 3
    /\ w.stage = "checksum" => w.put = w.size - 1

RxInv == RxType /\ OneTick /\ FrameFits /\ HandlersAgree
TxInv == TxType /\ RoomKept /\ WholeFrames /\ BusyIsTemporary
IInv == LineType /\ RxInv /\ TxInv
-----------------------------------------------------------------------------
(* Bytes of the module *)

\* A non-empty set of slots has a first one: the loops over the tables that stop
\* at the first match (CHOOSE in the models) stop at a slot of the set.
LEMMA LeastSlot ==
    ASSUME NEW S \in SUBSET Nat, S # {}
    PROVE  /\ (CHOOSE i \in S : \A j \in S : i <= j) \in S
           /\ \A k \in S : (CHOOSE i \in S : \A j \in S : i <= j) <= k
<1> DEFINE T == {0 .. i : i \in S}
           R == StrictSubsetOrdering(Nat)
<1>1. T \subseteq FiniteSubsetsOf(Nat) /\ T # {}
  <2>1. \A i \in S : 0 .. i \subseteq Nat /\ IsFiniteSet(0 .. i)
    BY FS_Interval
  <2> QED
    BY <2>1 DEF FiniteSubsetsOf
<1>2. PICK x \in T : \A y \in T : <<y, x>> \notin R
  <2>1. IsWellFoundedOn(R, FiniteSubsetsOf(Nat))
    BY FS_StrictSubsetOrderingWellFounded
  <2>2. IsWellFoundedOn(R, T)
    BY <1>1, <2>1, IsWellFoundedOnSubset
  <2> QED
    BY <1>1, <2>2, WFMin
<1>3. PICK i \in S : x = 0 .. i
  BY <1>2
<1>4. ASSUME NEW j \in S PROVE i <= j
  <2>1. SUFFICES ASSUME j < i PROVE FALSE
    OBVIOUS
  <2>2. 0 .. j \subseteq 0 .. i /\ i \in 0 .. i /\ i \notin 0 .. j
    BY <2>1
  <2>3. <<0 .. j, 0 .. i>> \in R
    BY <2>2 DEF StrictSubsetOrdering
  <2> QED
    BY <1>2, <1>3, <2>3
<1> QED
  BY <1>4

\* A stack without its top is a stack, and what is left is in place.
LEMMA StackPop ==
    ASSUME NEW S, NEW seq \in Seq(S), seq # <<>>
    PROVE  /\ Len(seq) \in Nat \ {0}
           /\ seq[Len(seq)] \in S
           /\ SubSeq(seq, 1, Len(seq) - 1) \in Seq(S)
           /\ Len(SubSeq(seq, 1, Len(seq) - 1)) = Len(seq) - 1
           /\ \A k \in 1 .. Len(seq) - 1 : SubSeq(seq, 1, Len(seq) - 1)[k] = seq[k]
<1> DEFINE n == Len(seq)
           b == SubSeq(seq, 1, n - 1)
<1>1. n \in Nat \ {0} /\ \A k \in 1 .. n : seq[k] \in S
  BY EmptySeq, LenProperties, ElementOfSeq
<1>2. /\ b \in Seq(S)
      /\ Len(b) = IF 1 <= n - 1 THEN n - 1 - 1 + 1 ELSE 0
      /\ \A k \in 1 .. n - 1 - 1 + 1 : b[k] = seq[1 + k - 1]
  <2>1. \A k \in 1 .. n - 1 : seq[k] \in S
    BY <1>1
  <2>2. n - 1 \in Int
    BY <1>1
  <2> HIDE DEF n
  <2> QED
    BY <2>1, <2>2, SubSeqProperties
<1> HIDE DEF n, b
<1>3. Len(b) = n - 1
  BY <1>1, <1>2
<1>4. ASSUME NEW k \in 1 .. n - 1 PROVE b[k] = seq[k]
  <2>1. k \in 1 .. n - 1 - 1 + 1 /\ 1 + k - 1 = k
    BY <1>1
  <2> QED
    BY <1>2, <2>1
<1> QED
  BY <1>1, <1>2, <1>3, <1>4 DEF n, b

\* A number of two digits.
LEMMA HighDigit ==
    ASSUME NEW a \in Nat, NEW b \in Nat, b > 0, a < b * b
    PROVE  a \div b \in 0 .. b - 1
<1>1. a \div b \in Int /\ a \div b >= 0
  BY SMT
<1>2. a \div b < b
  BY SMT
<1> QED
  BY <1>1, <1>2

LEMMA FramedBytes ==
    ASSUME NEW u \in Uses, NEW p \in u.payloads
    PROVE  Framed(p) \in Seq(Byte)
<1> USE LinkAssumption
<1>1. p \in Seq(Byte) /\ Len(p) \in 2 .. MaxLen
  BY DEF UseType
<1>2. Checksum(p) \in Byte
  BY ChecksumAssumption
<1>3. Start \in Byte /\ Len(p) % Base \in Byte
  BY <1>1 DEF Start, Byte
<1>4. Len(p) \div Base \in Byte
  <2>1. Len(p) \in Nat /\ Base \in Nat /\ Base > 0 /\ Len(p) < Base * Base
    <3>1. Base * (Base - 1) - 1 < Base * Base
      BY SMT
    <3> QED
      BY <1>1, <3>1, SMT
  <2> QED
    BY <2>1, HighDigit DEF Byte
<1>5. <<Start, Len(p) \div Base, Len(p) % Base>> \in Seq(Byte)
  BY <1>3, <1>4
<1>6. <<Checksum(p)>> \in Seq(Byte)
  BY <1>2
<1>7. <<Start, Len(p) \div Base, Len(p) % Base>> \o p \in Seq(Byte)
  BY <1>1, <1>5, ConcatProperties
<1> QED
  BY <1>6, <1>7, ConcatProperties DEF Framed

\* A step of the receiver reads some bytes, or none.
LEMMA ReadsSome ==
    ASSUME RxInv, Load
    PROVE  \/ \E n \in Nat : Reads(n)
           \/ UNCHANGED <<lineVars, rxbuf, count, txVars>>
<1>1. Loading("RXFRAME") => BytesLeft \in Nat
  BY LenProperties DEF RxInv, RxType, FrameFits, Loading, BytesLeft
<1>2. 1 \in Nat
  OBVIOUS
<1>3. LoadPart => \E n \in Nat : Reads(n)
  BY LenProperties DEF LoadPart, Reads
<1> QED
  BY <1>1, <1>2, <1>3 DEF Load, LoadNothing, LoadStart, LoadMsb, LoadLsb, LoadDamaged,
                          LoadDispatches

LEMMA ArrivesType ==
    ASSUME LineType, NEW b \in Byte, Arrives(b)
    PROVE  rxbuf' \in Seq(Byte) /\ Len(rxbuf') <= RxSize
<1> QED
  BY LinkAssumption DEF LineType, Arrives

LEMMA LineStep ==
    ASSUME LineType, RxInv, Next
    PROVE  LineType'
<1> USE DEF LineType
<1>1. use' = use
  <2>1. CASE Load
    BY <2>1, ReadsSome DEF Reads, lineVars
  <2>2. CASE Line \/ DevReset
    BY <2>2 DEF Line, ModuleSends, ByteArrives, ByteLost, ByteChanged, ByteAdded, DevReset, Fault
  <2>3. CASE DevTick \/ HandlerReturns \/ Write
    BY <2>3 DEF DevTick, HandlerReturns, Write, SetFlowControl, FrameWrite, TxDrains,
                WriteRefused, WriteAccepted, WritePrefix, WriteBytes, WriteChecksum, WritePart,
                lineVars
  <2> QED
    BY <2>1, <2>2, <2>3 DEF Next
<1>2. CASE Load
  <2>1. CASE UNCHANGED <<lineVars, rxbuf, count, txVars>>
    BY <2>1 DEF lineVars
  <2>2. ASSUME NEW n \in Nat, Reads(n) PROVE LineType'
    <3>1. rxbuf' \in Seq(Byte) /\ Len(rxbuf') <= Len(rxbuf)
      <4>1. n + 1 \in Int /\ Len(rxbuf) \in Int /\ \A i \in n + 1 .. Len(rxbuf) : rxbuf[i] \in Byte
        BY LenProperties, ElementOfSeq
      <4>2. SubSeq(rxbuf, n + 1, Len(rxbuf)) \in Seq(Byte)
            /\ Len(SubSeq(rxbuf, n + 1, Len(rxbuf)))
               = IF n + 1 <= Len(rxbuf) THEN Len(rxbuf) - (n + 1) + 1 ELSE 0
        BY <4>1, SubSeqProperties
      <4>3. rxbuf' = SubSeq(rxbuf, n + 1, Len(rxbuf))
        BY <2>2 DEF Reads
      <4> QED
        BY <4>1, <4>2, <4>3
    <3> QED
      BY <2>2, <3>1, LenProperties, LinkAssumption DEF Reads, lineVars
  <2> QED
    BY <1>2, <2>1, <2>2, ReadsSome
<1>3. CASE DevTick \/ HandlerReturns \/ Write
  BY <1>3 DEF DevTick, HandlerReturns, Write, SetFlowControl, FrameWrite, TxDrains,
              WriteRefused, WriteAccepted, WritePrefix, WriteBytes, WriteChecksum, WritePart,
              lineVars
<1>4. ASSUME NEW p \in use.payloads, ModuleSends(p) PROVE LineType'
  BY <1>1, <1>4, FramedBytes DEF ModuleSends
<1>5. faults \in 0 .. use.faults /\ use.faults \in Nat
  BY LinkAssumption DEF UseType
<1>6. Fault => faults' \in 0 .. use.faults
  BY <1>5 DEF Fault
<1>7. sending # <<>> => Head(sending) \in Byte /\ Tail(sending) \in Seq(Byte)
  BY HeadTailProperties
<1>8. CASE ByteArrives
  BY <1>1, <1>7, <1>8, ArrivesType DEF ByteArrives
<1>9. CASE ByteLost
  BY <1>1, <1>6, <1>7, <1>9 DEF ByteLost
<1>10. ASSUME NEW b \in Byte, ByteChanged(b) PROVE LineType'
  BY <1>1, <1>6, <1>7, <1>10, ArrivesType DEF ByteChanged
<1>11. ASSUME NEW b \in Byte, ByteAdded(b) PROVE LineType'
  BY <1>1, <1>6, <1>11, ArrivesType DEF ByteAdded
<1>12. CASE DevReset
  BY <1>1, <1>6, <1>12 DEF DevReset
<1> QED
  BY <1>2, <1>3, <1>4, <1>8, <1>9, <1>10, <1>11, <1>12 DEF Next, Line
-----------------------------------------------------------------------------
(* Ticks and handlers *)

LEMMA EntryType ==
    ASSUME NEW e \in Nat \ {0}, NEW frame
    PROVE  EntryFrom(e, frame) \in 0 .. Len(Handlers)
<1> DEFINE takes == {i \in e .. Len(Handlers) : /\ Handlers[i].type \in {0, frame[1]}
                                                /\ Handlers[i].id \in {0, frame[2]}}
<1>1. Len(Handlers) \in Nat /\ takes \in SUBSET Nat /\ takes \subseteq 0 .. Len(Handlers)
  BY LinkAssumption, LenProperties
<1>2. EntryFrom(e, frame) = IF takes = {} THEN 0 ELSE CHOOSE i \in takes : \A j \in takes : i <= j
  BY DEF EntryFrom
<1> HIDE DEF takes
<1>3. CASE takes = {}
  BY <1>1, <1>2, <1>3
<1>4. CASE takes # {}
  BY <1>1, <1>2, <1>4, LeastSlot
<1> QED
  BY <1>3, <1>4

\* There is at most one activation.
LEMMA OneCall ==
    ASSUME RxType, OneTick, calls # <<>>
    PROVE  /\ Len(calls) = 1 /\ inTick /\ calls[1] = Top /\ Top \in Call
           /\ SubSeq(calls, 1, Len(calls) - 1) = <<>>
           /\ \A c : [calls EXCEPT ![Len(calls)] = c] = <<c>>
<1>1. calls \in Seq(Call) /\ Len(calls) <= 1 /\ inTick
  BY DEF RxType, OneTick, Call
<1>2. Len(calls) = 1
  BY <1>1, StackPop
<1>3. calls[1] = Top /\ Top \in Call
  BY <1>1, <1>2, ElementOfSeq DEF Top
<1>4. SubSeq(calls, 1, Len(calls) - 1) = <<>>
  BY <1>2, SubSeqEmpty
<1>5. ASSUME NEW c PROVE [calls EXCEPT ![Len(calls)] = c] = <<c>>
  BY <1>1, <1>2
<1> QED
  BY <1>1, <1>2, <1>3, <1>4, <1>5

LEMMA OnlyCall ==
    ASSUME NEW c \in Call, calls' = <<c>>
    PROVE  /\ calls' \in Seq(Call) /\ Len(calls') = 1 /\ calls' # <<>>
           /\ Top' = c /\ calls'[1] = c
<1>1. calls' \in Seq(Call) /\ Len(calls') = 1 /\ calls' # <<>> /\ calls'[1] = c
  OBVIOUS
<1> QED
  BY <1>1 DEF Top

\* What is left of the tick when it has dispatched a frame or called a handler.
LEMMA AfterDispatch ==
    ASSUME RxType, OneTick, calls # <<>>, NEW c \in Call, Dispatched(c)
    PROVE  \/ calls' = <<>> /\ inTick' = FALSE
           \/ /\ calls' = <<c>> /\ inTick' = TRUE
              /\ c.entry = 0 => c.dispatched < MaxDispatch
<1>1. inTick = TRUE
  BY OneCall DEF RxType
<1>2. c.dispatched \in 0 .. MaxDispatch /\ MaxDispatch \in Nat
  BY LinkAssumption DEF Call
<1>3. CASE c.entry = 0 /\ c.dispatched = MaxDispatch
  BY <1>3, OneCall DEF Dispatched, TickEnds
<1>4. CASE ~(c.entry = 0 /\ c.dispatched = MaxDispatch)
  <2>1. calls' = [calls EXCEPT ![Len(calls)] = c] /\ inTick' = inTick
    BY <1>4 DEF Dispatched
  <2>2. calls' = <<c>>
    BY <2>1, OneCall
  <2>3. c.entry = 0 => c.dispatched < MaxDispatch
    BY <1>2, <1>4
  <2> QED
    BY <1>1, <2>1, <2>2, <2>3
<1> QED
  BY <1>3, <1>4

\* What the calls of a step keep.
LEMMA NoCalls ==
    ASSUME calls' = <<>>, inTick' = FALSE
    PROVE  OneTick' /\ HandlersAgree' /\ calls' \in Seq(Call)
<1>1. Len(calls') = 0 /\ calls' \in Seq(Call)
  OBVIOUS
<1> QED
  BY <1>1 DEF OneTick, HandlersAgree

LEMMA StillLoading ==
    ASSUME RxInv, calls # <<>>, Top.entry = 0, UNCHANGED <<calls, inTick>>
    PROVE  OneTick' /\ HandlersAgree' /\ calls' \in Seq(Call)
<1>1. Len(calls) = 1 /\ calls[1] = Top
  BY OneCall DEF RxInv
<1>2. Top' = Top
  BY DEF Top
<1> QED
  BY <1>1, <1>2 DEF RxInv, RxType, OneTick, HandlersAgree, Call

LEMMA RxKept ==
    ASSUME RxInv, UNCHANGED <<rx, inTick, wpan, calls>>
    PROVE  RxInv'
<1> QED
  BY DEF RxInv, RxType, OneTick, FrameFits, HandlersAgree, Top

LEMMA RxStep ==
    ASSUME LineType, RxInv, Next
    PROVE  RxInv'
<1> USE LinkAssumption
<1>1. /\ rx \in [state : {"WAITSTART", "LENGTH_MSB", "LENGTH_LSB", "RXFRAME"},
                bytes_in_frame : 0 .. Base * Base - 1, frame_data : Seq(Byte)]
      /\ Len(rx.frame_data) \in 0 .. MaxLen + 1 /\ wpan \subseteq {"joined", "authenticated"}
      /\ calls \in Seq(Call) /\ inTick \in BOOLEAN /\ OneTick /\ FrameFits /\ HandlersAgree
  BY LenProperties DEF RxInv, RxType, Call
<1>2. rxbuf # <<>> => Head(rxbuf) \in 0 .. Base - 1
  BY HeadTailProperties DEF LineType, Byte
<1>3. CASE Line \/ DevReset \/ Write
  <2>1. UNCHANGED <<rx, inTick, wpan, calls>>
    BY <1>3 DEF Line, ModuleSends, ByteArrives, ByteLost, ByteChanged, ByteAdded, DevReset,
                Write, SetFlowControl, FrameWrite, TxDrains, WriteRefused, WriteAccepted,
                WritePrefix, WriteBytes, WriteChecksum, WritePart, rxVars
  <2> QED
    BY <2>1, RxKept
<1>4. CASE DevTick
  <2> DEFINE c == [dispatched |-> 0, entry |-> 0, frame |-> <<>>]
  <2>1. calls = <<>>
    BY <1>4 DEF DevTick, RxInv, OneTick
  <2>2. calls' = <<c>> /\ c \in Call
    <3>1. calls' = Append(calls, c)
      BY <1>4 DEF DevTick
    <3>2. c \in Call
      BY LenProperties DEF Call
    <3> QED
      BY <2>1, <3>1, <3>2
  <2>3. OneTick' /\ HandlersAgree' /\ calls' \in Seq(Call)
    <3>1. inTick' = TRUE
      BY <1>4 DEF DevTick
    <3> QED
      BY <2>2, <3>1, OnlyCall DEF OneTick, HandlersAgree
  <2> QED
    BY <1>1, <1>4, <2>3 DEF DevTick, RxInv, RxType, FrameFits, Call
<1>5. CASE LoadNothing
  <2>1. calls' = <<>> /\ inTick' = FALSE /\ UNCHANGED <<rx, wpan>>
    BY <1>5, OneCall DEF LoadNothing, Loading, TickEnds, RxInv
  <2>2. OneTick' /\ HandlersAgree' /\ calls' \in Seq(Call)
    BY <2>1, NoCalls
  <2> QED
    BY <1>1, <2>1, <2>2 DEF RxInv, RxType, FrameFits, Call
<1>6. CASE LoadStart
  <2>1. /\ calls # <<>> /\ Top.entry = 0 /\ UNCHANGED <<calls, inTick, wpan>>
        /\ rx' = rx \/ rx' = [rx EXCEPT !.state = "LENGTH_MSB"]
    BY <1>6 DEF LoadStart, Loading
  <2>2. OneTick' /\ HandlersAgree' /\ calls' \in Seq(Call)
    BY <2>1, StillLoading
  <2> QED
    BY <1>1, <2>1, <2>2 DEF RxInv, RxType, FrameFits, Call
<1>7. CASE LoadMsb
  <2>1. /\ calls # <<>> /\ Top.entry = 0 /\ UNCHANGED <<calls, inTick, wpan>> /\ rxbuf # <<>>
    BY <1>7, EmptySeq DEF LoadMsb, Loading, Reads
  <2>2. OneTick' /\ HandlersAgree' /\ calls' \in Seq(Call)
    BY <2>1, StillLoading
  <2>3. CASE Head(rxbuf) = Start
    BY <1>1, <1>7, <2>1, <2>2, <2>3 DEF LoadMsb, RxInv, RxType, FrameFits, Call
  <2>4. CASE Head(rxbuf) # Start
    <3> DEFINE n == Head(rxbuf) * Base
    <3>1. n \in 0 .. Base * Base - 1 /\ n + Base <= Base * Base
      <4>1. Head(rxbuf) \in 0 .. Base - 2
        BY <1>2, <2>1, <2>4 DEF Start
      <4> QED
        BY <4>1, SMT
    <3>2. rx' = [rx EXCEPT !.state = "LENGTH_LSB", !.bytes_in_frame = n]
      BY <1>7, <2>4 DEF LoadMsb
    <3> HIDE DEF n
    <3> QED
      BY <1>1, <2>1, <2>2, <3>1, <3>2 DEF RxInv, RxType, FrameFits, Call
  <2> QED
    BY <2>3, <2>4
<1>8. CASE LoadLsb
  <2> DEFINE n == rx.bytes_in_frame + Head(rxbuf)
             next == rx'.state
  <2>1. /\ calls # <<>> /\ Top.entry = 0 /\ UNCHANGED <<calls, inTick, wpan>> /\ rxbuf # <<>>
        /\ rx.state = "LENGTH_LSB"
    BY <1>8, EmptySeq DEF LoadLsb, Loading, Reads
  <2>2. OneTick' /\ HandlersAgree' /\ calls' \in Seq(Call)
    BY <2>1, StillLoading
  <2>3. \E s \in {"WAITSTART", "LENGTH_MSB", "RXFRAME"} :
           /\ s = "RXFRAME" => n \in 2 .. MaxLen
           /\ rx' = [state |-> s, bytes_in_frame |-> n,
                     frame_data |-> IF s = "RXFRAME" THEN <<>> ELSE rx.frame_data]
    BY <1>8 DEF LoadLsb
  <2>4. n \in 0 .. Base * Base - 1
    BY <1>1, <1>2, <2>1, SMT DEF FrameFits
  <2> HIDE DEF n
  <2>5. <<>> \in Seq(Byte) /\ Len(<<>>) = 0
    OBVIOUS
  <2>6. PICK s \in {"WAITSTART", "LENGTH_MSB", "RXFRAME"} :
           /\ s = "RXFRAME" => n \in 2 .. MaxLen
           /\ rx' = [state |-> s, bytes_in_frame |-> n,
                     frame_data |-> IF s = "RXFRAME" THEN <<>> ELSE rx.frame_data]
    BY <2>3
  <2>7. rx'.state = s /\ rx'.bytes_in_frame = n
        /\ rx'.frame_data = IF s = "RXFRAME" THEN <<>> ELSE rx.frame_data
    BY <2>6
  <2>8. rx'.frame_data \in Seq(Byte) /\ Len(rx'.frame_data) <= MaxLen + 1
    BY <1>1, <2>5, <2>7
  <2>9. rx' \in [state : {"WAITSTART", "LENGTH_MSB", "LENGTH_LSB", "RXFRAME"},
                bytes_in_frame : 0 .. Base * Base - 1, frame_data : Seq(Byte)]
    BY <2>4, <2>6, <2>7, <2>8
  <2>10. FrameFits'
    BY <2>5, <2>6, <2>7 DEF FrameFits
  <2>11. RxType'
    BY <1>1, <2>1, <2>2, <2>8, <2>9 DEF RxType, Call
  <2> QED
    BY <2>2, <2>10, <2>11 DEF RxInv
<1>9. ASSUME NEW k \in 0 .. Len(rxbuf), Loading("RXFRAME"), k <= BytesLeft
      PROVE  LET data == rx.frame_data \o SubSeq(rxbuf, 1, k)
             IN  /\ data \in Seq(Byte) /\ Len(data) = Len(rx.frame_data) + k
                 /\ Len(data) <= rx.bytes_in_frame + 1 /\ rx.bytes_in_frame \in 2 .. MaxLen
  <2>1. Len(rxbuf) \in Nat /\ \A j \in 1 .. k : rxbuf[j] \in Byte
    BY LenProperties, ElementOfSeq DEF LineType
  <2>2. SubSeq(rxbuf, 1, k) \in Seq(Byte) /\ Len(SubSeq(rxbuf, 1, k)) = k
    <3>1. Len(SubSeq(rxbuf, 1, k)) = IF 1 <= k THEN k - 1 + 1 ELSE 0
      BY <2>1, SubSeqProperties
    <3>2. SubSeq(rxbuf, 1, k) \in Seq(Byte)
      BY <2>1, SubSeqProperties
    <3> QED
      BY <2>1, <3>1, <3>2
  <2>3. rx.frame_data \in Seq(Byte) /\ rx.bytes_in_frame \in 2 .. MaxLen
    BY <1>1, <1>9 DEF Loading, FrameFits
  <2>4. /\ rx.frame_data \o SubSeq(rxbuf, 1, k) \in Seq(Byte)
        /\ Len(rx.frame_data \o SubSeq(rxbuf, 1, k)) = Len(rx.frame_data) + k
    BY <2>2, <2>3, ConcatProperties
  <2>5. Len(rx.frame_data) + k <= rx.bytes_in_frame + 1
    <3>1. k <= rx.bytes_in_frame - Len(rx.frame_data) + 1
      BY <1>9 DEF BytesLeft
    <3>2. Len(rx.frame_data) \in Int /\ k \in Int /\ rx.bytes_in_frame \in Int
      BY <2>1, <2>3, LenProperties
    <3> QED
      BY <3>1, <3>2
  <2> QED
    BY <2>3, <2>4, <2>5
<1>10. CASE LoadPart
  <2> DEFINE k == Len(rxbuf)
  <2>1. Loading("RXFRAME") /\ k \in 0 .. Len(rxbuf) /\ k < BytesLeft
    BY <1>10, LenProperties DEF LoadPart, LineType
  <2>2. SubSeq(rxbuf, 1, k) = rxbuf
    BY SubSeqFull DEF LineType
  <2>3. rx' = [rx EXCEPT !.frame_data = @ \o rxbuf] /\ UNCHANGED wpan
    BY <1>10 DEF LoadPart
  <2>4. calls' = <<>> /\ inTick' = FALSE
    BY <1>10, <2>1, OneCall DEF LoadPart, Loading, TickEnds, RxInv
  <2>5. OneTick' /\ HandlersAgree' /\ calls' \in Seq(Call)
    BY <2>4, NoCalls
  <2>6. k <= BytesLeft
    BY <1>1, <2>1, LenProperties DEF BytesLeft, LineType
  <2> HIDE DEF k
  <2>7. rx.frame_data \o rxbuf \in Seq(Byte) /\ Len(rx.frame_data \o rxbuf) = Len(rx.frame_data) + k
        /\ rx.bytes_in_frame \in 2 .. MaxLen
    BY <1>9, <2>1, <2>2, <2>6
  <2>8. Len(rx.frame_data) + k <= rx.bytes_in_frame
    <3>1. Len(rxbuf) \in Nat
      BY LenProperties DEF LineType
    <3> QED
      BY <1>1, <2>1, <2>7, <3>1 DEF BytesLeft
  <2>9. /\ rx'.state = "RXFRAME" /\ rx'.bytes_in_frame = rx.bytes_in_frame
        /\ rx'.frame_data = rx.frame_data \o rxbuf
        /\ rx' \in [state : {"WAITSTART", "LENGTH_MSB", "LENGTH_LSB", "RXFRAME"},
                   bytes_in_frame : 0 .. Base * Base - 1, frame_data : Seq(Byte)]
    BY <1>1, <2>1, <2>3, <2>7 DEF Loading
  <2>10. Len(rx'.frame_data) <= rx.bytes_in_frame /\ Len(rx'.frame_data) <= MaxLen + 1
    <3>1. Len(rx'.frame_data) \in Nat /\ rx.bytes_in_frame \in 2 .. MaxLen
      BY <2>7, <2>9, LenProperties
    <3>2. Len(rx'.frame_data) = Len(rx.frame_data) + k
      BY <2>7, <2>9
    <3> QED
      BY <2>8, <3>1, <3>2
  <2>11. FrameFits'
    BY <2>7, <2>9, <2>10 DEF FrameFits
  <2>12. RxType'
    BY <1>1, <2>3, <2>5, <2>4, <2>9, <2>10 DEF RxType, Call
  <2> QED
    BY <2>5, <2>11, <2>12 DEF RxInv
<1>11. ASSUME Loading("RXFRAME"), Reads(BytesLeft)
       PROVE  /\ rx.frame_data \o SubSeq(rxbuf, 1, BytesLeft) \in Seq(Byte)
              /\ Len(rx.frame_data \o SubSeq(rxbuf, 1, BytesLeft)) = rx.bytes_in_frame + 1
              /\ rx.bytes_in_frame \in 2 .. MaxLen
  <2> DEFINE data == rx.frame_data \o SubSeq(rxbuf, 1, BytesLeft)
  <2>1. BytesLeft \in 0 .. Len(rxbuf) /\ BytesLeft <= BytesLeft
    <3>1. BytesLeft \in Nat
      BY <1>1, <1>11 DEF Loading, FrameFits, BytesLeft
    <3>2. Len(rxbuf) \in Nat /\ Len(rxbuf) >= BytesLeft
      BY <1>11, LenProperties DEF Reads, LineType
    <3> QED
      BY <3>1, <3>2
  <2>2. data \in Seq(Byte) /\ Len(data) = Len(rx.frame_data) + BytesLeft
        /\ rx.bytes_in_frame \in 2 .. MaxLen
    BY <1>9, <1>11, <2>1
  <2> QED
    BY <1>1, <2>2 DEF BytesLeft
<1>12. CASE LoadDamaged
  <2> DEFINE data == rx.frame_data \o SubSeq(rxbuf, 1, BytesLeft)
  <2>1. /\ Loading("RXFRAME") /\ Reads(BytesLeft) /\ UNCHANGED <<inTick, wpan, calls>>
        /\ rx' = [rx EXCEPT !.state = "WAITSTART", !.frame_data = data]
    BY <1>12 DEF LoadDamaged
  <2>2. data \in Seq(Byte) /\ Len(data) <= MaxLen + 1
    <3>1. data \in Seq(Byte) /\ Len(data) = rx.bytes_in_frame + 1 /\ rx.bytes_in_frame \in 2 .. MaxLen
      BY <1>11, <2>1
    <3> QED
      BY <3>1
  <2> HIDE DEF data
  <2>3. OneTick' /\ HandlersAgree' /\ calls' \in Seq(Call)
    BY <2>1, StillLoading DEF Loading
  <2> QED
    BY <1>1, <2>1, <2>2, <2>3 DEF RxInv, RxType, FrameFits, Call
<1>13. CASE LoadDispatches
  <2> DEFINE data == rx.frame_data \o SubSeq(rxbuf, 1, BytesLeft)
             frame == SubSeq(data, 1, rx.bytes_in_frame)
             c == [dispatched |-> Top.dispatched + 1, entry |-> EntryFrom(1, frame),
                   frame |-> frame]
  <2>1. /\ Loading("RXFRAME") /\ Reads(BytesLeft) /\ Dispatched(c)
        /\ rx' = [rx EXCEPT !.state = "WAITSTART", !.frame_data = data]
        /\ wpan' = IF frame[1] = StatusFrame THEN AfterStatus(frame[2]) ELSE wpan
    BY <1>13 DEF LoadDispatches
  <2>2. data \in Seq(Byte) /\ Len(data) = rx.bytes_in_frame + 1 /\ rx.bytes_in_frame \in 2 .. MaxLen
    BY <1>11, <2>1
  <2>3. frame \in Seq(Byte) /\ Len(frame) = rx.bytes_in_frame
        /\ \A k \in 1 .. Len(frame) : frame[k] = data[k]
    <3> HIDE DEF data
    <3>1. \A k \in 1 .. rx.bytes_in_frame : data[k] \in Byte
      BY <2>2, ElementOfSeq
    <3>2. /\ frame \in Seq(Byte)
          /\ Len(frame) = IF 1 <= rx.bytes_in_frame THEN rx.bytes_in_frame - 1 + 1 ELSE 0
          /\ \A k \in 1 .. rx.bytes_in_frame - 1 + 1 : frame[k] = data[1 + k - 1]
      BY <2>2, <3>1, SubSeqProperties
    <3> HIDE DEF frame
    <3> QED
      BY <2>2, <3>2
  <2> HIDE DEF data, frame
  <2>4. wpan' \subseteq {"joined", "authenticated"}
    <3>1. \A s : AfterStatus(s) \subseteq {"joined", "authenticated"}
      <4> TAKE s
      <4>1. CASE s = KeyEstablished
        BY <1>1, <4>1 DEF AfterStatus, KeyEstablished, Joined, HwReset
      <4>2. CASE s = Joined
        BY <1>1, <4>2 DEF AfterStatus, KeyEstablished, Joined, HwReset
      <4>3. CASE s = HwReset
        BY <1>1, <4>3 DEF AfterStatus, KeyEstablished, Joined, HwReset
      <4>4. CASE s \notin {KeyEstablished, Joined, HwReset}
        BY <1>1, <4>4 DEF AfterStatus
      <4> QED
        BY <4>1, <4>2, <4>3, <4>4
    <3> QED
      BY <1>1, <2>1, <3>1
  <2>5. c \in Call
    <3>1. Top \in Call /\ Top.dispatched < MaxDispatch
      BY <2>1, OneCall DEF Loading, RxInv, OneTick
    <3>2. Top.dispatched + 1 \in 0 .. MaxDispatch
      BY <3>1 DEF Call
    <3>3. EntryFrom(1, frame) \in 0 .. Len(Handlers)
      BY EntryType
    <3> QED
      BY <2>3, <3>2, <3>3 DEF Call
  <2>6. \/ calls' = <<>> /\ inTick' = FALSE
        \/ /\ calls' = <<c>> /\ inTick' = TRUE
           /\ c.entry = 0 => c.dispatched < MaxDispatch
    BY <2>1, <2>5, AfterDispatch DEF Loading, RxInv
  <2>7. OneTick' /\ HandlersAgree' /\ calls' \in Seq(Call)
    <3>1. CASE calls' = <<>> /\ inTick' = FALSE
      BY <3>1, NoCalls
    <3>2. CASE /\ calls' = <<c>> /\ inTick' = TRUE
               /\ c.entry = 0 => c.dispatched < MaxDispatch
      <4>1. calls' \in Seq(Call) /\ Len(calls') = 1 /\ Top' = c /\ calls'[1] = c /\ calls' # <<>>
        BY <2>5, <3>2, OnlyCall
      <4>2. rx'.state = "WAITSTART" /\ rx'.frame_data = data
        BY <1>1, <2>1
      <4>3. c.frame = frame
        OBVIOUS
      <4> HIDE DEF c
      <4>4. OneTick'
        BY <3>2, <4>1, <4>2 DEF OneTick
      <4>5. \A k \in 1 .. Len(frame) : k <= Len(data) /\ data[k] = frame[k]
        BY <2>2, <2>3
      <4> QED
        BY <4>1, <4>2, <4>3, <4>4, <4>5 DEF HandlersAgree
    <3> QED
      BY <2>6, <3>1, <3>2
  <2>8. Len(data) <= MaxLen + 1
    BY <2>2
  <2> QED
    BY <1>1, <2>1, <2>2, <2>4, <2>6, <2>7, <2>8 DEF RxInv, RxType, FrameFits, Call
<1>14. CASE HandlerReturns
  <2> DEFINE c == [Top EXCEPT !.entry = EntryFrom(@ + 1, Top.frame)]
  <2>1. /\ calls # <<>> /\ Top.entry # 0 /\ Dispatched(c) /\ UNCHANGED <<rx, wpan>>
    BY <1>14 DEF HandlerReturns
  <2>2. Top \in Call /\ Len(calls) = 1 /\ calls[1] = Top
    BY <2>1, OneCall DEF RxInv
  <2>3. c \in Call /\ c.frame = Top.frame
    <3>1. Top.entry + 1 \in Nat \ {0}
      BY <2>2 DEF Call
    <3>2. EntryFrom(Top.entry + 1, Top.frame) \in 0 .. Len(Handlers)
      BY <3>1, EntryType
    <3> QED
      BY <2>2, <3>2 DEF Call
  <2>4. rx.state = "WAITSTART" /\ rx' = rx
    BY <1>1, <2>1 DEF OneTick
  <2>5. \A k \in 1 .. Len(Top.frame) : k <= Len(rx.frame_data) /\ rx.frame_data[k] = Top.frame[k]
    <3>1. 1 \in {j \in 1 .. Len(calls) : calls[j].entry # 0}
      BY <2>1, <2>2
    <3> QED
      BY <1>1, <2>2, <3>1 DEF HandlersAgree
  <2> HIDE DEF c
  <2>6. \/ calls' = <<>> /\ inTick' = FALSE
        \/ /\ calls' = <<c>> /\ inTick' = TRUE
           /\ c.entry = 0 => c.dispatched < MaxDispatch
    BY <2>1, <2>3, AfterDispatch DEF RxInv
  <2>7. OneTick' /\ HandlersAgree' /\ calls' \in Seq(Call)
    <3>1. CASE calls' = <<>> /\ inTick' = FALSE
      BY <3>1, NoCalls
    <3>2. CASE /\ calls' = <<c>> /\ inTick' = TRUE
               /\ c.entry = 0 => c.dispatched < MaxDispatch
      <4>1. calls' \in Seq(Call) /\ Len(calls') = 1 /\ Top' = c /\ calls'[1] = c /\ calls' # <<>>
        BY <2>3, <3>2, OnlyCall
      <4>2. OneTick'
        BY <2>4, <3>2, <4>1 DEF OneTick
      <4> QED
        BY <2>3, <2>4, <2>5, <4>1, <4>2 DEF HandlersAgree
    <3> QED
      BY <2>6, <3>1, <3>2
  <2> QED
    BY <1>1, <2>1, <2>4, <2>6, <2>7 DEF RxInv, RxType, FrameFits, Call
<1> QED
  BY <1>3, <1>4, <1>5, <1>6, <1>7, <1>8, <1>10, <1>12, <1>13, <1>14 DEF Next, Load
-----------------------------------------------------------------------------
(* Writing *)

LEMMA TxKept ==
    ASSUME TxInv, UNCHANGED txVars
    PROVE  TxInv'
<1> QED
  BY DEF TxInv, TxType, RoomKept, WholeFrames, BusyIsTemporary, txVars

WriteCall == [stage : {"none", "used", "prefix", "bytes", "checksum"}, size : Nat,
              cts : BOOLEAN, free : 0 .. TxSize, put : Nat]

\* A part of a frame that has room is taken as a whole, and a call goes on or ends.
LEMMA PartTaken ==
    ASSUME TxInv, NEW stage \in {"prefix", "bytes", "checksum"}, NEW n \in Nat,
           NEW next \in {"none", "bytes", "checksum"},
           w.put + n <= w.size, WritePart(stage, n, next)
    PROVE  /\ tx' \in 0 .. TxSize /\ UNCHANGED <<writes, flow>>
           /\ w.size - (w.put + n) <= TxSize - tx'
           /\ next = "none" =>
                w' = NoCall /\ wrote' = [ret |-> "OK", size |-> w.size, put |-> w.put + n]
           /\ next # "none" =>
                /\ w' \in WriteCall /\ UNCHANGED wrote
                /\ w'.stage = next /\ w'.size = w.size /\ w'.put = w.put + n
<1>1. /\ w \in WriteCall /\ w.stage = stage /\ tx \in 0 .. TxSize /\ TxSize \in Nat
      /\ w.size - w.put <= TxSize - tx
  BY LinkAssumption DEF TxInv, TxType, RoomKept, WritePart, WriteCall
<1>2. w.size \in Nat /\ w.put \in Nat /\ w.put + n \in Nat
  BY <1>1 DEF WriteCall
<1>3. n <= TxSize - tx
  BY <1>1, <1>2
<1>4. tx' = tx + n /\ UNCHANGED <<writes, flow>>
  BY <1>3 DEF WritePart
<1>5. tx' \in 0 .. TxSize /\ w.size - (w.put + n) <= TxSize - tx'
  BY <1>1, <1>2, <1>3, <1>4
<1>6. CASE next = "none"
  BY <1>3, <1>4, <1>5, <1>6 DEF WritePart
<1>7. CASE next # "none"
  <2>1. w' = [w EXCEPT !.stage = next, !.put = w.put + n] /\ UNCHANGED wrote
    BY <1>3, <1>7 DEF WritePart
  <2>2. w' \in WriteCall /\ w'.stage = next /\ w'.size = w.size /\ w'.put = w.put + n
    BY <1>1, <1>2, <2>1 DEF WriteCall
  <2> QED
    BY <1>4, <1>5, <1>7, <2>1, <2>2
<1> QED
  BY <1>6, <1>7

LEMMA TxStep ==
    ASSUME LineType, TxInv, Next
    PROVE  TxInv'
<1> USE LinkAssumption
<1>1. /\ writes \in Nat /\ flow \in BOOLEAN
      /\ w \in WriteCall
      /\ wrote \in [ret : {"none", "OK", "EBUSY", "EMSGSIZE"}, size : Nat, put : Nat]
      /\ tx \in 0 .. TxSize /\ RoomKept /\ WholeFrames /\ BusyIsTemporary
  BY DEF TxInv, TxType, WriteCall
<1>2. NoCall \in WriteCall /\ NoCall.stage = "none"
  BY DEF NoCall, WriteCall
<1>3. CASE Line \/ DevReset \/ DevTick \/ Load \/ HandlerReturns
  <2>1. UNCHANGED txVars
    BY <1>3 DEF Line, ModuleSends, ByteArrives, ByteLost, ByteChanged, ByteAdded, DevReset, Fault,
                DevTick, Load, LoadNothing, LoadStart, LoadMsb, LoadLsb, LoadPart, LoadDamaged,
                LoadDispatches, Reads, HandlerReturns, txVars
  <2> QED
    BY <2>1, TxKept
<1>4. CASE SetFlowControl
  BY <1>1, <1>4 DEF SetFlowControl, TxInv, TxType, WriteCall, RoomKept, WholeFrames, BusyIsTemporary
<1>5. ASSUME NEW size \in use.sizes, NEW cts \in BOOLEAN, FrameWrite(size, cts) PROVE TxInv'
  <2>1. size \in 5 .. MaxLen + 4
    BY DEF LineType, UseType
  <2>2. /\ writes' = writes - 1 /\ writes > 0 /\ UNCHANGED <<flow, wrote, tx>>
        /\ w' = [stage |-> "used", size |-> size, cts |-> cts \/ ~flow,
                 free |-> TxSize - tx, put |-> 0]
    BY <1>5 DEF FrameWrite
  <2>3. (cts \/ ~flow) \in BOOLEAN /\ TxSize - tx \in 0 .. TxSize
    BY <1>1
  <2>4. TxType'
    <3>1. w' \in WriteCall
      BY <2>1, <2>2, <2>3 DEF WriteCall
    <3> QED
      BY <1>1, <2>2, <3>1 DEF TxType, WriteCall
  <2> QED
    BY <1>1, <2>1, <2>2, <2>4 DEF TxInv, RoomKept, WholeFrames, BusyIsTemporary
<1>6. CASE TxDrains
  <2>1. tx' = tx - 1 /\ tx > 0 /\ UNCHANGED <<writes, flow, w, wrote>>
    BY <1>6 DEF TxDrains
  <2> QED
    BY <1>1, <2>1 DEF TxInv, TxType, WriteCall, RoomKept, WholeFrames, BusyIsTemporary
<1>7. CASE WriteRefused
  <2>1. /\ w.stage = "used" /\ w' = NoCall /\ UNCHANGED <<writes, flow, tx>>
        /\ wrote' = [ret |-> Refusal, size |-> w.size, put |-> 0]
    BY <1>7 DEF WriteRefused
  <2>2. /\ Refusal \in {"EMSGSIZE", "EBUSY"}
        /\ Refusal = "EBUSY" => w.size <= TxSize
    <3>1. w.free <= TxSize - tx
      BY <1>1, <2>1 DEF RoomKept
    <3>2. w.size - w.free <= tx => w.size <= TxSize
      BY <1>1, <3>1 DEF WriteCall
    <3>3. w.size - w.free \in Int /\ tx \in Int
      BY <1>1 DEF WriteCall
    <3> QED
      BY <3>2, <3>3 DEF Refusal
  <2>3. /\ wrote'.ret = Refusal /\ wrote'.put = 0 /\ wrote'.size = w.size
        /\ wrote' \in [ret : {"none", "OK", "EBUSY", "EMSGSIZE"}, size : Nat, put : Nat]
    BY <1>1, <2>1, <2>2 DEF WriteCall
  <2>4. TxType' /\ RoomKept'
    BY <1>1, <1>2, <2>1, <2>3 DEF TxType, WriteCall, RoomKept
  <2> QED
    BY <2>2, <2>3, <2>4 DEF TxInv, WholeFrames, BusyIsTemporary
<1>8. CASE WriteAccepted
  <2>1. /\ w.stage = "used" /\ w' = [w EXCEPT !.stage = "prefix"] /\ w.free >= w.size
        /\ UNCHANGED <<writes, flow, tx, wrote>>
    BY <1>8 DEF WriteAccepted, Room
  <2>2. /\ w'.stage = "prefix" /\ w'.size = w.size /\ w'.free = w.free /\ w'.put = w.put
        /\ w' \in WriteCall
    BY <1>1, <2>1 DEF WriteCall
  <2>3. w.put = 0 /\ w.free <= TxSize - tx /\ w.size \in 5 .. MaxLen + 4
    BY <1>1, <2>1 DEF RoomKept
  <2>4. RoomKept'
    <3>1. w'.size - w'.put <= TxSize - tx'
      <4>1. w.size \in Int /\ w.free \in Int /\ TxSize - tx \in Int /\ w.size <= w.free
        BY <1>1, <2>1, <2>3 DEF WriteCall
      <4>2. w'.size = w.size /\ w'.put = 0 /\ tx' = tx
        BY <2>1, <2>2, <2>3
      <4> QED
        BY <2>3, <4>1, <4>2
    <3> QED
      BY <2>2, <2>3, <3>1 DEF RoomKept
  <2> QED
    BY <1>1, <2>1, <2>2, <2>4 DEF TxInv, TxType, WriteCall, WholeFrames, BusyIsTemporary
<1>9. CASE WritePrefix
  <2>1. w.stage = "prefix" /\ w.put = 0 /\ w.size \in 5 .. MaxLen + 4
    BY <1>1, <1>9 DEF WritePrefix, WritePart, RoomKept
  <2>2. WritePart("prefix", 3, "bytes") /\ w.put + 3 <= w.size /\ w.put + 3 = 3
    BY <1>9, <2>1 DEF WritePrefix
  <2>3. /\ tx' \in 0 .. TxSize /\ w.size - (w.put + 3) <= TxSize - tx'
        /\ w' \in WriteCall /\ UNCHANGED wrote /\ UNCHANGED <<writes, flow>>
        /\ w'.stage = "bytes" /\ w'.size = w.size /\ w'.put = w.put + 3
    BY <2>2, PartTaken
  <2>4. RoomKept'
    BY <2>1, <2>2, <2>3 DEF RoomKept
  <2> QED
    BY <1>1, <2>3, <2>4 DEF TxInv, TxType, WholeFrames, BusyIsTemporary, WriteCall
<1>10. CASE WriteBytes
  <2>1. w.stage = "bytes" /\ w.put = 3 /\ w.size \in 5 .. MaxLen + 4
    BY <1>1, <1>10 DEF WriteBytes, WritePart, RoomKept
  <2>2. /\ WritePart("bytes", w.size - 4, "checksum") /\ w.size - 4 \in Nat
        /\ w.put + (w.size - 4) <= w.size /\ w.put + (w.size - 4) = w.size - 1
    BY <1>10, <2>1 DEF WriteBytes
  <2>3. /\ tx' \in 0 .. TxSize /\ w.size - (w.put + (w.size - 4)) <= TxSize - tx'
        /\ w' \in WriteCall /\ UNCHANGED wrote /\ UNCHANGED <<writes, flow>>
        /\ w'.stage = "checksum" /\ w'.size = w.size /\ w'.put = w.put + (w.size - 4)
    BY <2>2, PartTaken
  <2>4. RoomKept'
    BY <2>1, <2>2, <2>3 DEF RoomKept
  <2> QED
    BY <1>1, <2>3, <2>4 DEF TxInv, TxType, WholeFrames, BusyIsTemporary, WriteCall
<1>11. CASE WriteChecksum
  <2>1. w.stage = "checksum" /\ w.put = w.size - 1 /\ w.size \in 5 .. MaxLen + 4
    BY <1>1, <1>11 DEF WriteChecksum, WritePart, RoomKept
  <2>2. /\ tx' \in 0 .. TxSize /\ w' = NoCall /\ UNCHANGED <<writes, flow>>
        /\ wrote' = [ret |-> "OK", size |-> w.size, put |-> w.size]
    <3>1. w.put + 1 = w.size
      BY <1>1, <2>1
    <3>2. WritePart("checksum", 1, "none") /\ w.put + 1 <= w.size
      BY <1>1, <1>11, <2>1, <3>1 DEF WriteChecksum
    <3>3. /\ tx' \in 0 .. TxSize /\ w' = NoCall
          /\ wrote' = [ret |-> "OK", size |-> w.size, put |-> w.put + 1]
          /\ UNCHANGED <<writes, flow>>
      BY <3>2, PartTaken
    <3> QED
      BY <3>1, <3>3
  <2> QED
    BY <1>1, <1>2, <2>1, <2>2 DEF TxInv, TxType, WriteCall, RoomKept, WholeFrames, BusyIsTemporary
<1> QED
  BY <1>3, <1>4, <1>5, <1>6, <1>7, <1>8, <1>9, <1>10, <1>11 DEF Next, Write
-----------------------------------------------------------------------------
(* The theorems *)

LEMMA Starts ==
    ASSUME Init
    PROVE  IInv
<1> USE LinkAssumption
<1>1. use \in Uses /\ use.faults \in Nat /\ use.writes \in Nat
  BY DEF Init, UseType
<1>2. LineType
  BY <1>1 DEF Init, LineType
<1>3. RxInv
  <2>1. calls = <<>> /\ Len(calls) = 0 /\ calls \in Seq(Call)
    BY DEF Init
  <2>2. 0 \in 0 .. Base * Base - 1
    <3>1. Base * Base > 0
      BY SMT
    <3>2. Base * Base \in Int
      BY SMT
    <3> QED
      BY <3>1, <3>2
  <2>3. /\ rx.state = "WAITSTART" /\ Len(rx.frame_data) = 0
        /\ rx \in [state : {"WAITSTART", "LENGTH_MSB", "LENGTH_LSB", "RXFRAME"},
                   bytes_in_frame : 0 .. Base * Base - 1, frame_data : Seq(Byte)]
    BY <2>2 DEF Init
  <2>4. RxType
    <3>1. rx.frame_data = <<>> /\ inTick = FALSE /\ wpan = {} /\ MaxLen + 1 >= 0
      BY DEF Init
    <3> QED
      BY <2>1, <2>3, <3>1 DEF RxType, Call
  <2>5. OneTick /\ HandlersAgree
    BY <2>1 DEF Init, OneTick, HandlersAgree
  <2> QED
    BY <2>3, <2>4, <2>5 DEF RxInv, FrameFits
<1>4. TxInv
  BY <1>1 DEF Init, TxInv, TxType, RoomKept, WholeFrames, BusyIsTemporary, NoCall
<1> QED
  BY <1>2, <1>3, <1>4 DEF IInv

LEMMA Stutters ==
    ASSUME IInv, UNCHANGED vars
    PROVE  IInv'
<1>1. UNCHANGED <<use, faults, sending, rxbuf>> /\ UNCHANGED <<rx, inTick, wpan, calls>>
      /\ UNCHANGED txVars
  BY DEF vars, lineVars, rxVars, txVars
<1> QED
  BY <1>1, RxKept, TxKept DEF IInv, LineType

LEMMA Invariant == Spec => []IInv
<1>1. IInv /\ [Next]_vars => IInv'
  BY LineStep, RxStep, TxStep, Stutters DEF IInv
<1> QED
  BY Starts, <1>1, PTL DEF Spec

\* The link's state has its type: above all, a frame never outgrows the receive buffer
\* (LoadLsb, LoadPart), whatever arrives, and the transmit buffer never overflows.
THEOREM TypeCorrect == Spec => []TypeOK
<1>1. IInv => TypeOK
  BY DEF IInv, RxInv, TxInv, TypeOK
<1> QED
  BY Invariant, <1>1, PTL

\* The handlers of a frame all find it in the receive buffer as it came, though they
\* may poll the device, reset it or write: _xbee_frame_dispatch() hands out the buffer.
THEOREM HandlersAgreeHolds == Spec => []HandlersAgree
<1>1. IInv => HandlersAgree
  BY DEF IInv, RxInv
<1> QED
  BY Invariant, <1>1, PTL

\* xbee_frame_write() never leaves a part of a frame in the transmit buffer, though it
\* looks at the room once, writes in three calls and ignores what they return.
THEOREM WholeFramesHold == Spec => []WholeFrames
<1>1. IInv => WholeFrames
  BY DEF IInv, TxInv
<1> QED
  BY Invariant, <1>1, PTL

\* A frame that xbee_frame_write() refuses with -EBUSY fits an empty buffer.
THEOREM BusyIsTemporaryHolds == Spec => []BusyIsTemporary
<1>1. IInv => BusyIsTemporary
  BY DEF IInv, TxInv
<1> QED
  BY Invariant, <1>1, PTL
-----------------------------------------------------------------------------
(* A good line: the receiver is in step with the module *)

\* The place behind the last byte of the module, and the byte at a place that has not been
\* read yet: it is in the receive buffer, or the module has still to send it.
End == count + Len(sending) + 1
ByteAt(q) == IF q <= count THEN rxbuf[q - (count - Len(rxbuf))] ELSE sending[q - count]
Size(i) == Len(origin[i].frame) + 4

\* The frames of the module lie one behind the other up to the end of what it sends, and
\* what has not been read of them is as the module framed it.
Sent ==
    /\ count \in Nat /\ Len(rxbuf) <= count
    /\ origin \in Seq([at : Nat \ {0}, frame : use.payloads])
    /\ \A i \in 1 .. Len(origin) :
          /\ origin[i].at + Size(i) <= End
          /\ origin[i].at + Size(i) = IF i = Len(origin) THEN End ELSE origin[i + 1].at
          /\ \A j \in 1 .. Size(i) :
                origin[i].at + j - 1 >= Place =>
                    ByteAt(origin[i].at + j - 1) = Framed(origin[i].frame)[j]

\* The frames that were dispatched are the first ones of the module.
Logged ==
    /\ log \in Seq([at : Nat \ {0}, frame : use.payloads])
    /\ Len(log) <= Len(origin)
    /\ \A i \in 1 .. Len(log) : log[i] = origin[i]

\* The receiver waits for the next one, or is inside of it.
Due == IF Len(log) < Len(origin) THEN origin[Len(log) + 1].at ELSE End
Inside(n) ==
    /\ Len(log) < Len(origin) /\ begun = origin[Len(log) + 1].at
    /\ Place = begun + n
Placed ==
    /\ rx.state = "WAITSTART" => Place = Due
    /\ rx.state = "LENGTH_MSB" => Inside(1)
    /\ rx.state = "LENGTH_LSB" =>
          /\ Inside(2)
          /\ rx.bytes_in_frame = (Len(origin[Len(log) + 1].frame) \div Base) * Base
    /\ rx.state = "RXFRAME" =>
          LET p == origin[Len(log) + 1].frame
          IN  /\ Inside(3 + Len(rx.frame_data))
              /\ rx.bytes_in_frame = Len(p)
              /\ \A m \in 1 .. Len(rx.frame_data) : rx.frame_data[m] = p[m]

InStep == Sent /\ Logged /\ Placed

\* Where the elements of two joined sequences are.
LEMMA ConcatAt ==
    ASSUME NEW S, NEW a \in Seq(S), NEW b \in Seq(S)
    PROVE  /\ a \o b \in Seq(S) /\ Len(a \o b) = Len(a) + Len(b)
           /\ \A i \in 1 .. Len(a) : (a \o b)[i] = a[i]
           /\ \A m \in 1 .. Len(b) : (a \o b)[Len(a) + m] = b[m]
<1> DEFINE f == a \o b
<1>1. /\ f \in Seq(S) /\ Len(f) = Len(a) + Len(b)
      /\ \A i \in 1 .. Len(a) + Len(b) : f[i] = IF i <= Len(a) THEN a[i] ELSE b[i - Len(a)]
  BY ConcatProperties
<1>2. Len(a) \in Nat /\ Len(b) \in Nat
  BY LenProperties
<1> HIDE DEF f
<1>3. ASSUME NEW i \in 1 .. Len(a) PROVE f[i] = a[i]
  <2>1. i \in 1 .. Len(a) + Len(b) /\ i <= Len(a)
    BY <1>2
  <2> QED
    BY <1>1, <2>1
<1>4. ASSUME NEW m \in 1 .. Len(b) PROVE f[Len(a) + m] = b[m]
  <2>1. Len(a) + m \in 1 .. Len(a) + Len(b) /\ ~(Len(a) + m <= Len(a)) /\ Len(a) + m - Len(a) = m
    BY <1>2
  <2> QED
    BY <1>1, <2>1
<1> QED
  BY <1>1, <1>3, <1>4 DEF f

\* The bytes of a frame.
LEMMA FramedIs ==
    ASSUME NEW u \in Uses, NEW p \in u.payloads
    PROVE  /\ p \in Seq(Byte) /\ Len(p) \in 2 .. MaxLen /\ Len(p) \in Nat
           /\ Framed(p) \in Seq(Byte) /\ Len(Framed(p)) = Len(p) + 4
           /\ Framed(p)[1] = Start /\ Framed(p)[2] = Len(p) \div Base
           /\ Framed(p)[3] = Len(p) % Base
           /\ \A m \in 1 .. Len(p) : Framed(p)[3 + m] = p[m]
           /\ Framed(p)[Len(p) + 4] = Checksum(p)
<1>1. p \in Seq(Byte) /\ Len(p) \in 2 .. MaxLen /\ Len(p) \in Nat
  BY LinkAssumption DEF UseType
<1> DEFINE h == <<Start, Len(p) \div Base, Len(p) % Base>>
           c == <<Checksum(p)>>
           v == h \o p
           D == Int
<1>2. h \in Seq(D) /\ Len(h) = 3
  <2>1. Start \in Int /\ Len(p) \div Base \in Int /\ Len(p) % Base \in Int
    BY <1>1, LinkAssumption DEF Start
  <2> QED
    BY <2>1
<1>3. c \in Seq(D) /\ Len(c) = 1 /\ c[1] = Checksum(p)
  BY ChecksumAssumption, LinkAssumption DEF Byte
<1>4. p \in Seq(D)
  BY <1>1, LinkAssumption DEF Byte
<1>5. h[1] = Start /\ h[2] = Len(p) \div Base /\ h[3] = Len(p) % Base
  OBVIOUS
<1>6. Framed(p) = v \o c
  BY DEF Framed
<1> HIDE DEF h, c, D
<1> DEFINE f == v \o c
<1>7. /\ v \in Seq(D) /\ Len(v) = 3 + Len(p) /\ \A i \in 1 .. 3 : v[i] = h[i]
      /\ \A m \in 1 .. Len(p) : v[3 + m] = p[m]
  <2>1. h \in Seq(D)
    BY <1>2
  <2>2. /\ v \in Seq(D) /\ Len(v) = Len(h) + Len(p) /\ \A i \in 1 .. Len(h) : v[i] = h[i]
        /\ \A m \in 1 .. Len(p) : v[Len(h) + m] = p[m]
    BY <1>4, <2>1, ConcatAt
  <2> HIDE DEF v
  <2> QED
    BY <1>2, <2>2
<1>8. /\ Len(f) = 3 + Len(p) + 1 /\ \A i \in 1 .. 3 + Len(p) : f[i] = v[i]
      /\ \A m \in 1 .. 1 : f[3 + Len(p) + m] = c[m]
  <2>1. v \in Seq(D) /\ c \in Seq(D)
    BY <1>3, <1>7
  <2>2. /\ Len(f) = Len(v) + Len(c) /\ \A i \in 1 .. Len(v) : f[i] = v[i]
        /\ \A m \in 1 .. Len(c) : f[Len(v) + m] = c[m]
    BY <2>1, ConcatAt
  <2> HIDE DEF f, v
  <2> QED
    BY <1>3, <1>7, <2>2
<1> HIDE DEF f, v
<1>9. Len(f) = Len(p) + 4 /\ f[Len(p) + 4] = Checksum(p)
  <2>1. 3 + Len(p) + 1 = Len(p) + 4 /\ 1 \in 1 .. 1
    BY <1>1
  <2> QED
    BY <1>3, <1>8, <2>1
<1>10. f[1] = Start /\ f[2] = Len(p) \div Base /\ f[3] = Len(p) % Base
  <2>1. 1 \in 1 .. 3 /\ 2 \in 1 .. 3 /\ 3 \in 1 .. 3
    OBVIOUS
  <2>2. 1 \in 1 .. 3 + Len(p) /\ 2 \in 1 .. 3 + Len(p) /\ 3 \in 1 .. 3 + Len(p)
    BY <1>1
  <2> QED
    BY <1>5, <1>7, <1>8, <2>1, <2>2
<1>11. \A m \in 1 .. Len(p) : f[3 + m] = p[m]
  <2>1. \A m \in 1 .. Len(p) : 3 + m \in 1 .. 3 + Len(p)
    BY <1>1
  <2> QED
    BY <1>7, <1>8, <2>1
<1>12. f \in Seq(Byte) /\ f = Framed(p)
  BY <1>6, FramedBytes DEF f
<1> QED
  BY <1>1, <1>9, <1>10, <1>11, <1>12

\* What has not been read yet stays what it is.
LEMMA SentKept ==
    ASSUME Sent, use \in Uses, UNCHANGED <<use, origin>>, End' = End, Place \in Int,
           Place' \in Int, End \in Int, Place' >= Place,
           count' \in Nat, Len(rxbuf') <= count',
           \A q \in Int : q >= Place' /\ q < End => ByteAt(q)' = ByteAt(q)
    PROVE  Sent'
<1>1. origin' \in Seq([at : Nat \ {0}, frame : use'.payloads])
  BY DEF Sent
<1>2. ASSUME NEW i \in 1 .. Len(origin)
      PROVE  /\ origin[i].at + Size(i) <= End
             /\ origin[i].at + Size(i) = IF i = Len(origin) THEN End ELSE origin[i + 1].at
             /\ \A j \in 1 .. Size(i) :
                   origin[i].at + j - 1 >= Place' =>
                       ByteAt(origin[i].at + j - 1)' = Framed(origin[i].frame)[j]
  <2>1. origin[i].at \in Nat /\ Size(i) \in Nat
    <3> DEFINE R == [at : Nat \ {0}, frame : use.payloads]
    <3>1. origin[i].at \in Nat /\ origin[i].frame \in use.payloads
      <4>1. origin \in Seq(R)
        BY DEF Sent
      <4>2. origin[i] \in R
        <5> HIDE DEF R
        <5> QED
          BY <4>1
      <4> QED
        BY <4>2
    <3> QED
      BY <3>1, FramedIs DEF Size
  <2>2. /\ origin[i].at + Size(i) <= End
        /\ origin[i].at + Size(i) = IF i = Len(origin) THEN End ELSE origin[i + 1].at
    BY DEF Sent
  <2>3. ASSUME NEW j \in 1 .. Size(i), origin[i].at + j - 1 >= Place'
        PROVE  ByteAt(origin[i].at + j - 1)' = Framed(origin[i].frame)[j]
    <3> DEFINE q == origin[i].at + j - 1
    <3>1. q \in Int /\ q >= Place' /\ q >= Place /\ q < End
      <4>1. /\ origin[i].at \in Nat /\ Size(i) \in Nat /\ j \in 1 .. Size(i)
            /\ origin[i].at + Size(i) <= End
        BY <2>1, <2>2
      <4>2. q \in Int /\ q < End
        BY <4>1
      <4>3. q >= Place'
        BY <2>3
      <4> HIDE DEF q
      <4> QED
        BY <4>2, <4>3
    <3>2. ByteAt(q) = Framed(origin[i].frame)[j]
      BY <3>1 DEF Sent
    <3>3. q' = q
      OBVIOUS
    <3>4. PICK c : c = q
      OBVIOUS
    <3>5. ByteAt(c)' = ByteAt(c)
      BY <3>1, <3>4
    <3> QED
      BY <3>2, <3>3, <3>4, <3>5 DEF ByteAt
  <2> QED
    BY <2>2, <2>3
<1>3. Size(1)' = Size(1) /\ \A i : Size(i)' = Size(i)
  BY DEF Size
<1> QED
  BY <1>1, <1>2, <1>3 DEF Sent, Size

LEMMA Places ==
    ASSUME LineType, Sent
    PROVE  /\ rxbuf \in Seq(Byte) /\ sending \in Seq(Byte) /\ Len(rxbuf) \in Nat
           /\ Len(sending) \in Nat /\ count \in Nat
           /\ Place \in Nat /\ End \in Nat /\ Place <= End /\ use \in Uses
BY LenProperties DEF LineType, Sent, Place, End

\* Where a byte that has been received, but not read, lies in the buffer, before and
\* after n bytes are read.
LEMMA PlaceInBuffer ==
    ASSUME NEW q \in Int, NEW c \in Int, NEW l \in Int, NEW n \in Int, NEW r \in Int,
           r = l - n, c - r < q, q <= c
    PROVE  q - (c - r) \in 1 .. l - n /\ n + (q - (c - r)) = q - (c - l)
OBVIOUS

\* Bytes are read.
LEMMA SentReads ==
    ASSUME LineType, Sent, NEW n \in Nat, Reads(n)
    PROVE  Sent' /\ Place' = Place + n /\ End' = End /\ UNCHANGED <<use, origin, count, sending>>
<1>1. /\ rxbuf \in Seq(Byte) /\ Len(rxbuf) \in Nat /\ n <= Len(rxbuf) /\ count \in Nat
      /\ Len(rxbuf) <= count /\ Place \in Nat /\ End \in Nat
      /\ use \in Uses
  BY Places DEF Reads, Sent
<1>2. UNCHANGED <<use, origin, count, sending>>
  BY DEF Reads, lineVars
<1>3. /\ Len(rxbuf') = Len(rxbuf) - n
      /\ \A m \in 1 .. Len(rxbuf) - n : rxbuf'[m] = rxbuf[n + m]
  <2>1. rxbuf' = SubSeq(rxbuf, n + 1, Len(rxbuf))
    BY DEF Reads
  <2> QED
    BY <1>1, <2>1, SubSeqProperties
<1>4. Place' = Place + n /\ End' = End
  BY <1>1, <1>2, <1>3 DEF Place, End
<1>5. ASSUME NEW q \in Int, q >= Place', q < End
      PROVE  ByteAt(q)' = ByteAt(q)
  <2>1. CASE q <= count
    <3> DEFINE m == q - (count - Len(rxbuf'))
    <3>1. m \in 1 .. Len(rxbuf) - n /\ n + m = q - (count - Len(rxbuf))
      BY <1>1, <1>3, <1>4, <1>5, <2>1 DEF Place
    <3>2. rxbuf'[m] = rxbuf[n + m]
      BY <1>3, <3>1
    <3> QED
      BY <1>2, <2>1, <3>1, <3>2 DEF ByteAt
  <2>2. CASE ~(q <= count)
    BY <1>2, <2>2 DEF ByteAt
  <2> QED
    BY <2>1, <2>2
<1>6. Sent'
  BY <1>1, <1>2, <1>3, <1>4, <1>5, SentKept
<1> QED
  BY <1>2, <1>4, <1>6

\* The frame that is due, and the place behind it.
LEMMA FrameDue ==
    ASSUME LineType, Sent, Logged, Len(log) < Len(origin)
    PROVE  LET o == origin[Len(log) + 1]
           IN  /\ Len(log) + 1 \in 1 .. Len(origin)
               /\ o \in [at : Nat \ {0}, frame : use.payloads]
               /\ o.at \in Nat \ {0} /\ o.frame \in use.payloads
               /\ Size(Len(log) + 1) = Len(o.frame) + 4
               /\ Due = o.at /\ o.at + Len(o.frame) + 4 <= End
               /\ o.at + Len(o.frame) + 4 =
                    IF Len(log) + 1 = Len(origin) THEN End ELSE origin[Len(log) + 2].at
<1> DEFINE i == Len(log) + 1
           R == [at : Nat \ {0}, frame : use.payloads]
<1>1. i \in 1 .. Len(origin) /\ Len(log) + 2 = i + 1
  <2>1. Len(log) \in Nat /\ Len(origin) \in Nat
    <3>1. log \in Seq(R) /\ origin \in Seq(R)
      BY DEF Logged, Sent
    <3> HIDE DEF R
    <3> QED
      BY <3>1, LenProperties
  <2> QED
    BY <2>1
<1>2. origin[i] \in R
  <2>1. origin \in Seq(R)
    BY DEF Sent
  <2> HIDE DEF R, i
  <2> QED
    BY <1>1, <2>1, ElementOfSeq
<1>3. origin[i].at \in Nat \ {0} /\ origin[i].frame \in use.payloads
  BY <1>2
<1>4. Size(i) = Len(origin[i].frame) + 4
  BY DEF Size
<1>5. Len(origin[i].frame) \in Nat
  BY <1>3, Places, FramedIs
<1>6. /\ origin[i].at + Size(i) <= End
      /\ origin[i].at + Size(i) = IF i = Len(origin) THEN End ELSE origin[i + 1].at
  BY <1>1 DEF Sent
<1>7. origin[i].at + Size(i) = origin[i].at + Len(origin[i].frame) + 4
  BY <1>3, <1>4, <1>5
<1>8. Due = origin[i].at
  BY DEF Due
<1> QED
  BY <1>1, <1>2, <1>3, <1>4, <1>6, <1>7, <1>8

\* The bytes in the receive buffer are those of the frames.
LEMMA BytesDue ==
    ASSUME LineType, Sent, NEW i \in 1 .. Len(origin), NEW m \in 1 .. Len(rxbuf),
           NEW j \in 1 .. Size(i), origin[i].at \in Nat, Place + m = origin[i].at + j
    PROVE  rxbuf[m] = Framed(origin[i].frame)[j]
<1> DEFINE q == origin[i].at + j - 1
<1>1. /\ Len(rxbuf) \in Nat /\ count \in Nat /\ Place \in Nat /\ j \in Int
  BY Places
<1>2. q \in Int /\ q = Place + m - 1 /\ q >= Place
  BY <1>1
<1>3. q <= count /\ q - (count - Len(rxbuf)) = m
  BY <1>1, <1>2 DEF Place
<1>4. ByteAt(q) = Framed(origin[i].frame)[j]
  BY <1>2 DEF Sent
<1> HIDE DEF q
<1>5. ByteAt(q) = rxbuf[m]
  BY <1>3 DEF ByteAt
<1> QED
  BY <1>4, <1>5

\* The same for the byte that is read next.
LEMMA HeadDue ==
    ASSUME LineType, Sent, Logged, Len(log) < Len(origin), Len(rxbuf) >= 1,
           NEW j \in 1 .. Len(origin[Len(log) + 1].frame) + 4,
           Place + 1 = origin[Len(log) + 1].at + j
    PROVE  Head(rxbuf) = Framed(origin[Len(log) + 1].frame)[j]
<1> DEFINE i == Len(log) + 1
<1>1. /\ i \in 1 .. Len(origin) /\ origin[i].at \in Nat
      /\ Size(i) = Len(origin[i].frame) + 4
  BY FrameDue
<1>2. 1 \in 1 .. Len(rxbuf) /\ Head(rxbuf) = rxbuf[1]
  BY Places, HeadTailProperties
<1>3. j \in 1 .. Size(i)
  BY <1>1
<1> HIDE DEF i
<1>4. Place + 1 = origin[i].at + j
  BY DEF i
<1>5. rxbuf[1] = Framed(origin[i].frame)[j]
  BY <1>1, <1>2, <1>3, <1>4, BytesDue
<1> QED
  BY <1>2, <1>5 DEF i

\* A sequence is found again in front of what was appended.
LEMMA AppendKept ==
    ASSUME NEW S, NEW s \in Seq(S), NEW e \in S
    PROVE  SubSeq(Append(s, e), 1, Len(s)) = s
<1> DEFINE a == Append(s, e)
           b == SubSeq(a, 1, Len(s))
<1>1. /\ a \in Seq(S) /\ Len(a) = Len(s) + 1 /\ Len(s) \in Nat
      /\ \A i \in 1 .. Len(s) : a[i] = s[i] /\ s[i] \in S
  BY AppendProperties, LenProperties, ElementOfSeq
<1> HIDE DEF a
<1>2. /\ b \in Seq(S) /\ Len(b) = IF 1 <= Len(s) THEN Len(s) - 1 + 1 ELSE 0
      /\ \A i \in 1 .. Len(s) - 1 + 1 : b[i] = a[1 + i - 1]
  BY <1>1, SubSeqProperties
<1> HIDE DEF b
<1>3. Len(b) = Len(s)
  BY <1>1, <1>2
<1>4. ASSUME NEW i \in 1 .. Len(s) PROVE b[i] = s[i]
  <2>1. i \in 1 .. Len(s) - 1 + 1 /\ 1 + i - 1 = i
    BY <1>1
  <2> QED
    BY <1>1, <1>2, <2>1
<1> QED
  BY <1>2, <1>3, <1>4, SeqEqual DEF b, a

LEMMA LoggedKept ==
    ASSUME Logged, UNCHANGED <<use, origin, log>>
    PROVE  Logged'
BY DEF Logged

LEMMA StartInStep ==
    ASSUME LineType, RxInv, InStep, LoadStart
    PROVE  InStep'
<1>1. Reads(1) /\ rx.state = "WAITSTART" /\ log' = log
  BY DEF LoadStart, Loading
<1>2. Sent' /\ Place' = Place + 1 /\ End' = End /\ UNCHANGED <<use, origin, count, sending>>
  BY <1>1, SentReads DEF InStep
<1>3. Logged'
  BY <1>1, <1>2, LoggedKept DEF InStep
<1>4. Place = Due /\ Place <= count /\ Len(rxbuf) >= 1 /\ Place < End
  <2>1. Len(rxbuf) \in Nat /\ Len(rxbuf) >= 1 /\ count \in Nat /\ Len(sending) \in Nat
    BY <1>1, Places DEF Reads, InStep
  <2> QED
    BY <1>1, <2>1 DEF InStep, Placed, Place, End
<1>5. Len(log) < Len(origin)
  <2>1. SUFFICES ASSUME ~(Len(log) < Len(origin)) PROVE FALSE
    OBVIOUS
  <2>2. Due = End
    BY <2>1 DEF Due
  <2> QED
    BY <1>4, <2>2, Places DEF InStep
<1> DEFINE o == origin[Len(log) + 1]
<1>6. /\ o.at \in Nat \ {0} /\ o.frame \in use.payloads /\ Due = o.at
  BY <1>5, FrameDue DEF InStep
<1>7. Head(rxbuf) = Framed(o.frame)[1]
  <2>1. 1 \in 1 .. Len(o.frame) + 4
    BY <1>6, Places, FramedIs DEF InStep
  <2>2. Place + 1 = o.at + 1
    BY <1>4, <1>6
  <2> QED
    BY <1>4, <1>5, <2>1, <2>2, HeadDue DEF InStep
<1>8. Head(rxbuf) = Start
  BY <1>6, <1>7, Places, FramedIs DEF InStep
<1>9. rx' = [rx EXCEPT !.state = "LENGTH_MSB"] /\ begun' = Place
  BY <1>8 DEF LoadStart
<1>10. rx'.state = "LENGTH_MSB"
  BY <1>9 DEF RxInv, RxType
<1>11. Inside(1)'
  <2>1. origin' = origin /\ log' = log
    BY <1>1, <1>2
  <2>2. o' = o
    BY <2>1
  <2>3. Place' = begun' + 1 /\ begun' = o.at
    BY <1>2, <1>4, <1>6, <1>9
  <2> QED
    BY <1>5, <2>1, <2>3 DEF Inside
<1>12. Placed'
  BY <1>10, <1>11 DEF Placed
<1> QED
  BY <1>2, <1>3, <1>12 DEF InStep

\* The high digit of a length is no start marker.
LEMMA NoStart ==
    ASSUME NEW n \in 2 .. MaxLen
    PROVE  n \div Base # Start /\ (n \div Base) * Base + (n % Base) = n
<1>1. n \in Nat /\ Base \in Nat /\ Base > 0 /\ n < Base * (Base - 1)
  <2>1. MaxLen \in 2 .. Base * (Base - 1) - 1 /\ Base \in Nat /\ Base >= 4
    BY LinkAssumption
  <2>2. Base * (Base - 1) \in Int
    BY <2>1, SMT
  <2> QED
    BY <2>1, <2>2
<1>2. (n \div Base) * Base + (n % Base) = n
  <2>1. n % Base = n - Base * (n \div Base)
    <3>1. n \in Int /\ Base \in Int /\ Base > 0
      BY <1>1
    <3> QED
      BY <3>1, Z3
  <2>2. (n \div Base) * Base = Base * (n \div Base) /\ Base * (n \div Base) \in Int
    BY <1>1, SMT
  <2> DEFINE high == (n \div Base) * Base
             low == n % Base
  <2> HIDE DEF high, low
  <2>3. low = n - high /\ high \in Int
    BY <2>1, <2>2 DEF high, low
  <2>4. high + low = n
    BY <1>1, <2>3
  <2> QED
    BY <2>4 DEF high, low
<1>3. n \div Base # Base - 1
  BY <1>1, SMT
<1> QED
  BY <1>2, <1>3 DEF Start

LEMMA MsbInStep ==
    ASSUME LineType, RxInv, InStep, LoadMsb
    PROVE  InStep'
<1>1. Reads(1) /\ rx.state = "LENGTH_MSB" /\ log' = log
  BY DEF LoadMsb, Loading
<1>2. Sent' /\ Place' = Place + 1 /\ End' = End /\ UNCHANGED <<use, origin, count, sending>>
  BY <1>1, SentReads DEF InStep
<1>3. Logged'
  BY <1>1, <1>2, LoggedKept DEF InStep
<1> DEFINE o == origin[Len(log) + 1]
<1>4. Len(log) < Len(origin) /\ begun = o.at /\ Place = begun + 1
  BY <1>1 DEF InStep, Placed, Inside
<1>5. /\ o.at \in Nat \ {0} /\ o.frame \in use.payloads /\ use \in Uses
  BY <1>4, FrameDue, Places DEF InStep
<1>6. Head(rxbuf) = Len(o.frame) \div Base /\ Len(o.frame) \in 2 .. MaxLen
  <2>1. 2 \in 1 .. Len(o.frame) + 4 /\ Place + 1 = o.at + 2 /\ Len(rxbuf) >= 1
    <3>1. Len(o.frame) \in Nat
      BY <1>5, FramedIs
    <3>2. Place + 1 = o.at + 2
      BY <1>4, <1>5
    <3> QED
      BY <1>1, <3>1, <3>2 DEF Reads
  <2>2. Head(rxbuf) = Framed(o.frame)[2]
    BY <1>4, <2>1, HeadDue DEF InStep
  <2> QED
    BY <1>5, <2>2, FramedIs
<1>7. /\ rx' = [rx EXCEPT !.state = "LENGTH_LSB", !.bytes_in_frame = Head(rxbuf) * Base]
      /\ begun' = begun
  BY <1>6, NoStart DEF LoadMsb
<1>8. rx'.state = "LENGTH_LSB" /\ rx'.bytes_in_frame = (Len(o.frame) \div Base) * Base
  BY <1>6, <1>7 DEF RxInv, RxType
<1>9. Inside(2)'
  <2>1. Place' = begun' + 2 /\ begun' = o.at
    BY <1>2, <1>4, <1>5, <1>7
  <2> QED
    BY <1>1, <1>2, <1>4, <2>1 DEF Inside
<1>10. rx'.bytes_in_frame = (Len(origin'[Len(log') + 1].frame) \div Base) * Base
  BY <1>1, <1>2, <1>8
<1>11. Placed'
  BY <1>8, <1>9, <1>10 DEF Placed
<1> QED
  BY <1>2, <1>3, <1>11 DEF InStep

LEMMA LsbInStep ==
    ASSUME LineType, RxInv, InStep, LoadLsb
    PROVE  InStep'
<1>1. Reads(1) /\ rx.state = "LENGTH_LSB" /\ log' = log
  BY DEF LoadLsb, Loading
<1>2. Sent' /\ Place' = Place + 1 /\ End' = End /\ UNCHANGED <<use, origin, count, sending>>
  BY <1>1, SentReads DEF InStep
<1>3. Logged'
  BY <1>1, <1>2, LoggedKept DEF InStep
<1> DEFINE o == origin[Len(log) + 1]
<1>4. /\ Len(log) < Len(origin) /\ begun = o.at /\ Place = begun + 2
      /\ rx.bytes_in_frame = (Len(o.frame) \div Base) * Base
  BY <1>1 DEF InStep, Placed, Inside
<1>5. /\ o.at \in Nat \ {0} /\ o.frame \in use.payloads /\ use \in Uses
  BY <1>4, FrameDue, Places DEF InStep
<1>6. Head(rxbuf) = Len(o.frame) % Base /\ Len(o.frame) \in 2 .. MaxLen
  <2>1. 3 \in 1 .. Len(o.frame) + 4 /\ Place + 1 = o.at + 3 /\ Len(rxbuf) >= 1
    <3>1. Len(o.frame) \in Nat
      BY <1>5, FramedIs
    <3>2. Place + 1 = o.at + 3
      BY <1>4, <1>5
    <3> QED
      BY <1>1, <3>1, <3>2 DEF Reads
  <2>2. Head(rxbuf) = Framed(o.frame)[3]
    BY <1>4, <2>1, HeadDue DEF InStep
  <2> QED
    BY <1>5, <2>2, FramedIs
<1>7. rx.bytes_in_frame + Head(rxbuf) = Len(o.frame)
  <2>1. (Len(o.frame) \div Base) * Base + (Len(o.frame) % Base) = Len(o.frame)
    BY <1>6, NoStart
  <2> DEFINE high == (Len(o.frame) \div Base) * Base
             low == Len(o.frame) % Base
  <2>2. high + low = Len(o.frame) /\ rx.bytes_in_frame = high /\ Head(rxbuf) = low
    BY <1>4, <1>6, <2>1
  <2> HIDE DEF high, low
  <2> QED
    BY <2>2
<1>8. /\ rx' = [state |-> "RXFRAME", bytes_in_frame |-> Len(o.frame), frame_data |-> <<>>]
      /\ begun' = begun
  BY <1>6, <1>7 DEF LoadLsb
<1>9. /\ rx'.state = "RXFRAME" /\ rx'.bytes_in_frame = Len(o.frame) /\ rx'.frame_data = <<>>
      /\ Len(rx'.frame_data) = 0
  BY <1>8
<1>10. Inside(3 + Len(rx.frame_data))'
  <2>1. Place' = begun' + (3 + Len(rx'.frame_data)) /\ begun' = o.at
    BY <1>2, <1>4, <1>5, <1>8, <1>9
  <2> QED
    BY <1>1, <1>2, <1>4, <2>1 DEF Inside
<1>11. /\ origin'[Len(log') + 1] = o
       /\ \A m \in 1 .. Len(rx'.frame_data) : rx'.frame_data[m] = o.frame[m]
  BY <1>1, <1>2, <1>9
<1>12. Placed'
  BY <1>9, <1>10, <1>11 DEF Placed
<1> QED
  BY <1>2, <1>3, <1>12 DEF InStep

LEMMA Behind ==
    ASSUME NEW a \in Int, NEW n \in Int, NEW m \in 1 .. a + n, m > a
    PROVE  m - a \in 1 .. n /\ a + (m - a) = m /\ 3 + a + (m - a) = 3 + m
OBVIOUS

\* What is in the receive buffer while a frame is received: the rest of its bytes.
LEMMA RestDue ==
    ASSUME LineType, RxInv, InStep, Loading("RXFRAME"), NEW n \in 0 .. Len(rxbuf), n <= BytesLeft
    PROVE  LET o == origin[Len(log) + 1]
               data == rx.frame_data \o SubSeq(rxbuf, 1, n)
           IN  /\ data \in Seq(Byte) /\ Len(data) = Len(rx.frame_data) + n
               /\ Len(log) < Len(origin) /\ begun = o.at /\ Place = begun + 3 + Len(rx.frame_data)
               /\ rx.bytes_in_frame = Len(o.frame)
               /\ o.at \in Nat \ {0} /\ o.frame \in use.payloads /\ use \in Uses
               /\ Len(rx.frame_data) \in Nat
               /\ BytesLeft = Len(o.frame) + 1 - Len(rx.frame_data)
               /\ \A m \in 1 .. Len(data) : data[m] = Framed(o.frame)[3 + m]
<1> DEFINE o == origin[Len(log) + 1]
           d == rx.frame_data
           b == SubSeq(rxbuf, 1, n)
<1>1. /\ Len(log) < Len(origin) /\ begun = o.at /\ Place = begun + (3 + Len(d))
      /\ rx.bytes_in_frame = Len(o.frame) /\ \A m \in 1 .. Len(d) : d[m] = o.frame[m]
  BY DEF InStep, Placed, Loading, Inside
<1>2. d \in Seq(Byte) /\ Len(d) \in Nat
  BY LenProperties DEF RxInv, RxType
<1>3. o.at \in Nat \ {0} /\ o.frame \in use.payloads /\ use \in Uses
  BY <1>1, FrameDue, Places DEF InStep
<1>4. Len(o.frame) \in Nat /\ Len(d) <= Len(o.frame)
  BY <1>1, <1>3, FramedIs DEF RxInv, FrameFits, Loading
<1>5. BytesLeft = Len(o.frame) + 1 - Len(d)
  BY <1>1, <1>2, <1>4 DEF BytesLeft
<1>6. rxbuf \in Seq(Byte) /\ Len(rxbuf) \in Nat
  BY Places DEF InStep
<1>7. b \in Seq(Byte) /\ Len(b) = n /\ \A m \in 1 .. n : b[m] = rxbuf[m]
  <2>1. \A m \in 1 .. n : rxbuf[m] \in Byte
    BY <1>6, ElementOfSeq
  <2>2. /\ b \in Seq(Byte) /\ Len(b) = IF 1 <= n THEN n - 1 + 1 ELSE 0
        /\ \A m \in 1 .. n - 1 + 1 : b[m] = rxbuf[1 + m - 1]
    BY <1>6, <2>1, SubSeqProperties
  <2> HIDE DEF b
  <2>3. Len(b) = n
    BY <1>6, <2>2
  <2>4. ASSUME NEW m \in 1 .. n PROVE b[m] = rxbuf[m]
    <3>1. m \in 1 .. n - 1 + 1 /\ 1 + m - 1 = m
      BY <1>6
    <3> QED
      BY <2>2, <3>1
  <2> QED
    BY <2>2, <2>3, <2>4
<1> DEFINE f == d \o b
<1>8. /\ f \in Seq(Byte) /\ Len(f) = Len(d) + Len(b) /\ \A m \in 1 .. Len(d) : f[m] = d[m]
      /\ \A m \in 1 .. Len(b) : f[Len(d) + m] = b[m]
  <2>1. d \in Seq(Byte) /\ b \in Seq(Byte)
    BY <1>2, <1>7
  <2> HIDE DEF d, b
  <2> QED
    BY <2>1, ConcatAt
<1> HIDE DEF f, b
<1>9. ASSUME NEW m \in 1 .. Len(d) PROVE f[m] = Framed(o.frame)[3 + m]
  <2>1. m \in 1 .. Len(o.frame)
    BY <1>2, <1>4
  <2> QED
    BY <1>1, <1>3, <1>8, <2>1, FramedIs
<1>10. ASSUME NEW m \in 1 .. n PROVE f[Len(d) + m] = Framed(o.frame)[3 + Len(d) + m]
  <2> DEFINE j == 3 + Len(d) + m
             i == Len(log) + 1
  <2>1. i \in 1 .. Len(origin) /\ Size(i) = Len(o.frame) + 4
    BY <1>1, FrameDue DEF InStep
  <2>2. j \in 1 .. Size(i) /\ m \in 1 .. Len(rxbuf)
    BY <1>2, <1>4, <1>5, <1>6, <2>1
  <2>3. Place + m = o.at + j
    <3>1. Place = o.at + (3 + Len(d)) /\ o.at \in Int /\ Len(d) \in Int /\ m \in Int
      BY <1>1, <1>2, <1>3, <1>6
    <3> QED
      BY <3>1
  <2> HIDE DEF i, j
  <2>4. rxbuf[m] = Framed(origin[i].frame)[j]
    <3>1. origin[i].at \in Nat /\ Place + m = origin[i].at + j
      BY <1>3, <2>3 DEF i
    <3> QED
      BY <2>1, <2>2, <3>1, BytesDue DEF InStep
  <2> QED
    BY <1>7, <1>8, <2>4 DEF i, j
<1>11. ASSUME NEW m \in 1 .. Len(f) PROVE f[m] = Framed(o.frame)[3 + m]
  <2>1. CASE m <= Len(d)
    BY <1>2, <1>9, <2>1
  <2>2. CASE m > Len(d)
    <3>1. m - Len(d) \in 1 .. n /\ Len(d) + (m - Len(d)) = m /\ 3 + Len(d) + (m - Len(d)) = 3 + m
      <4>1. Len(f) = Len(d) + n /\ n \in Int /\ Len(d) \in Int
        BY <1>2, <1>6, <1>7, <1>8
      <4>2. m \in 1 .. Len(d) + n
        BY <4>1
      <4> QED
        BY <2>2, <4>1, <4>2, Behind
    <3> QED
      BY <1>10, <3>1
  <2> QED
    BY <1>2, <2>1, <2>2
<1>12. f \in Seq(Byte) /\ Len(f) = Len(d) + n
  BY <1>7, <1>8
<1>13. Place = begun + 3 + Len(d)
  <2>1. Place = o.at + (3 + Len(d)) /\ o.at \in Int /\ Len(d) \in Int /\ begun = o.at
    BY <1>1, <1>2, <1>3
  <2> QED
    BY <2>1
<1> QED
  BY <1>1, <1>2, <1>3, <1>5, <1>11, <1>12, <1>13 DEF f, b

LEMMA PartInStep ==
    ASSUME LineType, RxInv, InStep, LoadPart
    PROVE  InStep'
<1> DEFINE o == origin[Len(log) + 1]
           n == Len(rxbuf)
           d == rx.frame_data
<1>1. /\ Loading("RXFRAME") /\ n < BytesLeft /\ Reads(n) /\ log' = log /\ begun' = begun
      /\ rx' = [rx EXCEPT !.frame_data = d \o rxbuf]
  BY DEF LoadPart
<1>2. rxbuf \in Seq(Byte) /\ n \in Nat
  BY Places DEF InStep
<1>3. Sent' /\ Place' = Place + n /\ End' = End /\ UNCHANGED <<use, origin, count, sending>>
  BY <1>1, <1>2, SentReads DEF InStep
<1>4. Logged'
  BY <1>1, <1>3, LoggedKept DEF InStep
<1>5. SubSeq(rxbuf, 1, n) = rxbuf
  BY <1>2, SubSeqFull
<1> DEFINE f == d \o rxbuf
<1>6. /\ Len(f) = Len(d) + n /\ Len(d) \in Nat
      /\ Len(log) < Len(origin) /\ begun = o.at /\ Place = begun + 3 + Len(d)
      /\ rx.bytes_in_frame = Len(o.frame)
      /\ o.at \in Nat \ {0} /\ o.frame \in use.payloads /\ use \in Uses
      /\ BytesLeft = Len(o.frame) + 1 - Len(d)
      /\ \A m \in 1 .. Len(f) : f[m] = Framed(o.frame)[3 + m]
  <2>1. n \in 0 .. Len(rxbuf) /\ n <= BytesLeft
    <3>1. BytesLeft \in Int
      BY LenProperties DEF RxInv, RxType, BytesLeft
    <3> QED
      BY <1>1, <1>2, <3>1
  <2> HIDE DEF n
  <2> QED
    BY <1>1, <1>5, <2>1, RestDue
<1> HIDE DEF f
<1>7. rx'.state = "RXFRAME" /\ rx'.frame_data = f /\ rx'.bytes_in_frame = Len(o.frame)
  BY <1>1, <1>6 DEF RxInv, RxType, Loading, f
<1>8. ASSUME NEW m \in 1 .. Len(f) PROVE f[m] = o.frame[m]
  <2>1. Len(o.frame) \in Nat /\ Len(f) <= Len(o.frame)
    <3>1. Len(o.frame) \in Nat
      BY <1>6, FramedIs
    <3>2. n < BytesLeft /\ n \in Int
      BY <1>1, <1>2
    <3>3. Len(f) = Len(d) + n /\ BytesLeft = Len(o.frame) + 1 - Len(d) /\ Len(d) \in Int
      BY <1>6
    <3> HIDE DEF n, d, o
    <3> QED
      BY <3>1, <3>2, <3>3
  <2>2. m \in 1 .. Len(o.frame)
    BY <1>2, <1>6, <2>1
  <2> QED
    BY <1>6, <2>2, FramedIs
<1>9. Inside(3 + Len(rx.frame_data))'
  <2>1. Place' = begun' + (3 + Len(rx'.frame_data))
    <3>1. Place = o.at + 3 + Len(d) /\ o.at \in Int /\ Len(d) \in Int /\ n \in Int
      BY <1>2, <1>6
    <3>2. Place' = Place + n /\ begun' = o.at /\ Len(rx'.frame_data) = Len(d) + n
      BY <1>1, <1>3, <1>6, <1>7
    <3> HIDE DEF n, d
    <3> QED
      BY <3>1, <3>2
  <2> QED
    BY <1>1, <1>3, <1>6, <2>1 DEF Inside
<1>10. origin'[Len(log') + 1] = o
  BY <1>1, <1>3
<1>11. Placed'
  BY <1>7, <1>8, <1>9, <1>10 DEF Placed
<1> QED
  BY <1>3, <1>4, <1>11 DEF InStep

\* The last bytes of a frame are read: it is the one that is due, and its checksum.
LEMMA LastDue ==
    ASSUME LineType, RxInv, InStep, Loading("RXFRAME"), Reads(BytesLeft)
    PROVE  LET o == origin[Len(log) + 1]
               data == rx.frame_data \o SubSeq(rxbuf, 1, BytesLeft)
           IN  /\ Len(log) < Len(origin) /\ begun = o.at
               /\ rx.bytes_in_frame = Len(o.frame)
               /\ data = Append(o.frame, Checksum(o.frame))
               /\ o.at \in Nat \ {0} /\ o.frame \in use.payloads /\ use \in Uses
               /\ BytesLeft \in Nat /\ Place + BytesLeft = o.at + Len(o.frame) + 4
<1> DEFINE o == origin[Len(log) + 1]
           d == rx.frame_data
           n == BytesLeft
<1>1. n \in Nat /\ n \in 0 .. Len(rxbuf) /\ n <= BytesLeft
  <2>1. n \in Nat
    BY LenProperties DEF RxInv, RxType, FrameFits, Loading, BytesLeft
  <2>2. Len(rxbuf) \in Nat /\ Len(rxbuf) >= n
    BY Places DEF Reads, InStep
  <2> HIDE DEF n
  <2>3. n <= BytesLeft
    BY <2>1 DEF n
  <2> QED
    BY <2>1, <2>2, <2>3
<1> DEFINE f == d \o SubSeq(rxbuf, 1, n)
<1>2. /\ f \in Seq(Byte) /\ Len(f) = Len(d) + n /\ Len(d) \in Nat
      /\ Len(log) < Len(origin) /\ begun = o.at /\ Place = begun + 3 + Len(d)
      /\ rx.bytes_in_frame = Len(o.frame)
      /\ o.at \in Nat \ {0} /\ o.frame \in use.payloads /\ use \in Uses
      /\ n = Len(o.frame) + 1 - Len(d)
      /\ \A m \in 1 .. Len(f) : f[m] = Framed(o.frame)[3 + m]
  BY <1>1, RestDue
<1> HIDE DEF f
<1> DEFINE p == o.frame
           c == Checksum(p)
           g == Framed(p)
           e == Append(p, c)
<1>3. /\ p \in Seq(Byte) /\ Len(p) \in Nat /\ \A m \in 1 .. Len(p) : Framed(p)[3 + m] = p[m]
      /\ Framed(p)[Len(p) + 4] = Checksum(p) /\ Checksum(p) \in Byte
  BY <1>2, FramedIs, ChecksumAssumption
<1>4. Len(f) = Len(p) + 1
  <2>1. Len(d) \in Int /\ n \in Int /\ Len(p) \in Int
    BY <1>1, <1>2, <1>3
  <2> HIDE DEF n, p, d
  <2> QED
    BY <1>2, <2>1 DEF p
<1>5. /\ Len(e) = Len(p) + 1 /\ e \in Seq(Byte)
      /\ \A m \in 1 .. Len(p) : e[m] = p[m]
      /\ e[Len(p) + 1] = c
  <2>1. p \in Seq(Byte) /\ c \in Byte
    BY <1>3
  <2> HIDE DEF p, c
  <2> QED
    BY <2>1, AppendProperties
<1>6. ASSUME NEW m \in 1 .. Len(p) + 1 PROVE f[m] = e[m]
  <2>1. f[m] = g[3 + m]
    BY <1>2, <1>4
  <2>2. CASE m \in 1 .. Len(p)
    BY <1>3, <1>5, <2>1, <2>2
  <2>3. CASE m = Len(p) + 1
    <3>1. 3 + m = Len(p) + 4
      BY <1>3, <2>3
    <3> QED
      BY <1>3, <1>5, <2>1, <2>3, <3>1
  <2>4. m \in 1 .. Len(p) \/ m = Len(p) + 1
    BY <1>3
  <2> QED
    BY <2>2, <2>3, <2>4
<1>7. f = e
  <2>1. f \in Seq(Byte) /\ e \in Seq(Byte) /\ Len(f) = Len(e)
    BY <1>2, <1>4, <1>5
  <2>2. \A m \in 1 .. Len(f) : f[m] = e[m]
    BY <1>4, <1>6
  <2> HIDE DEF e
  <2> QED
    BY <2>1, <2>2, SeqEqual
<1>8. Place + n = o.at + Len(o.frame) + 4
  <2>1. o.at \in Int /\ Len(d) \in Int /\ Len(o.frame) \in Int /\ Place = o.at + 3 + Len(d)
    BY <1>2, <1>3
  <2>2. n = Len(o.frame) + 1 - Len(d)
    BY <1>2
  <2> HIDE DEF n, d
  <2> QED
    BY <2>1, <2>2
<1> QED
  BY <1>1, <1>2, <1>7, <1>8 DEF f

\* On a good line no checksum fails.
LEMMA NoneDamaged ==
    ASSUME LineType, RxInv, InStep, LoadDamaged
    PROVE  FALSE
<1> DEFINE o == origin[Len(log) + 1]
           data == rx.frame_data \o SubSeq(rxbuf, 1, BytesLeft)
<1>1. Loading("RXFRAME") /\ Reads(BytesLeft) /\ Checksum(data) # 0
  BY DEF LoadDamaged
<1>2. data = Append(o.frame, Checksum(o.frame)) /\ o.frame \in use.payloads /\ use \in Uses
  BY <1>1, LastDue
<1> HIDE DEF data, o
<1> QED
  BY <1>1, <1>2, ChecksumAssumption

LEMMA DispatchInStep ==
    ASSUME LineType, RxInv, InStep, LoadDispatches
    PROVE  InStep'
<1> DEFINE o == origin[Len(log) + 1]
           n == BytesLeft
           data == rx.frame_data \o SubSeq(rxbuf, 1, n)
           frame == SubSeq(data, 1, rx.bytes_in_frame)
           p == o.frame
           c == Checksum(p)
           R == [at : Nat \ {0}, frame : use.payloads]
<1>1. /\ Loading("RXFRAME") /\ Reads(n) /\ begun' = begun
      /\ rx' = [rx EXCEPT !.state = "WAITSTART", !.frame_data = data]
      /\ log' = Append(log, [at |-> begun, frame |-> frame])
  BY DEF LoadDispatches
<1>2. /\ Len(log) < Len(origin) /\ begun = o.at /\ rx.bytes_in_frame = Len(p)
      /\ data = Append(p, c) /\ o.at \in Nat \ {0} /\ p \in use.payloads /\ use \in Uses
      /\ n \in Nat /\ Place + n = o.at + Len(p) + 4
  BY <1>1, LastDue
<1>3. Sent' /\ Place' = Place + n /\ End' = End /\ UNCHANGED <<use, origin, count, sending>>
  BY <1>1, <1>2, SentReads DEF InStep
<1>4. frame = p
  <2>1. p \in Seq(Byte) /\ c \in Byte /\ Len(p) \in Nat
    BY <1>2, FramedIs, ChecksumAssumption
  <2>2. frame = SubSeq(Append(p, c), 1, Len(p))
    BY <1>2
  <2> HIDE DEF p, c, frame
  <2> QED
    BY <2>1, <2>2, AppendKept
<1>5. o \in R /\ Len(log) + 1 \in 1 .. Len(origin)
  BY <1>2, FrameDue DEF InStep
<1>6. [at |-> begun, frame |-> frame] = o
  BY <1>2, <1>4, <1>5
<1>7. log \in Seq(R) /\ log' = Append(log, o)
  BY <1>1, <1>6 DEF InStep, Logged
<1>8. /\ log' \in Seq(R) /\ Len(log') = Len(log) + 1 /\ Len(log) \in Nat
      /\ \A i \in 1 .. Len(log) : log'[i] = log[i]
      /\ log'[Len(log) + 1] = o
  <2> HIDE DEF R, o
  <2> QED
    BY <1>5, <1>7, AppendProperties, LenProperties
<1>9. Logged'
  <2>1. \A i \in 1 .. Len(log) : log'[i] = origin[i]
    BY <1>8 DEF InStep, Logged
  <2>2. \A i \in 1 .. Len(log') : i \in 1 .. Len(log) \/ i = Len(log) + 1
    BY <1>8
  <2>3. \A i \in 1 .. Len(log') : log'[i] = origin[i]
    BY <1>8, <2>1, <2>2
  <2>4. Len(log') <= Len(origin)
    BY <1>5, <1>8
  <2> QED
    BY <1>3, <1>8, <2>3, <2>4 DEF Logged
<1>10. Place' = Due'
  <2>1. Place' = IF Len(log) + 1 = Len(origin) THEN End ELSE origin[Len(log) + 2].at
    BY <1>2, <1>3, FrameDue DEF InStep
  <2>2. Len(log') + 1 = Len(log) + 2 /\ (Len(log') < Len(origin) <=> Len(log) + 1 # Len(origin))
    BY <1>5, <1>8
  <2> QED
    BY <1>3, <1>8, <2>1, <2>2 DEF Due
<1>11. rx'.state = "WAITSTART"
  BY <1>1 DEF RxInv, RxType
<1>12. Placed'
  BY <1>10, <1>11 DEF Placed
<1> QED
  BY <1>3, <1>9, <1>12 DEF InStep

\* The module frames a payload behind what it sent before.
LEMMA SendsInStep ==
    ASSUME LineType, InStep, NEW p \in use.payloads, ModuleSends(p)
    PROVE  InStep'
<1> DEFINE R == [at : Nat \ {0}, frame : use.payloads]
           o == [at |-> count + 1, frame |-> p]
           g == Framed(p)
<1> PICK n : n = Len(origin)
  OBVIOUS
<1>1. /\ sending = <<>> /\ sending' = g /\ origin' = Append(origin, o)
      /\ UNCHANGED <<use, rxbuf, count, rx, begun, log>>
  BY DEF ModuleSends, rxVars
<1>2. use \in Uses /\ Len(rxbuf) \in Nat /\ Len(rxbuf) <= count /\ count \in Nat
  BY Places DEF InStep, Sent
<1>3. Len(p) \in Nat /\ Len(g) = Len(p) + 4
  BY <1>2, FramedIs
<1>4. End = count + 1 /\ End' = count + 1 + Len(p) + 4
  <2>1. Len(sending) = 0 /\ Len(sending') = Len(p) + 4
    BY <1>1, <1>3
  <2> QED
    BY <1>1, <1>2, <1>3, <2>1 DEF End
<1>5. origin \in Seq(R) /\ n \in Nat
  <2>1. origin \in Seq(R)
    BY DEF InStep, Sent
  <2> HIDE DEF R
  <2>2. Len(origin) \in Nat
    BY <2>1, LenProperties
  <2> QED
    BY <2>1, <2>2
<1>6. o \in R /\ o.at = count + 1 /\ o.frame = p
  BY <1>2
<1>7. /\ origin' \in Seq(R) /\ Len(origin') = n + 1
      /\ \A i \in 1 .. n : origin'[i] = origin[i]
      /\ origin'[n + 1] = o
  <2> HIDE DEF R, o
  <2> QED
    BY <1>1, <1>5, <1>6, AppendProperties
<1> HIDE DEF o
<1>8. \A i \in 1 .. n : Size(i)' = Size(i)
  BY <1>7 DEF Size
<1>9. Size(n + 1)' = Len(p) + 4
  BY <1>6, <1>7 DEF Size
<1>10. ASSUME NEW i \in 1 .. n
       PROVE  /\ origin[i].at \in Nat /\ Size(i) \in Nat /\ origin[i].at + Size(i) <= End
              /\ origin[i].at + Size(i) = IF i = n THEN End ELSE origin[i + 1].at
              /\ origin[i].frame \in use.payloads
  <2>1. origin[i] \in R
    <3> HIDE DEF R
    <3> QED
      BY <1>5, ElementOfSeq
  <2>2. origin[i].at \in Nat /\ origin[i].frame \in use.payloads
    BY <2>1
  <2>3. Size(i) \in Nat
    BY <1>2, <2>2, FramedIs DEF Size
  <2>4. /\ origin[i].at + Size(i) <= End
        /\ origin[i].at + Size(i) = IF i = n THEN End ELSE origin[i + 1].at
    BY DEF InStep, Sent
  <2> QED
    BY <2>2, <2>3, <2>4
<1>11. ASSUME NEW i \in 1 .. n
       PROVE  /\ origin'[i].at + Size(i)' <= End'
              /\ origin'[i].at + Size(i)' = IF i = n + 1 THEN End' ELSE origin'[i + 1].at
  <2>1. origin'[i].at + Size(i)' = origin[i].at + Size(i)
    BY <1>7, <1>8
  <2>2. End <= End'
    BY <1>2, <1>3, <1>4
  <2>3. origin[i].at + Size(i) <= End'
    BY <1>2, <1>3, <1>4, <1>10, <2>2
  <2>4. origin[i].at + Size(i) = origin'[i + 1].at
    <3>1. CASE i = n
      BY <1>4, <1>6, <1>7, <1>10, <3>1
    <3>2. CASE i # n
      <4>1. i + 1 \in 1 .. n
        BY <1>5, <3>2
      <4> QED
        BY <1>7, <1>10, <3>2, <4>1
    <3> QED
      BY <3>1, <3>2
  <2>5. i # n + 1
    BY <1>5
  <2> QED
    BY <2>1, <2>3, <2>4, <2>5
<1>12. /\ origin'[n + 1].at + Size(n + 1)' <= End'
       /\ origin'[n + 1].at + Size(n + 1)' = End'
  <2>1. origin'[n + 1].at = count + 1 /\ Size(n + 1)' = Len(p) + 4
    BY <1>6, <1>7, <1>9
  <2> QED
    BY <1>2, <1>3, <1>4, <2>1
<1>13. Place' = Place
  BY <1>1 DEF Place
<1>14. ASSUME NEW i \in 1 .. n, NEW j \in 1 .. Size(i), origin[i].at + j - 1 >= Place
       PROVE  ByteAt(origin[i].at + j - 1)' = Framed(origin[i].frame)[j]
  <2> DEFINE q == origin[i].at + j - 1
  <2>1. q <= count
    <3>1. origin[i].at + Size(i) <= count + 1 /\ origin[i].at \in Nat /\ Size(i) \in Nat
      BY <1>4, <1>10
    <3> QED
      BY <1>2, <3>1
  <2>2. ByteAt(q) = Framed(origin[i].frame)[j]
    BY <1>14 DEF InStep, Sent
  <2>3. PICK c : c = q
    OBVIOUS
  <2>4. c <= count'
    BY <1>1, <2>1, <2>3
  <2>5. ByteAt(c)' = ByteAt(c)
    BY <1>1, <2>1, <2>3 DEF ByteAt
  <2>6. q' = origin'[i].at + j - 1 /\ origin'[i].at = origin[i].at
    BY <1>7
  <2> QED
    BY <1>1, <2>2, <2>3, <2>5, <2>6 DEF ByteAt
<1>15. ASSUME NEW j \in 1 .. Len(p) + 4
       PROVE  ByteAt(origin[n + 1].at + j - 1)' = g[j]
  <2>1. PICK c : c = count + j
    OBVIOUS
  <2>2. origin'[n + 1].at + j - 1 = c /\ ~(c <= count) /\ c - count = j
    <3>1. origin'[n + 1].at = count + 1 /\ count \in Nat /\ j \in Nat /\ j >= 1
      BY <1>2, <1>3, <1>6, <1>7
    <3> QED
      BY <2>1, <3>1
  <2>3. ByteAt(c)' = g[j]
    BY <1>1, <2>2 DEF ByteAt
  <2>4. (origin[n + 1].at + j - 1)' = c
    BY <2>2
  <2> QED
    BY <2>3, <2>4 DEF ByteAt
<1>16. Sent'
  <2>1. count' \in Nat /\ Len(rxbuf') <= count'
    BY <1>1, <1>2
  <2>2. origin' \in Seq([at : Nat \ {0}, frame : use'.payloads])
    BY <1>1, <1>7
  <2>3. ASSUME NEW i \in 1 .. Len(origin')
        PROVE  /\ (origin[i].at + Size(i) <= End)'
               /\ (origin[i].at + Size(i) = IF i = Len(origin) THEN End ELSE origin[i + 1].at)'
               /\ \A j \in 1 .. Size(i)' :
                     (origin[i].at + j - 1 >= Place)' =>
                         ByteAt(origin[i].at + j - 1)' = Framed(origin'[i].frame)[j]
    <3>1. CASE i \in 1 .. n
      <4>1. origin'[i] = origin[i] /\ Size(i)' = Size(i) /\ Len(origin') = n + 1
        BY <1>7, <1>8, <3>1
      <4>2. ASSUME NEW j \in 1 .. Size(i)', (origin[i].at + j - 1 >= Place)'
            PROVE  ByteAt(origin[i].at + j - 1)' = Framed(origin'[i].frame)[j]
        <5>1. j \in 1 .. Size(i) /\ origin[i].at + j - 1 >= Place
          BY <1>13, <4>1, <4>2
        <5> QED
          BY <1>14, <3>1, <4>1, <5>1
      <4> QED
        BY <1>11, <3>1, <4>1, <4>2
    <3>2. CASE i = n + 1
      <4>1. origin'[n + 1].frame = p /\ Size(n + 1)' = Len(p) + 4 /\ Len(origin') = n + 1
        BY <1>6, <1>7, <1>9
      <4> QED
        BY <1>12, <1>15, <3>2, <4>1
    <3> QED
      BY <1>5, <1>7, <3>1, <3>2
  <2> QED
    BY <2>1, <2>2, <2>3 DEF Sent
<1>17. Logged'
  <2>1. /\ log \in Seq(R) /\ Len(log) <= n /\ \A i \in 1 .. Len(log) : log[i] = origin[i]
    BY DEF InStep, Logged
  <2>2. Len(log) \in Nat
    <3> HIDE DEF R
    <3> QED
      BY <2>1, LenProperties
  <2>3. \A i \in 1 .. Len(log) : i \in 1 .. n
    BY <1>5, <2>1, <2>2
  <2>4. log' = log /\ use' = use /\ Len(log) <= n + 1
    BY <1>1, <1>5, <2>1, <2>2
  <2>5. \A i \in 1 .. Len(log') : log'[i] = origin'[i]
    BY <1>7, <2>1, <2>3, <2>4
  <2>6. Len(log') <= Len(origin')
    BY <1>7, <2>4
  <2> QED
    BY <2>1, <2>4, <2>5, <2>6 DEF Logged
<1>18. /\ Len(log) <= n /\ Len(log) \in Nat
       /\ Len(log) < n => origin'[Len(log) + 1] = origin[Len(log) + 1]
       /\ Len(log) = n => origin'[Len(log) + 1] = o
  <2>1. log \in Seq(R) /\ Len(log) <= n
    BY DEF InStep, Logged
  <2>2. Len(log) \in Nat
    <3> HIDE DEF R
    <3> QED
      BY <2>1, LenProperties
  <2>3. Len(log) < n => Len(log) + 1 \in 1 .. n
    BY <1>5, <2>2
  <2> QED
    BY <1>7, <2>1, <2>2, <2>3
<1>19. Due' = Due
  <2>1. CASE Len(log) < n
    <3>1. Len(log') < Len(origin')
      BY <1>1, <1>5, <1>7, <1>18, <2>1
    <3> QED
      BY <1>1, <1>18, <2>1, <3>1 DEF Due
  <2>2. CASE Len(log) = n
    <3>1. Len(log') < Len(origin') /\ ~(Len(log) < Len(origin))
      BY <1>1, <1>5, <1>7, <2>2
    <3> QED
      BY <1>1, <1>4, <1>6, <1>18, <2>2, <3>1 DEF Due
  <2> QED
    BY <1>5, <1>18, <2>1, <2>2
<1>20. ASSUME NEW k, Inside(k)
       PROVE  Inside(k)' /\ origin'[Len(log') + 1] = origin[Len(log) + 1]
  <2>1. Len(log) < n /\ Len(log') < Len(origin') /\ log' = log
    BY <1>1, <1>5, <1>7, <1>18, <1>20 DEF Inside
  <2>2. origin'[Len(log') + 1] = origin[Len(log) + 1]
    BY <1>18, <2>1
  <2> QED
    BY <1>1, <1>13, <1>20, <2>1, <2>2 DEF Inside
<1>21. Placed'
  <2>1. rx' = rx /\ Placed
    BY <1>1 DEF InStep
  <2>2. rx.state = "WAITSTART" => Place' = Due'
    BY <1>13, <1>19, <2>1 DEF Placed
  <2>3. rx.state = "LENGTH_MSB" => Inside(1)'
    BY <1>20, <2>1 DEF Placed
  <2>4. rx.state = "LENGTH_LSB" =>
          /\ Inside(2)'
          /\ rx.bytes_in_frame = (Len(origin'[Len(log') + 1].frame) \div Base) * Base
    BY <1>20, <2>1 DEF Placed
  <2>5. PICK l : l = 3 + Len(rx.frame_data)
    OBVIOUS
  <2>6. rx.state = "RXFRAME" => Inside(l)' /\ origin'[Len(log') + 1] = origin[Len(log) + 1]
    BY <1>20, <2>1, <2>5 DEF Placed
  <2>7. rx.state = "RXFRAME" => Inside(3 + Len(rx.frame_data))'
    BY <2>1, <2>5, <2>6 DEF Inside
  <2>8. rx.state = "RXFRAME" =>
          LET q == origin'[Len(log') + 1].frame
          IN  /\ rx.bytes_in_frame = Len(q)
              /\ \A m \in 1 .. Len(rx.frame_data) : rx.frame_data[m] = q[m]
    BY <2>1, <2>6 DEF Placed
  <2> QED
    BY <2>1, <2>2, <2>3, <2>4, <2>7, <2>8 DEF Placed
<1> QED
  BY <1>16, <1>17, <1>21 DEF InStep

\* A byte goes from the module to the receive buffer.
LEMMA ArrivesInStep ==
    ASSUME LineType, InStep, ByteArrives
    PROVE  InStep'
<1> DEFINE b == Head(sending)
<1>1. /\ sending # <<>> /\ sending' = Tail(sending)
      /\ rxbuf' = Append(rxbuf, b) /\ count' = count + 1
      /\ UNCHANGED <<use, origin, rx, begun, log>>
  BY DEF ByteArrives, Arrives, rxVars
<1>2. /\ use \in Uses /\ rxbuf \in Seq(Byte) /\ sending \in Seq(Byte)
      /\ Len(rxbuf) \in Nat /\ Len(sending) \in Nat /\ count \in Nat /\ Len(rxbuf) <= count
      /\ Place \in Nat /\ End \in Nat
  BY Places DEF InStep, Sent
<1>3. /\ b \in Byte /\ b = sending[1] /\ Len(sending') = Len(sending) - 1 /\ Len(sending) >= 1
      /\ \A m \in 1 .. Len(sending) - 1 : sending'[m] = sending[m + 1]
  <2>1. /\ Head(sending) = sending[1] /\ Len(Tail(sending)) = Len(sending) - 1
        /\ \A m \in 1 .. Len(Tail(sending)) : Tail(sending)[m] = sending[m + 1]
    BY <1>1, <1>2, HeadTailProperties
  <2>2. Len(sending) >= 1
    BY <1>1, <1>2, EmptySeq
  <2>3. b \in Byte
    BY <1>2, <2>1, <2>2, ElementOfSeq
  <2> QED
    BY <1>1, <2>1, <2>2, <2>3
<1> HIDE DEF b
<1>4. /\ Len(rxbuf') = Len(rxbuf) + 1 /\ \A m \in 1 .. Len(rxbuf) : rxbuf'[m] = rxbuf[m]
      /\ rxbuf'[Len(rxbuf) + 1] = b
  BY <1>1, <1>2, <1>3, AppendProperties
<1>5. Place' = Place /\ End' = End
  BY <1>1, <1>2, <1>3, <1>4 DEF Place, End
<1>6. ASSUME NEW q \in Int, q >= Place', q < End
      PROVE  ByteAt(q)' = ByteAt(q)
  <2>1. count' - Len(rxbuf') = count - Len(rxbuf) /\ count' = count + 1
    BY <1>1, <1>2, <1>4
  <2>2. CASE q <= count
    <3> DEFINE m == q - (count - Len(rxbuf))
    <3>1. m \in 1 .. Len(rxbuf)
      BY <1>2, <1>5, <1>6, <2>2 DEF Place
    <3>2. rxbuf'[m] = rxbuf[m] /\ q <= count'
      BY <1>2, <1>4, <2>1, <2>2, <3>1
    <3> QED
      BY <2>1, <2>2, <3>2 DEF ByteAt
  <2>3. CASE q = count + 1
    <3>1. q <= count' /\ ~(q <= count) /\ q - count = 1 /\ q - (count - Len(rxbuf)) = Len(rxbuf) + 1
      BY <1>2, <2>1, <2>3
    <3> QED
      BY <1>3, <1>4, <2>1, <3>1 DEF ByteAt
  <2>4. CASE q > count + 1
    <3>1. ~(q <= count') /\ ~(q <= count) /\ q - count' \in 1 .. Len(sending) - 1
          /\ (q - count') + 1 = q - count
      BY <1>2, <1>6, <2>1, <2>4 DEF End
    <3>2. sending'[q - count'] = sending[q - count]
      BY <1>3, <3>1
    <3> QED
      BY <3>1, <3>2 DEF ByteAt
  <2> QED
    BY <1>2, <2>2, <2>3, <2>4
<1>7. Sent'
  <2>1. /\ UNCHANGED <<use, origin>> /\ Place \in Int /\ Place' \in Int /\ End \in Int
        /\ Place' >= Place /\ count' \in Nat /\ Len(rxbuf') <= count'
    BY <1>1, <1>2, <1>4, <1>5
  <2> QED
    BY <1>2, <1>5, <1>6, <2>1, SentKept DEF InStep
<1>8. Logged' /\ Placed'
  BY <1>1, <1>5 DEF InStep, Logged, Placed, Due, Inside
<1> QED
  BY <1>7, <1>8 DEF InStep

\* The other steps read no byte and bring none.
LEMMA InStepKept ==
    ASSUME InStep, UNCHANGED <<use, origin, rxbuf, count, sending, rx, begun, log>>
    PROVE  InStep'
<1>1. /\ Place' = Place /\ End' = End /\ Due' = Due
      /\ \A q : ByteAt(q)' = ByteAt(q)
      /\ \A i : Size(i)' = Size(i)
      /\ \A n : Inside(n)' = Inside(n)
  BY DEF Place, End, Due, ByteAt, Size, Inside
<1>2. Sent'
  BY <1>1 DEF InStep, Sent
<1>3. Logged' /\ Placed'
  BY <1>1 DEF InStep, Logged, Placed
<1> QED
  BY <1>2, <1>3 DEF InStep

LEMMA LoadInStep ==
    ASSUME LineType, RxInv, InStep, Load
    PROVE  InStep'
<1>1. CASE LoadNothing
  <2>1. UNCHANGED <<use, origin, rxbuf, count, sending, rx, begun, log>>
    BY <1>1 DEF LoadNothing, lineVars
  <2> QED
    BY <2>1, InStepKept
<1> QED
  BY <1>1, StartInStep, MsbInStep, LsbInStep, PartInStep, NoneDamaged, DispatchInStep DEF Load

\* Until the line damages something the receiver is in step.
Followed == count \in Nat /\ (damage = 0 => InStep)

LEMMA FollowedStep ==
    ASSUME IInv, Followed, [Next]_vars
    PROVE  Followed'
<1>1. LineType /\ RxInv
  BY DEF IInv
<1>2. CASE Load
  <2>1. UNCHANGED <<count, damage>>
    BY <1>1, <1>2, ReadsSome DEF Reads, lineVars
  <2> QED
    BY <1>1, <1>2, <2>1, LoadInStep DEF Followed
<1>3. CASE \E p \in use.payloads : ModuleSends(p)
  <2>1. UNCHANGED <<count, damage>>
    BY <1>3 DEF ModuleSends
  <2> QED
    BY <1>1, <1>3, <2>1, SendsInStep DEF Followed
<1>4. CASE ByteArrives
  <2>1. count' = count + 1 /\ damage' = damage
    BY <1>4 DEF ByteArrives, Arrives
  <2> QED
    BY <1>1, <1>4, <2>1, ArrivesInStep DEF Followed
<1>5. CASE ByteLost \/ DevReset \/ \E b \in Byte : ByteChanged(b) \/ ByteAdded(b)
  <2>1. damage' = count + 1 /\ (count' = count \/ count' = count + 1)
    BY <1>5 DEF ByteLost, DevReset, ByteChanged, ByteAdded, Fault, Arrives
  <2> QED
    BY <2>1 DEF Followed
<1>6. CASE DevTick \/ HandlerReturns \/ Write \/ UNCHANGED vars
  <2>1. UNCHANGED <<use, origin, rxbuf, count, sending, rx, begun, log, damage>>
    BY <1>6 DEF DevTick, HandlerReturns, Write, SetFlowControl, FrameWrite, TxDrains,
                WriteRefused, WriteAccepted, WritePrefix, WriteBytes, WriteChecksum, WritePart,
                lineVars, rxVars, vars
  <2> QED
    BY <2>1, InStepKept DEF Followed
<1> QED
  BY <1>2, <1>3, <1>4, <1>5, <1>6 DEF Next, Line

LEMMA FollowedStart ==
    ASSUME Init
    PROVE  Followed
<1>1. /\ sending = <<>> /\ rxbuf = <<>> /\ count = 0 /\ origin = <<>> /\ log = <<>>
      /\ rx.state = "WAITSTART"
  BY DEF Init
<1>2. Len(sending) = 0 /\ Len(rxbuf) = 0 /\ Len(origin) = 0 /\ Len(log) = 0
  BY <1>1
<1>3. Sent
  BY <1>1, <1>2 DEF Sent
<1>4. Logged
  BY <1>1, <1>2 DEF Logged
<1>5. Placed
  <2>1. Place = 1 /\ End = 1 /\ Due = End
    BY <1>1, <1>2 DEF Place, End, Due
  <2> QED
    BY <1>1, <2>1 DEF Placed
<1> QED
  BY <1>1, <1>3, <1>4, <1>5 DEF Followed, InStep

\* At rest nothing is left to dispatch.
LEMMA NothingLeft ==
    ASSUME LineType, RxInv, InStep, Quiet
    PROVE  Len(log) = Len(origin)
<1>1. Place = End /\ Place \in Nat
  <2>1. Len(sending) = 0 /\ Len(rxbuf) = 0
    BY DEF Quiet
  <2> QED
    BY <2>1, Places DEF Place, End, InStep
<1>2. SUFFICES ASSUME Len(log) < Len(origin) PROVE FALSE
  <2>1. Len(log) <= Len(origin) /\ Len(log) \in Nat /\ Len(origin) \in Nat
    <3> DEFINE R == [at : Nat \ {0}, frame : use.payloads]
    <3>1. log \in Seq(R) /\ origin \in Seq(R) /\ Len(log) <= Len(origin)
      BY DEF InStep, Sent, Logged
    <3> HIDE DEF R
    <3> QED
      BY <3>1, LenProperties
  <2> QED
    BY <1>2, <2>1
<1> DEFINE o == origin[Len(log) + 1]
<1>3. /\ o.at \in Nat \ {0} /\ Due = o.at /\ o.frame \in use.payloads /\ use \in Uses
      /\ o.at + Len(o.frame) + 4 <= End
  BY <1>2, FrameDue, Places DEF InStep
<1>4. Len(o.frame) \in Nat
  BY <1>3, FramedIs
<1>5. \A k \in Nat : k <= 3 + Len(o.frame) => End # o.at + k
  <2> DEFINE s == Len(o.frame)
  <2>1. o.at \in Nat /\ s \in Nat /\ o.at + s + 4 <= End /\ End \in Nat
    BY <1>1, <1>3, <1>4
  <2> HIDE DEF s
  <2> QED
    BY <2>1 DEF s
<1>6. rx.state # "WAITSTART"
  BY <1>1, <1>3, <1>4, <1>5 DEF InStep, Placed
<1>7. rx.state # "LENGTH_MSB"
  <2>1. Inside(1) => End = o.at + 1
    BY <1>1 DEF Inside
  <2>2. 1 \in Nat /\ 1 <= 3 + Len(o.frame)
    BY <1>4
  <2> QED
    BY <1>5, <2>1, <2>2 DEF InStep, Placed
<1>8. rx.state # "LENGTH_LSB"
  <2>1. Inside(2) => End = o.at + 2
    BY <1>1 DEF Inside
  <2>2. 2 \in Nat /\ 2 <= 3 + Len(o.frame)
    BY <1>4
  <2> QED
    BY <1>5, <2>1, <2>2 DEF InStep, Placed
<1>9. rx.state # "RXFRAME"
  <2>1. SUFFICES ASSUME rx.state = "RXFRAME" PROVE FALSE
    OBVIOUS
  <2>2. Inside(3 + Len(rx.frame_data)) /\ rx.bytes_in_frame = Len(o.frame)
    BY <2>1 DEF InStep, Placed
  <2>3. End = o.at + (3 + Len(rx.frame_data))
    BY <1>1, <2>2 DEF Inside
  <2>4. Len(rx.frame_data) \in Nat /\ Len(rx.frame_data) <= Len(o.frame)
    BY <2>1, <2>2, LenProperties DEF RxInv, RxType, FrameFits
  <2>5. 3 + Len(rx.frame_data) \in Nat /\ 3 + Len(rx.frame_data) <= 3 + Len(o.frame)
    BY <1>4, <2>4
  <2> QED
    BY <1>5, <2>3, <2>5
<1> QED
  BY <1>6, <1>7, <1>8, <1>9 DEF RxInv, RxType

\* On a line that damages nothing, whatever the payloads and however their bytes are
\* spread over ticks, buffers and handlers, the frames of the module are dispatched once
\* each and in order, and at rest none is left: a payload that holds a start marker
\* never takes the receiver (_xbee_frame_load) out of step.
THEOREM InOrderHolds == Spec => []InOrder
<1>1. IInv /\ Followed /\ [Next]_vars => Followed'
  BY FollowedStep
<1>2. IInv /\ Followed => InOrder
  <2> SUFFICES ASSUME IInv, Followed, damage = 0
               PROVE  /\ Len(log) <= Len(origin)
                      /\ \A i \in 1 .. Len(log) : log[i] = origin[i]
                      /\ Quiet => Len(log) = Len(origin)
    BY DEF InOrder
  <2>1. LineType /\ RxInv /\ InStep
    BY DEF IInv, Followed
  <2> QED
    BY <2>1, NothingLeft DEF InStep, Logged
<1> QED
  BY Invariant, FollowedStart, <1>1, <1>2, PTL DEF Spec

-----------------------------------------------------------------------------
(* A bad line: the receiver finds the module again *)

\* Where the line may damage a byte, no byte of a frame but its first and its last one
\* can be taken for a start marker.
Unmistakable ==
    \A u \in Uses : u.faults > 0 =>
        \A p \in u.payloads : \A j \in 2 .. Len(p) + 3 : Framed(p)[j] # Start

Elements(s) == {s[i] : i \in 1 .. Len(s)}
Frame(q, p) == [at |-> q, frame |-> p]

\* A frame with the payload p begins at the place q: what has not been read of it is as
\* the module framed it, and no other frame begins inside of it.
Whole(q, p) ==
    /\ p \in use.payloads /\ q + Len(p) + 4 <= End
    /\ \A o \in Elements(origin) :
          o.at >= q => o = Frame(q, p) \/ o.at >= q + Len(p) + 4
    /\ \A j \in 1 .. Len(p) + 4 :
          q + j - 1 >= Place => ByteAt(q + j - 1) = Framed(p)[j]

\* A byte that the line adds in front of a frame moves the frame by one place.
Genuine(q, p) == Whole(q, p) /\ (q > damage + 1 => Frame(q, p) \in Elements(origin))

\* A start marker at q is the last byte of a frame: another one begins behind it.
Ends(q) == q + 1 = End \/ \E p \in use.payloads : Genuine(q + 1, p)

Lined ==
    /\ count \in Nat /\ Len(rxbuf) <= count /\ damage \in Nat /\ begun \in Nat
    /\ origin \in Seq([at : Nat, frame : use.payloads])
    /\ \A o \in Elements(origin) : o.at <= count + 1
    /\ log \in Seq([at : Nat, frame : Seq(Byte)])
    /\ \A f \in Elements(log) : f.at < Place
    /\ \/ \A m \in 1 .. Len(sending) - 1 : sending[m] # Start
       \/ \E p \in use.payloads : sending = Framed(p)

\* Behind the damage every start marker that has not been read begins a frame, or ends one.
Marked ==
    \A q \in Int : q > damage /\ q >= Place /\ q < End /\ ByteAt(q) = Start =>
        (\E p \in use.payloads : Genuine(q, p)) \/ Ends(q)
Standing == \A o \in Elements(origin) : o.at > damage => Whole(o.at, o.frame)

\* What the receiver follows began before the damage, or it is a frame, or a last byte.
Follows(p) ==
    /\ Genuine(begun, p)
    /\ rx.state = "LENGTH_LSB" => rx.bytes_in_frame = (Len(p) \div Base) * Base
    /\ rx.state = "RXFRAME" => /\ rx.bytes_in_frame = Len(p)
                               /\ \A m \in 1 .. Len(rx.frame_data) : rx.frame_data[m] = p[m]
Following ==
    /\ rx.state = "LENGTH_MSB" => Place = begun + 1
    /\ rx.state = "LENGTH_LSB" => Place = begun + 2
    /\ rx.state = "RXFRAME" => Place = begun + 3 + Len(rx.frame_data)
    /\ rx.state # "WAITSTART" /\ begun > damage =>
          \/ \E p \in use.payloads : Follows(p)
          \/ rx.state = "LENGTH_MSB" /\ Ends(begun)

\* Behind the reach of the damage what was dispatched is what the module sent.
From == IF rx.state = "WAITSTART" THEN Place ELSE begun
Found ==
    /\ \A f \in Elements(log) : f.at > damage + Reach => f \in Elements(origin)
    /\ \A o \in Elements(origin) : o.at > damage + Reach /\ o.at < From => o \in Elements(log)

Recovers == Lined /\ Marked /\ Standing /\ Following /\ Found

LEMMA ElementsIn ==
    ASSUME NEW S, NEW s \in Seq(S)
    PROVE  \A e \in Elements(s) : e \in S
<1> QED
  BY ElementOfSeq DEF Elements

LEMMA ElementsAppend ==
    ASSUME NEW S, NEW s \in Seq(S), NEW e \in S
    PROVE  Elements(Append(s, e)) = Elements(s) \cup {e} /\ Append(s, e) \in Seq(S)
<1> DEFINE a == Append(s, e)
<1>1. /\ a \in Seq(S) /\ Len(a) = Len(s) + 1 /\ Len(s) \in Nat
      /\ \A i \in 1 .. Len(s) : a[i] = s[i]
      /\ a[Len(s) + 1] = e
  BY AppendProperties, LenProperties
<1> HIDE DEF a
<1>2. 1 .. Len(a) = 1 .. Len(s) \cup {Len(s) + 1}
  BY <1>1
<1>3. Elements(a) = Elements(s) \cup {e}
  BY <1>1, <1>2 DEF Elements
<1> QED
  BY <1>1, <1>3 DEF a

LEMMA LinedFacts ==
    ASSUME LineType, Lined
    PROVE  /\ rxbuf \in Seq(Byte) /\ sending \in Seq(Byte) /\ use \in Uses
           /\ Len(rxbuf) \in Nat /\ Len(sending) \in Nat /\ count \in Nat /\ damage \in Nat
           /\ begun \in Nat /\ Place \in Nat /\ End \in Nat /\ Len(rxbuf) <= count
           /\ Place = count + 1 - Len(rxbuf) /\ End = count + 1 + Len(sending)
           /\ Place <= count + 1 /\ count + 1 <= End
           /\ \A o \in Elements(origin) :
                 /\ o = Frame(o.at, o.frame) /\ o.at \in Nat /\ o.frame \in use.payloads
                 /\ o.at <= count + 1
           /\ \A f \in Elements(log) : f.at \in Nat /\ f.at < Place
<1>1. /\ rxbuf \in Seq(Byte) /\ sending \in Seq(Byte) /\ use \in Uses
      /\ Len(rxbuf) \in Nat /\ Len(sending) \in Nat
  BY LenProperties DEF LineType
<1>2. ASSUME NEW o \in Elements(origin)
      PROVE  o = Frame(o.at, o.frame) /\ o.at \in Nat /\ o.frame \in use.payloads
             /\ o.at <= count + 1
  <2>1. o \in [at : Nat, frame : use.payloads]
    BY ElementsIn DEF Lined
  <2> QED
    BY <2>1 DEF Frame, Lined
<1>3. ASSUME NEW f \in Elements(log) PROVE f.at \in Nat /\ f.at < Place
  <2>1. f \in [at : Nat, frame : Seq(Byte)]
    BY ElementsIn DEF Lined
  <2> QED
    BY <2>1 DEF Lined
<1> QED
  BY <1>1, <1>2, <1>3 DEF Lined, Place, End

\* What lies ahead of the receiver stays what it is.
Ahead ==
    /\ UNCHANGED <<use, origin, damage>> /\ End' = End /\ Place' \in Nat /\ Place' >= Place
    /\ \A r \in Int : r >= Place' /\ r < End => ByteAt(r)' = ByteAt(r)

LEMMA WholeAhead ==
    ASSUME LineType, Lined, Ahead, NEW q \in Int, NEW p, Whole(q, p)
    PROVE  Whole(q, p)'
<1>1. Len(p) \in Nat /\ Place \in Nat /\ End \in Nat
  BY LinedFacts, FramedIs DEF Whole
<1>2. ASSUME NEW j \in 1 .. Len(p) + 4, q + j - 1 >= Place'
      PROVE  ByteAt(q + j - 1)' = Framed(p)[j]
  <2> PICK r : r = q + j - 1
    OBVIOUS
  <2>1. r \in Int /\ r >= Place' /\ r < End /\ r >= Place
    BY <1>1, <1>2 DEF Whole, Ahead
  <2>2. ByteAt(r) = Framed(p)[j]
    BY <2>1 DEF Whole
  <2>3. ByteAt(r)' = ByteAt(r)
    BY <2>1 DEF Ahead
  <2> QED
    BY <2>2, <2>3 DEF ByteAt
<1>3. p \in use'.payloads /\ q + Len(p) + 4 <= End' /\ origin' = origin
  BY DEF Ahead, Whole
<1> QED
  BY <1>2, <1>3 DEF Whole

LEMMA GenuineAhead ==
    ASSUME LineType, Lined, Ahead, NEW q \in Int, NEW p, Genuine(q, p)
    PROVE  Genuine(q, p)'
<1>1. Whole(q, p)'
  BY WholeAhead DEF Genuine
<1>2. damage' = damage /\ origin' = origin
  BY DEF Ahead
<1> QED
  BY <1>1, <1>2 DEF Genuine

LEMMA EndsAhead ==
    ASSUME LineType, Lined, Ahead, NEW q \in Int, Ends(q)
    PROVE  Ends(q)'
<1>1. CASE q + 1 = End
  BY <1>1 DEF Ends, Ahead
<1>2. ASSUME NEW p \in use.payloads, Genuine(q + 1, p) PROVE Ends(q)'
  <2> PICK r : r = q + 1
    OBVIOUS
  <2>1. Genuine(r, p)'
    BY <1>2, GenuineAhead
  <2>2. Genuine(q + 1, p)' /\ p \in use'.payloads
    BY <2>1 DEF Ahead
  <2> QED
    BY <2>2 DEF Ends
<1> QED
  BY <1>1, <1>2 DEF Ends

LEMMA MarkedAhead ==
    ASSUME LineType, Lined, Ahead, Marked, Standing
    PROVE  Marked' /\ Standing'
<1>1. UNCHANGED <<use, origin, damage>> /\ End' = End /\ Place' >= Place /\ Place' \in Nat
  BY DEF Ahead
<1>2. ASSUME NEW q \in Int, q > damage', q >= Place', q < End', ByteAt(q)' = Start
      PROVE  ((\E p \in use.payloads : Genuine(q, p)) \/ Ends(q))'
  <2>1. q > damage /\ q >= Place /\ q < End
    BY <1>1, <1>2, LinedFacts
  <2>2. ByteAt(q) = Start
    BY <1>1, <1>2, <2>1 DEF Ahead
  <2>3. CASE Ends(q)
    BY <2>3, EndsAhead
  <2>4. ASSUME NEW p \in use.payloads, Genuine(q, p)
        PROVE  \E r \in use'.payloads : Genuine(q, r)'
    BY <1>1, <2>4, GenuineAhead
  <2> QED
    BY <2>1, <2>2, <2>3, <2>4 DEF Marked
<1>3. ASSUME NEW o \in Elements(origin'), o.at > damage'
      PROVE  Whole(o.at, o.frame)'
  <2>1. o \in Elements(origin) /\ o.at > damage
    BY <1>1, <1>3
  <2>2. Whole(o.at, o.frame) /\ o.at \in Int
    BY <2>1, LinedFacts DEF Standing
  <2> QED
    BY <2>2, WholeAhead
<1>4. Marked'
  BY <1>2 DEF Marked
<1>5. Standing'
  BY <1>3 DEF Standing, Elements
<1> QED
  BY <1>4, <1>5

\* Bytes are read.
LEMMA ReadsAhead ==
    ASSUME LineType, Lined, NEW n \in Nat, Reads(n)
    PROVE  /\ Ahead /\ Place' = Place + n /\ UNCHANGED <<count, sending>>
           /\ n <= Len(rxbuf) /\ Len(rxbuf') <= count' /\ Place + n <= End
<1>1. /\ rxbuf \in Seq(Byte) /\ Len(rxbuf) \in Nat /\ n <= Len(rxbuf) /\ count \in Nat
      /\ Len(rxbuf) <= count /\ Place = count + 1 - Len(rxbuf) /\ End = count + 1 + Len(sending)
      /\ Len(sending) \in Nat /\ Place \in Nat
  BY LinedFacts DEF Reads
<1>2. UNCHANGED <<use, origin, damage, count, sending>>
  BY DEF Reads, lineVars
<1>3. /\ Len(rxbuf') = Len(rxbuf) - n
      /\ \A m \in 1 .. Len(rxbuf) - n : rxbuf'[m] = rxbuf[n + m]
  <2>1. rxbuf' = SubSeq(rxbuf, n + 1, Len(rxbuf))
    BY DEF Reads
  <2> QED
    BY <1>1, <2>1, SubSeqProperties
<1>4. Place' = Place + n /\ End' = End
  BY <1>1, <1>2, <1>3 DEF Place, End
<1>5. ASSUME NEW q \in Int, q >= Place', q < End
      PROVE  ByteAt(q)' = ByteAt(q)
  <2>1. CASE q <= count
    <3> DEFINE m == q - (count - Len(rxbuf'))
    <3>1. count - Len(rxbuf') < q
      BY <1>1, <1>3, <1>4, <1>5
    <3>2. m \in 1 .. Len(rxbuf) - n /\ n + m = q - (count - Len(rxbuf))
      BY <1>1, <1>3, <2>1, <3>1, PlaceInBuffer
    <3>3. rxbuf'[m] = rxbuf[n + m]
      BY <1>3, <3>2
    <3> QED
      BY <1>2, <2>1, <3>2, <3>3 DEF ByteAt
  <2>2. CASE ~(q <= count)
    BY <1>2, <2>2 DEF ByteAt
  <2> QED
    BY <2>1, <2>2
<1> QED
  BY <1>1, <1>2, <1>3, <1>4, <1>5 DEF Ahead

\* Where the bytes in the receive buffer come from.
LEMMA BufferAt ==
    ASSUME LineType, Lined, NEW m \in 1 .. Len(rxbuf)
    PROVE  ByteAt(Place + m - 1) = rxbuf[m] /\ Place + m - 1 < End
<1> PICK q : q = Place + m - 1
  OBVIOUS
<1>1. /\ Place = count + 1 - Len(rxbuf) /\ Len(rxbuf) \in Nat /\ count \in Nat
      /\ End = count + 1 + Len(sending) /\ Len(sending) \in Nat
  BY LinedFacts
<1>2. q <= count /\ q - (count - Len(rxbuf)) = m /\ q < End
  BY <1>1
<1> QED
  BY <1>2 DEF ByteAt

LEMMA HeadAt ==
    ASSUME LineType, Lined, Len(rxbuf) >= 1
    PROVE  Head(rxbuf) = ByteAt(Place) /\ Place < End
<1>1. 1 \in 1 .. Len(rxbuf) /\ Head(rxbuf) = rxbuf[1] /\ Place + 1 - 1 = Place
  BY LinedFacts, HeadTailProperties
<1> QED
  BY <1>1, BufferAt

LEMMA HeadOf ==
    ASSUME LineType, Lined, Len(rxbuf) >= 1, NEW q \in Int, NEW p, Whole(q, p),
           NEW j \in 1 .. Len(p) + 4, q + j - 1 = Place
    PROVE  Head(rxbuf) = Framed(p)[j]
<1>1. ByteAt(q + j - 1) = Framed(p)[j]
  BY LinedFacts DEF Whole
<1> QED
  BY <1>1, HeadAt

\* Only a frame that begins at the place of a start marker is behind it.
LEMMA FrameAt ==
    ASSUME LineType, Lined, NEW q \in Int, NEW p, Whole(q, p)
    PROVE  /\ p \in use.payloads /\ use \in Uses /\ Len(p) \in 2 .. MaxLen /\ Len(p) \in Nat
           /\ 1 \in 1 .. Len(p) + 4 /\ 2 \in 1 .. Len(p) + 4 /\ 3 \in 1 .. Len(p) + 4
           /\ Framed(p)[1] = Start /\ Framed(p)[2] = Len(p) \div Base
           /\ Framed(p)[3] = Len(p) % Base
           /\ Framed(p)[2] # Start
<1>1. p \in use.payloads /\ use \in Uses
  BY LinedFacts DEF Whole
<1>2. /\ Len(p) \in 2 .. MaxLen /\ Len(p) \in Nat
      /\ Framed(p)[1] = Start /\ Framed(p)[2] = Len(p) \div Base
      /\ Framed(p)[3] = Len(p) % Base
  BY <1>1, FramedIs
<1>3. Len(p) \div Base # Start
  BY <1>2, NoStart
<1> QED
  BY <1>1, <1>2, <1>3

LEMMA LinedReads ==
    ASSUME LineType, Lined, NEW n \in Nat, Reads(n), begun' \in {begun, Place},
           log' \in Seq([at : Nat, frame : Seq(Byte)]),
           \A f \in Elements(log') : f.at < Place + n
    PROVE  Lined'
<1>1. /\ Ahead /\ Place' = Place + n /\ UNCHANGED <<count, sending>> /\ Len(rxbuf') <= count'
  BY ReadsAhead
<1>2. UNCHANGED <<use, origin, damage>>
  BY <1>1 DEF Ahead
<1>3. begun' \in Nat
  BY LinedFacts
<1>4. Elements(origin') = Elements(origin) /\ Elements(log') = Elements(log)'
  BY <1>2 DEF Elements
<1>5. \A f \in Elements(log)' : f.at < Place'
  BY <1>1, <1>4
<1> QED
  BY <1>1, <1>2, <1>3, <1>4, <1>5 DEF Lined, Elements

\* Nothing is dispatched.
LEMMA LinedLoads ==
    ASSUME LineType, Lined, NEW n \in Nat, Reads(n), begun' \in {begun, Place}, log' = log
    PROVE  Lined'
<1>1. \A f \in Elements(log) : f.at < Place + n
  BY LinedFacts
<1>2. \A f \in Elements(log') : f.at < Place + n
  BY <1>1
<1> QED
  BY <1>2, LinedReads DEF Lined

LEMMA FoundKept ==
    ASSUME Found, UNCHANGED <<origin, log, damage>>,
           \A o \in Elements(origin) : o.at > damage + Reach /\ o.at < From' => o.at < From
    PROVE  Found'
<1>1. Elements(origin)' = Elements(origin) /\ Elements(log)' = Elements(log)
  BY DEF Elements
<1> QED
  BY <1>1 DEF Found, Reach

\* A start marker is read: the receiver follows it.
LEMMA MarkerFound ==
    ASSUME LineType, Lined, Marked, Reads(1), Head(rxbuf) = Start, begun' = Place,
           rx'.state = "LENGTH_MSB"
    PROVE  Following'
<1>1. Ahead /\ Place' = Place + 1 /\ Place < End /\ ByteAt(Place) = Start
      /\ Place \in Nat /\ damage' = damage /\ use' = use
  BY ReadsAhead, HeadAt, LinedFacts DEF Reads, Ahead
<1> PICK q : q = Place
  OBVIOUS
<1>2. q \in Nat /\ begun' = q
  BY <1>1
<1>3. q > damage => (\E p \in use.payloads : Genuine(q, p)) \/ Ends(q)
  BY <1>1 DEF Marked
<1>4. ASSUME NEW p \in use.payloads, Genuine(q, p)
      PROVE  Follows(p)'
  <2>1. Genuine(q, p)'
    BY <1>1, <1>2, <1>4, GenuineAhead
  <2>2. Genuine(begun, p)'
    BY <1>2, <2>1 DEF Genuine, Whole
  <2> QED
    BY <2>2 DEF Follows
<1>5. Ends(q) => Ends(begun)'
  <2>1. Ends(q) => Ends(q)'
    BY <1>1, <1>2, EndsAhead
  <2> QED
    BY <1>2, <2>1 DEF Ends
<1>6. begun' > damage' =>
          \/ \E p \in use'.payloads : Follows(p)'
          \/ rx'.state = "LENGTH_MSB" /\ Ends(begun)'
  BY <1>1, <1>2, <1>3, <1>4, <1>5
<1> QED
  BY <1>1, <1>6 DEF Following

LEMMA StartRecovers ==
    ASSUME LineType, RxInv, Recovers, LoadStart
    PROVE  Recovers'
<1>1. /\ Reads(1) /\ rx.state = "WAITSTART" /\ log' = log
      /\ Len(rxbuf) >= 1 /\ begun' \in {begun, Place}
  BY DEF LoadStart, Loading, Reads
<1>2. Ahead /\ Place' = Place + 1 /\ Marked' /\ Standing' /\ Lined'
  BY <1>1, ReadsAhead, MarkedAhead, LinedLoads DEF Recovers
<1>3. CASE Head(rxbuf) = Start
  <2>1. begun' = Place /\ rx'.state = "LENGTH_MSB"
    BY <1>3 DEF LoadStart, RxInv, RxType
  <2>2. Following'
    BY <1>1, <1>3, <2>1, MarkerFound DEF Recovers
  <2>3. From' = From
    BY <1>1, <2>1 DEF From
  <2>4. Found'
    BY <1>1, <1>2, <2>3, FoundKept DEF Recovers, Ahead
  <2> QED
    BY <1>2, <2>2, <2>4 DEF Recovers
<1>4. CASE Head(rxbuf) # Start
  <2>1. rx' = rx
    BY <1>4 DEF LoadStart
  <2>2. Following'
    BY <1>1, <2>1 DEF Following
  <2>3. From' = Place + 1 /\ From = Place
    BY <1>1, <1>2, <2>1 DEF From
  <2>4. ASSUME NEW o \in Elements(origin), o.at > damage + Reach, o.at < From' PROVE o.at < From
    <3>1. o.at \in Nat /\ Place \in Nat /\ damage \in Nat /\ Reach \in Nat
      BY LinedFacts, LinkAssumption DEF Recovers, Reach
    <3>2. SUFFICES ASSUME o.at = Place PROVE FALSE
      BY <2>3, <2>4, <3>1
    <3>3. Whole(o.at, o.frame)
      BY <2>4, <3>1 DEF Recovers, Standing
    <3>4. o.at + 1 - 1 = Place
      BY <3>1, <3>2
    <3>5. Head(rxbuf) = Framed(o.frame)[1]
      BY <1>1, <3>1, <3>3, <3>4, FrameAt, HeadOf DEF Recovers
    <3> QED
      BY <1>4, <3>1, <3>3, <3>5, FrameAt DEF Recovers
  <2>5. Found'
    BY <1>1, <1>2, <2>4, FoundKept DEF Recovers, Ahead
  <2> QED
    BY <1>2, <2>2, <2>5 DEF Recovers
<1> QED
  BY <1>3, <1>4

\* A frame behind the damage that begins right before the place is not in front of a marker.
LEMMA MsbRecovers ==
    ASSUME LineType, RxInv, Recovers, LoadMsb
    PROVE  Recovers'
<1>1. /\ Reads(1) /\ rx.state = "LENGTH_MSB" /\ log' = log
      /\ Len(rxbuf) >= 1 /\ begun' \in {begun, Place}
  BY DEF LoadMsb, Loading, Reads
<1>2. Ahead /\ Place' = Place + 1 /\ Marked' /\ Standing' /\ Lined'
  BY <1>1, ReadsAhead, MarkedAhead, LinedLoads DEF Recovers
<1>3. /\ Place = begun + 1 /\ From = begun /\ begun \in Nat /\ Place \in Nat /\ damage \in Nat
      /\ Reach \in Nat /\ use \in Uses
  BY <1>1, LinedFacts, LinkAssumption DEF Recovers, Following, From, Reach
<1>4. CASE Head(rxbuf) = Start
  <2>1. begun' = Place /\ rx' = rx /\ rx'.state = "LENGTH_MSB"
    BY <1>1, <1>4 DEF LoadMsb
  <2>2. Following'
    BY <1>1, <1>4, <2>1, MarkerFound DEF Recovers
  <2>3. From' = Place
    BY <2>1 DEF From
  <2>4. ASSUME NEW o \in Elements(origin), o.at > damage + Reach, o.at < From' PROVE o.at < From
    <3>1. o.at \in Nat
      BY LinedFacts DEF Recovers
    <3>2. SUFFICES ASSUME o.at = begun PROVE FALSE
      BY <1>3, <2>3, <2>4, <3>1
    <3>3. Whole(o.at, o.frame)
      BY <1>3, <2>4, <3>1 DEF Recovers, Standing
    <3>4. o.at + 2 - 1 = Place
      BY <1>3, <3>1, <3>2
    <3>5. Head(rxbuf) = Framed(o.frame)[2]
      BY <1>1, <3>1, <3>3, <3>4, FrameAt, HeadOf DEF Recovers
    <3> QED
      BY <1>4, <3>1, <3>3, <3>5, FrameAt DEF Recovers
  <2>5. Found'
    BY <1>1, <1>2, <2>4, FoundKept DEF Recovers, Ahead
  <2> QED
    BY <1>2, <2>2, <2>5 DEF Recovers
<1>5. CASE Head(rxbuf) # Start
  <2>1. /\ rx'.state = "LENGTH_LSB" /\ rx'.bytes_in_frame = Head(rxbuf) * Base
        /\ begun' = begun
    BY <1>5 DEF LoadMsb, RxInv, RxType
  <2>2. From' = From
    BY <1>1, <2>1 DEF From
  <2>3. Found'
    BY <1>1, <1>2, <2>2, FoundKept DEF Recovers, Ahead
  <2>4. Place' = begun' + 2
    BY <1>2, <1>3, <2>1
  <2>5. ~ Ends(begun)
    <3>1. begun + 1 # End
      BY <1>1, <1>3, HeadAt DEF Recovers
    <3>2. ASSUME NEW p \in use.payloads, Genuine(begun + 1, p) PROVE FALSE
      <4>1. Whole(Place, p)
        BY <1>3, <3>2 DEF Genuine
      <4>2. Place + 1 - 1 = Place
        BY <1>3
      <4>3. Head(rxbuf) = Framed(p)[1]
        BY <1>1, <1>3, <4>1, <4>2, FrameAt, HeadOf DEF Recovers
      <4> QED
        BY <1>3, <1>5, <4>1, <4>3, FrameAt DEF Recovers
    <3> QED
      BY <3>1, <3>2 DEF Ends
  <2>6. ASSUME NEW p \in use.payloads, Follows(p) PROVE p \in use'.payloads /\ Follows(p)'
    <3>1. Genuine(begun, p) /\ Whole(begun, p)
      BY <2>6 DEF Follows, Genuine
    <3>2. begun + 2 - 1 = Place
      BY <1>3
    <3>3. Head(rxbuf) = Len(p) \div Base
      BY <1>1, <1>3, <3>1, <3>2, FrameAt, HeadOf DEF Recovers
    <3> PICK q : q = begun
      OBVIOUS
    <3>4. /\ LineType /\ Lined /\ Ahead
          /\ q \in Int /\ Genuine(q, p) /\ begun' = q
      BY <1>2, <1>3, <2>1, <3>1 DEF Recovers
    <3>5. Genuine(q, p)'
      BY <3>4, GenuineAhead, Zenon
    <3>6. Genuine(begun, p)'
      BY <3>4, <3>5 DEF Genuine, Whole
    <3> QED
      BY <1>2, <2>1, <3>3, <3>6 DEF Follows, Ahead
  <2>7. begun' > damage' => \E p \in use'.payloads : Follows(p)'
    <3>1. damage' = damage
      BY <1>2 DEF Ahead
    <3>2. begun > damage => \E p \in use.payloads : Follows(p)
      BY <1>1, <2>5 DEF Recovers, Following
    <3> QED
      BY <2>1, <2>6, <3>1, <3>2
  <2>8. Following'
    BY <2>1, <2>4, <2>7 DEF Following
  <2> QED
    BY <1>2, <2>3, <2>8 DEF Recovers
<1> QED
  BY <1>4, <1>5

LEMMA LsbRecovers ==
    ASSUME LineType, RxInv, Recovers, LoadLsb
    PROVE  Recovers'
<1> DEFINE length == rx.bytes_in_frame + Head(rxbuf)
<1>1. /\ Reads(1) /\ rx.state = "LENGTH_LSB" /\ log' = log
      /\ Len(rxbuf) >= 1 /\ begun' \in {begun, Place}
  BY DEF LoadLsb, Loading, Reads
<1>2. Ahead /\ Place' = Place + 1 /\ Marked' /\ Standing' /\ Lined' /\ damage' = damage
  BY <1>1, ReadsAhead, MarkedAhead, LinedLoads DEF Recovers, Ahead
<1>3. /\ Place = begun + 2 /\ From = begun /\ begun \in Nat /\ Place \in Nat /\ damage \in Nat
      /\ MaxLen \in Nat /\ MaxLen >= 2 /\ Reach = MaxLen + 3 /\ use \in Uses
  <2>1. MaxLen \in Nat /\ MaxLen >= 2
    <3>1. Base * (Base - 1) \in Int
      BY LinkAssumption, SMT
    <3> QED
      BY <3>1, LinkAssumption
  <2> QED
    BY <1>1, <2>1, LinedFacts DEF Recovers, Following, From, Reach
<1>4. ASSUME NEW p \in use.payloads, Follows(p)
      PROVE  /\ length = Len(p) /\ Len(p) \in 2 .. MaxLen
             /\ p \in use'.payloads /\ (begun' = begun => Genuine(begun, p)')
  <2>1. Genuine(begun, p) /\ Whole(begun, p) /\ rx.bytes_in_frame = (Len(p) \div Base) * Base
    BY <1>1, <1>4 DEF Follows, Genuine
  <2>2. begun + 3 - 1 = Place
    BY <1>3
  <2>3. Head(rxbuf) = Len(p) % Base
    BY <1>1, <1>3, <2>1, <2>2, FrameAt, HeadOf DEF Recovers
  <2>4. (Len(p) \div Base) * Base + (Len(p) % Base) = Len(p) /\ Len(p) \in 2 .. MaxLen
    BY <1>3, <2>1, FrameAt, NoStart DEF Recovers
  <2> PICK q : q = begun
    OBVIOUS
  <2>5. Genuine(q, p)'
    BY <1>2, <1>3, <2>1, GenuineAhead DEF Recovers
  <2>6. begun' = begun => Genuine(begun, p)'
    BY <2>5 DEF Genuine, Whole
  <2> QED
    BY <1>2, <2>1, <2>3, <2>4, <2>6 DEF Ahead
<1>5. begun > damage => \E p \in use.payloads : Follows(p)
  BY <1>1 DEF Recovers, Following
<1> HIDE DEF length
<1>6. CASE length \in 2 .. MaxLen
  <2>1. /\ rx' = [state |-> "RXFRAME", bytes_in_frame |-> length, frame_data |-> <<>>]
        /\ begun' = begun
    BY <1>6 DEF LoadLsb, length
  <2>2. /\ rx'.state = "RXFRAME" /\ rx'.bytes_in_frame = length /\ rx'.frame_data = <<>>
        /\ Len(rx'.frame_data) = 0
    BY <2>1
  <2>3. From' = From
    BY <1>1, <2>1, <2>2 DEF From
  <2>4. Found'
    BY <1>1, <1>2, <2>3, FoundKept DEF Recovers, Ahead
  <2>5. Place' = begun' + 3 + Len(rx'.frame_data)
    BY <1>2, <1>3, <2>1, <2>2
  <2>6. ASSUME NEW p \in use.payloads, Follows(p) PROVE p \in use'.payloads /\ Follows(p)'
    BY <1>4, <2>1, <2>2, <2>6 DEF Follows
  <2>7. Following'
    BY <1>2, <1>5, <2>1, <2>2, <2>5, <2>6 DEF Following
  <2> QED
    BY <1>2, <2>4, <2>7 DEF Recovers
<1>7. CASE length \notin 2 .. MaxLen
  <2>1. begun <= damage
    BY <1>3, <1>4, <1>5, <1>7
  <2>2. CASE Head(rxbuf) = Start
    <3>1. rx'.state = "LENGTH_MSB" /\ begun' = Place
      BY <1>7, <2>2 DEF LoadLsb, length
    <3>2. Following'
      BY <1>1, <2>2, <3>1, MarkerFound DEF Recovers
    <3>3. From' = Place
      BY <3>1 DEF From
    <3>4. ASSUME NEW o \in Elements(origin), o.at > damage + Reach, o.at < From' PROVE o.at < From
      <4>1. o.at \in Nat
        BY LinedFacts DEF Recovers
      <4> QED
        BY <1>3, <2>1, <3>3, <3>4, <4>1
    <3>5. Found'
      BY <1>1, <1>2, <3>4, FoundKept DEF Recovers, Ahead
    <3> QED
      BY <1>2, <3>2, <3>5 DEF Recovers
  <2>3. CASE Head(rxbuf) # Start
    <3>1. rx'.state = "WAITSTART" /\ begun' = begun
      BY <1>7, <2>3 DEF LoadLsb, length
    <3>2. Following'
      BY <3>1 DEF Following
    <3>3. From' = Place + 1
      BY <1>2, <3>1 DEF From
    <3>4. ASSUME NEW o \in Elements(origin), o.at > damage + Reach, o.at < From' PROVE o.at < From
      <4>1. o.at \in Nat
        BY LinedFacts DEF Recovers
      <4> QED
        BY <1>3, <2>1, <3>3, <3>4, <4>1
    <3>5. Found'
      BY <1>1, <1>2, <3>4, FoundKept DEF Recovers, Ahead
    <3> QED
      BY <1>2, <3>2, <3>5 DEF Recovers
  <2> QED
    BY <2>2, <2>3
<1> QED
  BY <1>6, <1>7

\* The first bytes of a buffer behind what has been received of a frame.
LEMMA BytesJoined ==
    ASSUME NEW d \in Seq(Byte), NEW r \in Seq(Byte), NEW n \in 0 .. Len(r)
    PROVE  LET f == d \o SubSeq(r, 1, n)
           IN  /\ f \in Seq(Byte) /\ Len(f) = Len(d) + n /\ Len(d) \in Nat
               /\ \A m \in 1 .. Len(d) : f[m] = d[m]
               /\ \A m \in 1 .. n : f[Len(d) + m] = r[m]
<1> DEFINE b == SubSeq(r, 1, n)
<1>1. Len(r) \in Nat /\ Len(d) \in Nat
  BY LenProperties
<1>2. b \in Seq(Byte) /\ Len(b) = n /\ \A m \in 1 .. n : b[m] = r[m]
  <2>1. \A m \in 1 .. n : r[m] \in Byte
    BY <1>1, ElementOfSeq
  <2>2. /\ b \in Seq(Byte) /\ Len(b) = IF 1 <= n THEN n - 1 + 1 ELSE 0
        /\ \A m \in 1 .. n - 1 + 1 : b[m] = r[1 + m - 1]
    BY <1>1, <2>1, SubSeqProperties
  <2> HIDE DEF b
  <2>3. Len(b) = n
    BY <1>1, <2>2
  <2>4. ASSUME NEW m \in 1 .. n PROVE b[m] = r[m]
    <3>1. m \in 1 .. n - 1 + 1 /\ 1 + m - 1 = m
      BY <1>1
    <3> QED
      BY <2>2, <3>1
  <2> QED
    BY <2>2, <2>3, <2>4
<1> DEFINE f == d \o b
<1>3. /\ f \in Seq(Byte) /\ Len(f) = Len(d) + Len(b) /\ \A m \in 1 .. Len(d) : f[m] = d[m]
      /\ \A m \in 1 .. Len(b) : f[Len(d) + m] = b[m]
  <2>1. b \in Seq(Byte)
    BY <1>2
  <2> HIDE DEF b
  <2> QED
    BY <2>1, ConcatAt
<1> HIDE DEF f, b
<1> QED
  BY <1>1, <1>2, <1>3 DEF f, b

\* When they are bytes of the frame, the frame is received so far.
LEMMA BytesReceived ==
    ASSUME NEW u \in Uses, NEW p \in u.payloads, NEW d \in Seq(Byte), NEW r \in Seq(Byte),
           NEW n \in 0 .. Len(r), Len(d) <= Len(p),
           \A m \in 1 .. Len(d) : d[m] = p[m],
           \A m \in 1 .. n : 3 + Len(d) + m <= Len(p) + 4 => r[m] = Framed(p)[3 + Len(d) + m]
    PROVE  LET f == d \o SubSeq(r, 1, n)
           IN  /\ Len(d) + n <= Len(p) => \A m \in 1 .. Len(f) : f[m] = p[m]
               /\ Len(d) + n = Len(p) + 1 => f = Append(p, Checksum(p))
<1> DEFINE f == d \o SubSeq(r, 1, n)
<1>1. /\ f \in Seq(Byte) /\ Len(f) = Len(d) + n /\ Len(d) \in Nat
      /\ \A m \in 1 .. Len(d) : f[m] = d[m]
      /\ \A m \in 1 .. n : f[Len(d) + m] = r[m]
  BY BytesJoined
<1> HIDE DEF f
<1>2. n \in Nat
  BY LenProperties
<1>3. /\ p \in Seq(Byte) /\ Len(p) \in Nat /\ \A m \in 1 .. Len(p) : Framed(p)[3 + m] = p[m]
      /\ Framed(p)[Len(p) + 4] = Checksum(p)
  BY FramedIs
<1>4. ASSUME NEW m \in 1 .. Len(f), m <= Len(p) + 1
      PROVE  f[m] = Framed(p)[3 + m]
  <2>1. CASE m <= Len(d)
    BY <1>1, <1>3, <2>1
  <2>2. CASE m > Len(d)
    <3>1. m - Len(d) \in 1 .. n /\ Len(d) + (m - Len(d)) = m /\ 3 + Len(d) + (m - Len(d)) = 3 + m
      <4>1. m \in 1 .. Len(d) + n /\ n \in Int /\ Len(d) \in Int
        BY <1>1, <1>2
      <4> QED
        BY <2>2, <4>1, Behind
    <3>2. 3 + m <= Len(p) + 4
      BY <1>3, <1>4
    <3> QED
      BY <1>1, <3>1, <3>2
  <2> QED
    BY <1>1, <2>1, <2>2
<1>5. ASSUME NEW m \in 1 .. Len(f), m <= Len(p)
      PROVE  f[m] = p[m]
  BY <1>3, <1>4, <1>5
<1>6. Len(d) + n <= Len(p) => \A m \in 1 .. Len(f) : f[m] = p[m]
  BY <1>1, <1>2, <1>3, <1>5
<1>7. ASSUME Len(d) + n = Len(p) + 1 PROVE f = Append(p, Checksum(p))
  <2> DEFINE c == Checksum(p)
             e == Append(p, c)
  <2>1. c \in Byte
    BY ChecksumAssumption
  <2> HIDE DEF c
  <2>2. /\ Len(e) = Len(p) + 1 /\ e \in Seq(Byte)
        /\ \A m \in 1 .. Len(p) : e[m] = p[m]
        /\ e[Len(p) + 1] = c
    BY <1>3, <2>1, AppendProperties
  <2> HIDE DEF e
  <2>3. Len(f) = Len(p) + 1
    BY <1>1, <1>7
  <2>4. ASSUME NEW m \in 1 .. Len(f) PROVE f[m] = e[m]
    <3>1. CASE m <= Len(p)
      BY <1>3, <1>5, <2>2, <2>3, <3>1
    <3>2. CASE m = Len(p) + 1
      <4>1. 3 + m = Len(p) + 4 /\ m <= Len(p) + 1
        BY <1>3, <3>2
      <4> QED
        BY <1>3, <1>4, <2>2, <3>2, <4>1 DEF c
    <3> QED
      BY <1>3, <2>3, <3>1, <3>2
  <2>5. f = e
    BY <1>1, <2>2, <2>3, <2>4, SeqEqual
  <2> QED
    BY <2>5 DEF e, c
<1> QED
  BY <1>6, <1>7 DEF f

\* The receiver is inside of a frame.
LEMMA InFrame ==
    ASSUME LineType, RxInv, Recovers, Loading("RXFRAME")
    PROVE  /\ rx.frame_data \in Seq(Byte) /\ rxbuf \in Seq(Byte) /\ Len(rx.frame_data) \in Nat
           /\ rx.bytes_in_frame \in 2 .. MaxLen /\ Len(rx.frame_data) <= rx.bytes_in_frame
           /\ rx.bytes_in_frame \in Nat /\ BytesLeft \in Nat /\ Len(rx.frame_data) + BytesLeft = rx.bytes_in_frame + 1
           /\ Place = begun + 3 + Len(rx.frame_data) /\ From = begun
           /\ begun \in Nat /\ Place \in Nat /\ damage \in Nat /\ Len(rxbuf) \in Nat
           /\ MaxLen \in Nat /\ Reach = MaxLen + 3 /\ use \in Uses
           /\ Place + BytesLeft = begun + rx.bytes_in_frame + 4
<1>1. rx.frame_data \in Seq(Byte) /\ rxbuf \in Seq(Byte) /\ Len(rx.frame_data) \in Nat
  BY LenProperties DEF LineType, RxInv, RxType
<1>2. rx.bytes_in_frame \in 2 .. MaxLen /\ Len(rx.frame_data) <= rx.bytes_in_frame
  BY DEF RxInv, FrameFits, Loading
<1>3. MaxLen \in Nat
  <2>1. Base * (Base - 1) \in Int
    BY LinkAssumption, SMT
  <2> QED
    BY <2>1, LinkAssumption
<1>4. /\ Place = begun + 3 + Len(rx.frame_data) /\ From = begun
      /\ begun \in Nat /\ Place \in Nat /\ damage \in Nat /\ Len(rxbuf) \in Nat /\ use \in Uses
  BY LinedFacts DEF Recovers, Following, Loading, From
<1>5. BytesLeft \in Nat /\ Len(rx.frame_data) + BytesLeft = rx.bytes_in_frame + 1
  BY <1>1, <1>2, <1>3 DEF BytesLeft
<1>6. rx.bytes_in_frame \in Nat
  BY <1>2, <1>3
<1>7. Place + BytesLeft = begun + rx.bytes_in_frame + 4
  <2> DEFINE l == Len(rx.frame_data)
             b == rx.bytes_in_frame
             n == BytesLeft
  <2>1. l \in Int /\ b \in Int /\ n \in Int /\ begun \in Int /\ l + n = b + 1
    BY <1>1, <1>4, <1>5, <1>6
  <2>2. Place = begun + 3 + l
    BY <1>4
  <2> HIDE DEF l, b, n
  <2>3. Place + n = begun + b + 4
    BY <2>1, <2>2
  <2> QED
    BY <2>3 DEF l, b, n
<1> QED
  BY <1>1, <1>2, <1>3, <1>4, <1>5, <1>6, <1>7 DEF Reach

LEMMA FrameReceived ==
    ASSUME LineType, RxInv, Recovers, Loading("RXFRAME"),
           NEW n \in 0 .. Len(rxbuf), NEW p \in use.payloads, Follows(p)
    PROVE  LET f == rx.frame_data \o SubSeq(rxbuf, 1, n)
           IN  /\ rx.bytes_in_frame = Len(p)
               /\ n < BytesLeft => \A m \in 1 .. Len(f) : f[m] = p[m]
               /\ n = BytesLeft => f = Append(p, Checksum(p))
<1> DEFINE d == rx.frame_data
<1>1. /\ d \in Seq(Byte) /\ rxbuf \in Seq(Byte) /\ Len(d) \in Nat
      /\ Len(d) <= rx.bytes_in_frame
      /\ Len(d) + BytesLeft = rx.bytes_in_frame + 1 /\ BytesLeft \in Nat
      /\ Place = begun + 3 + Len(d) /\ Place \in Nat /\ begun \in Nat /\ use \in Uses
      /\ Len(rxbuf) \in Nat /\ rx.bytes_in_frame \in Nat
  BY InFrame
<1>2. /\ rx.bytes_in_frame = Len(p) /\ \A m \in 1 .. Len(d) : d[m] = p[m]
      /\ Whole(begun, p)
  BY DEF Follows, Loading, Genuine
<1> HIDE DEF d
<1>3. ASSUME NEW m \in 1 .. n, 3 + Len(d) + m <= Len(p) + 4
      PROVE  rxbuf[m] = Framed(p)[3 + Len(d) + m]
  <2>1. m \in 1 .. Len(rxbuf)
    BY <1>1
  <2>2. Len(p) \in Nat
    BY <1>1, FramedIs
  <2>3. 3 + Len(d) + m \in 1 .. Len(p) + 4
    BY <1>1, <1>3, <2>1, <2>2
  <2>4. begun + (3 + Len(d) + m) - 1 = Place + m - 1 /\ Place + m - 1 >= Place
    BY <1>1, <2>1
  <2>5. ByteAt(begun + (3 + Len(d) + m) - 1) = Framed(p)[3 + Len(d) + m]
    BY <1>2, <2>3, <2>4 DEF Whole
  <2> QED
    BY <2>1, <2>4, <2>5, BufferAt DEF Recovers
<1> DEFINE f == d \o SubSeq(rxbuf, 1, n)
<1>4. /\ Len(d) + n <= Len(p) => \A m \in 1 .. Len(f) : f[m] = p[m]
      /\ Len(d) + n = Len(p) + 1 => f = Append(p, Checksum(p))
  BY <1>1, <1>2, <1>3, BytesReceived
<1>5. n < BytesLeft => Len(d) + n <= Len(p)
  BY <1>1, <1>2
<1>6. n = BytesLeft => Len(d) + n = Len(p) + 1
  BY <1>1, <1>2
<1> QED
  BY <1>2, <1>4, <1>5, <1>6 DEF d

LEMMA PartRecovers ==
    ASSUME LineType, RxInv, Recovers, LoadPart
    PROVE  Recovers'
<1> DEFINE n == Len(rxbuf)
           d == rx.frame_data
           f == d \o rxbuf
<1>1. /\ Loading("RXFRAME") /\ n < BytesLeft /\ Reads(n) /\ log' = log /\ begun' = begun
      /\ rx' = [rx EXCEPT !.frame_data = f]
  BY DEF LoadPart
<1>2. /\ d \in Seq(Byte) /\ rxbuf \in Seq(Byte) /\ Len(d) \in Nat /\ n \in Nat
      /\ Place = begun + 3 + Len(d) /\ begun \in Nat /\ From = begun
  BY <1>1, InFrame
<1>3. Ahead /\ Place' = Place + n /\ Marked' /\ Standing' /\ Lined'
  BY <1>1, <1>2, ReadsAhead, MarkedAhead, LinedLoads DEF Recovers
<1>4. n \in 0 .. Len(rxbuf) /\ SubSeq(rxbuf, 1, n) = rxbuf
  BY <1>2, SubSeqFull
<1>5. Len(f) = Len(d) + n
  BY <1>2, ConcatProperties
<1>6. rx'.state = "RXFRAME" /\ rx'.frame_data = f /\ rx'.bytes_in_frame = rx.bytes_in_frame
  BY <1>1 DEF RxInv, RxType, Loading
<1> HIDE DEF f, n
<1>7. From' = From
  BY <1>1, <1>2, <1>6 DEF From
<1>8. Found'
  BY <1>1, <1>3, <1>7, FoundKept DEF Recovers, Ahead
<1>9. Place' = begun' + 3 + Len(rx'.frame_data)
  BY <1>1, <1>2, <1>3, <1>5, <1>6
<1>10. ASSUME NEW p \in use.payloads, Follows(p) PROVE p \in use'.payloads /\ Follows(p)'
  <2>1. rx.bytes_in_frame = Len(p) /\ \A m \in 1 .. Len(f) : f[m] = p[m]
    BY <1>1, <1>4, <1>10, FrameReceived DEF f
  <2>2. Genuine(begun, p)
    BY <1>10 DEF Follows
  <2> PICK q : q = begun
    OBVIOUS
  <2>3. Genuine(q, p)'
    BY <1>2, <1>3, <2>2, GenuineAhead DEF Recovers
  <2>4. Genuine(begun, p)'
    BY <1>1, <2>3 DEF Genuine, Whole
  <2> QED
    BY <1>3, <1>6, <2>1, <2>4 DEF Follows, Ahead
<1>11. begun' > damage' => \E p \in use'.payloads : Follows(p)'
  <2>1. begun > damage => \E p \in use.payloads : Follows(p)
    BY <1>1 DEF Recovers, Following, Loading
  <2> QED
    BY <1>1, <1>3, <1>10, <2>1 DEF Ahead
<1>12. Following'
  BY <1>6, <1>9, <1>11 DEF Following
<1> QED
  BY <1>3, <1>8, <1>12 DEF Recovers

\* What began before the damage ends within its reach.
LEMMA EndsInReach ==
    ASSUME LineType, RxInv, Recovers, Loading("RXFRAME"), begun <= damage,
           NEW o \in Elements(origin), o.at > damage + Reach
    PROVE  ~(o.at < Place + BytesLeft)
<1>1. o.at \in Nat
  BY LinedFacts DEF Recovers
<1> PICK b : b = rx.bytes_in_frame
  OBVIOUS
<1>2. /\ Place + BytesLeft = begun + b + 4 /\ b \in Nat /\ b <= MaxLen /\ Reach = MaxLen + 3
      /\ begun \in Nat /\ damage \in Nat /\ MaxLen \in Nat
  BY InFrame
<1>3. Place + BytesLeft <= damage + Reach + 1
  BY <1>2
<1> QED
  BY <1>1, <1>2, <1>3

LEMMA DamagedRecovers ==
    ASSUME LineType, RxInv, Recovers, LoadDamaged
    PROVE  Recovers'
<1> DEFINE n == BytesLeft
           data == rx.frame_data \o SubSeq(rxbuf, 1, n)
<1>1. /\ Loading("RXFRAME") /\ Reads(n) /\ log' = log /\ begun' = begun
      /\ Checksum(data) # 0 /\ rx' = [rx EXCEPT !.state = "WAITSTART", !.frame_data = data]
  BY DEF LoadDamaged
<1>2. /\ n \in Nat /\ From = begun /\ begun \in Nat /\ damage \in Nat /\ use \in Uses
  BY <1>1, InFrame
<1>3. /\ Ahead /\ Place' = Place + n /\ Marked' /\ Standing' /\ Lined'
      /\ n \in 0 .. Len(rxbuf)
  <2>1. Ahead /\ Place' = Place + n /\ n <= Len(rxbuf)
    BY <1>1, <1>2, ReadsAhead DEF Recovers
  <2>2. Marked' /\ Standing' /\ Lined'
    BY <1>1, <1>2, <2>1, MarkedAhead, LinedLoads DEF Recovers
  <2>3. Len(rxbuf) \in Nat
    BY <1>1, InFrame
  <2> QED
    BY <1>2, <2>1, <2>2, <2>3
<1>4. rx'.state = "WAITSTART"
  BY <1>1 DEF RxInv, RxType
<1>5. begun <= damage
  <2>1. SUFFICES ASSUME begun > damage PROVE FALSE
    BY <1>2
  <2>2. PICK p \in use.payloads : Follows(p)
    BY <1>1, <2>1 DEF Recovers, Following, Loading
  <2>3. data = Append(p, Checksum(p))
    BY <1>1, <1>3, <2>2, FrameReceived
  <2> HIDE DEF data
  <2> QED
    BY <1>1, <1>2, <2>3, ChecksumAssumption
<1> HIDE DEF data, n
<1>6. Following'
  BY <1>4 DEF Following
<1>7. From' = Place + n
  BY <1>3, <1>4 DEF From
<1>8. Found'
  <2>1. \A o \in Elements(origin) : o.at > damage + Reach /\ o.at < From' => o.at < From
    BY <1>1, <1>5, <1>7, EndsInReach DEF n
  <2> QED
    BY <1>1, <1>3, <2>1, FoundKept DEF Recovers, Ahead
<1> QED
  BY <1>3, <1>6, <1>8 DEF Recovers

LEMMA DispatchRecovers ==
    ASSUME LineType, RxInv, Recovers, LoadDispatches
    PROVE  Recovers'
<1> DEFINE n == BytesLeft
           data == rx.frame_data \o SubSeq(rxbuf, 1, n)
           frame == SubSeq(data, 1, rx.bytes_in_frame)
           R == [at : Nat, frame : Seq(Byte)]
<1>1. /\ Loading("RXFRAME") /\ Reads(n) /\ begun' = begun
      /\ rx' = [rx EXCEPT !.state = "WAITSTART", !.frame_data = data]
      /\ log' = Append(log, Frame(begun, frame))
  BY DEF LoadDispatches, Frame
<1>2. /\ n \in Nat /\ From = begun /\ begun \in Nat /\ damage \in Nat /\ use \in Uses
      /\ Len(rxbuf) \in Nat /\ rx.frame_data \in Seq(Byte) /\ rxbuf \in Seq(Byte)
      /\ rx.bytes_in_frame \in Nat
      /\ Len(rx.frame_data) + n = rx.bytes_in_frame + 1
      /\ Place + n = begun + rx.bytes_in_frame + 4
      /\ Place \in Nat
  BY <1>1, InFrame
<1>3. Ahead /\ Place' = Place + n /\ n \in 0 .. Len(rxbuf)
  <2>1. Ahead /\ Place' = Place + n /\ n <= Len(rxbuf)
    BY <1>1, <1>2, ReadsAhead DEF Recovers
  <2> QED
    BY <1>2, <2>1
<1>4. Marked' /\ Standing' /\ damage' = damage
  BY <1>3, MarkedAhead DEF Recovers, Ahead
<1>5. rx'.state = "WAITSTART"
  BY <1>1 DEF RxInv, RxType
<1>6. Following'
  BY <1>5 DEF Following
<1>7. From' = Place + n
  BY <1>3, <1>5 DEF From
<1>8. data \in Seq(Byte) /\ Len(data) = rx.bytes_in_frame + 1
  <2>1. data \in Seq(Byte) /\ Len(data) = Len(rx.frame_data) + n
    <3> HIDE DEF n
    <3> QED
      BY <1>2, <1>3, BytesJoined
  <2> QED
    BY <1>2, <2>1
<1>9. frame \in Seq(Byte)
  <2> HIDE DEF data
  <2>1. \A k \in 1 .. rx.bytes_in_frame : data[k] \in Byte
    BY <1>2, <1>8, ElementOfSeq
  <2> QED
    BY <1>2, <1>8, <2>1, SubSeqProperties
<1>10. ASSUME begun > damage
       PROVE  \E p \in use.payloads : Follows(p) /\ frame = p
  <2>1. PICK p \in use.payloads : Follows(p)
    BY <1>1, <1>10 DEF Recovers, Following, Loading
  <2>2. data = Append(p, Checksum(p)) /\ rx.bytes_in_frame = Len(p)
    BY <1>1, <1>3, <2>1, FrameReceived
  <2>3. p \in Seq(Byte) /\ Checksum(p) \in Byte
    BY <1>2, FramedIs, ChecksumAssumption
  <2>4. frame = p
    <3> HIDE DEF data
    <3> QED
      BY <2>2, <2>3, AppendKept
  <2> QED
    BY <2>1, <2>4
<1> HIDE DEF frame, data, n
<1> DEFINE f == Frame(begun, frame)
<1>11. f \in R /\ f.at = begun
  BY <1>2, <1>9 DEF Frame
<1>12. log' \in Seq(R) /\ Elements(log') = Elements(log) \cup {f}
  <2>1. log \in Seq(R)
    BY DEF Recovers, Lined
  <2> HIDE DEF R, f
  <2>2. log' = Append(log, f)
    BY <1>1 DEF f
  <2> QED
    BY <1>11, <2>1, <2>2, ElementsAppend
<1> HIDE DEF f
<1>13. Lined'
  <2>1. \A g \in Elements(log) : g.at < Place + n
    <3>1. \A g \in Elements(log) : g.at \in Nat /\ g.at < Place
      BY LinedFacts DEF Recovers
    <3> QED
      BY <1>2, <3>1
  <2>2. begun < Place + n
    BY <1>2
  <2>3. \A g \in Elements(log') : g.at < Place + n
    BY <1>11, <1>12, <2>1, <2>2
  <2> QED
    BY <1>1, <1>2, <1>12, <2>3, LinedReads DEF Recovers
<1>14. ASSUME NEW g \in Elements(log'), g.at > damage + Reach
       PROVE  g \in Elements(origin)
  <2>1. CASE g \in Elements(log)
    BY <1>14, <2>1 DEF Recovers, Found
  <2>2. CASE g = f
    <3>1. begun > damage + 1 /\ begun > damage
      <4>1. MaxLen \in Nat /\ Reach = MaxLen + 3
        BY <1>1, InFrame
      <4>2. begun > damage + Reach
        BY <1>11, <1>14, <2>2
      <4> QED
        BY <1>2, <4>1, <4>2
    <3>2. PICK p \in use.payloads : Follows(p) /\ frame = p
      BY <1>10, <3>1
    <3>3. Frame(begun, p) \in Elements(origin)
      BY <3>1, <3>2 DEF Follows, Genuine
    <3> QED
      BY <2>2, <3>2, <3>3 DEF f
  <2> QED
    BY <1>12, <2>1, <2>2
<1>15. ASSUME NEW o \in Elements(origin), o.at > damage + Reach, o.at < From'
       PROVE  o \in Elements(log')
  <2>1. o.at \in Nat /\ o.at < Place + n
    BY <1>7, <1>15, LinedFacts DEF Recovers
  <2>2. CASE o.at < begun
    BY <1>2, <1>12, <1>15, <2>2 DEF Recovers, Found
  <2>3. CASE o.at >= begun
    <3>1. begun > damage
      BY <1>1, <1>2, <1>15, <2>1, EndsInReach DEF n
    <3>2. PICK p \in use.payloads : Follows(p) /\ frame = p
      BY <1>10, <3>1
    <3>3. o = Frame(begun, p) \/ o.at >= begun + Len(p) + 4
      BY <2>3, <3>2 DEF Follows, Genuine, Whole
    <3>4. rx.bytes_in_frame = Len(p)
      BY <1>1, <3>2 DEF Follows, Loading
    <3>5. o = Frame(begun, p)
      BY <1>2, <2>1, <3>3, <3>4
    <3> QED
      BY <1>12, <3>2, <3>5 DEF f
  <2> QED
    BY <1>2, <2>1, <2>2, <2>3
<1>16. Found'
  <2>1. Elements(origin)' = Elements(origin) /\ Elements(log)' = Elements(log')
    BY <1>3 DEF Ahead, Elements
  <2> QED
    BY <1>4, <1>14, <1>15, <2>1 DEF Found, Reach
<1> QED
  BY <1>4, <1>6, <1>13, <1>16 DEF Recovers

LEMMA LoadRecovers ==
    ASSUME LineType, RxInv, Recovers, Load, ~LoadNothing
    PROVE  Recovers'
<1> QED
  BY StartRecovers, MsbRecovers, LsbRecovers, PartRecovers, DamagedRecovers, DispatchRecovers
  DEF Load

\* The other steps read no byte and bring none.
LEMMA RecoversKept ==
    ASSUME Recovers, UNCHANGED <<use, origin, rxbuf, count, sending, rx, begun, log, damage>>
    PROVE  Recovers'
<1>1. /\ Place' = Place /\ End' = End /\ From' = From
      /\ \A q : ByteAt(q)' = ByteAt(q)
      /\ Elements(origin)' = Elements(origin) /\ Elements(log)' = Elements(log)
  BY DEF Place, End, From, ByteAt, Elements
<1>2. \A q, p : Whole(q, p)' = Whole(q, p)
  BY <1>1 DEF Whole
<1>3. \A q, p : Genuine(q, p)' = Genuine(q, p)
  BY <1>1, <1>2 DEF Genuine
<1>4. \A q : Ends(q)' = Ends(q)
  BY <1>1, <1>3 DEF Ends
<1>5. \A p : Follows(p)' = Follows(p)
  BY <1>3 DEF Follows, Genuine, Whole
<1>6. Lined'
  BY <1>1 DEF Recovers, Lined
<1>7. Marked'
  BY <1>1, <1>3, <1>4 DEF Recovers, Marked
<1>8. Standing'
  BY <1>1, <1>2 DEF Recovers, Standing
<1>9. Following'
  BY <1>1, <1>4, <1>5 DEF Recovers, Following
<1>10. Found'
  BY <1>1 DEF Recovers, Found, Reach
<1> QED
  BY <1>6, <1>7, <1>8, <1>9, <1>10 DEF Recovers

\* What the receiver did so far stays what it is when only bytes ahead of it change.
LEMMA ReceiverKept ==
    ASSUME LineType, Lined, Following, Found, Ahead, Place' = Place, UNCHANGED <<rx, begun, log>>
    PROVE  Following' /\ Found'
<1>1. From' = From /\ UNCHANGED <<use, origin, damage>> /\ begun \in Nat
  BY LinedFacts DEF From, Ahead
<1>2. Found'
  BY <1>1, FoundKept
<1> PICK q : q = begun
  OBVIOUS
<1>3. ASSUME NEW p \in use.payloads, Follows(p) PROVE Follows(p)'
  <2>1. Genuine(q, p)'
    BY <1>1, <1>3, GenuineAhead DEF Follows
  <2>2. Genuine(begun, p)'
    BY <2>1 DEF Genuine, Whole
  <2> QED
    BY <1>3, <2>2 DEF Follows
<1>4. Ends(begun) => Ends(begun)'
  <2>1. Ends(q) => Ends(q)'
    BY <1>1, EndsAhead
  <2> QED
    BY <2>1 DEF Ends
<1>5. Following'
  BY <1>1, <1>3, <1>4 DEF Following
<1> QED
  BY <1>2, <1>5

\* The bytes a frame has still to send: its last one may be a start marker.
LEMMA TailUnmarked ==
    ASSUME Unmistakable, LineType, Lined, use.faults > 0, sending # <<>>
    PROVE  /\ Len(Tail(sending)) = Len(sending) - 1 /\ Len(sending) \in Nat /\ Len(sending) >= 1
           /\ \A m \in 1 .. Len(sending) - 1 : Tail(sending)[m] = sending[m + 1]
           /\ \A m \in 2 .. Len(sending) - 1 : sending[m] # Start
           /\ \A m \in 1 .. Len(Tail(sending)) - 1 : Tail(sending)[m] # Start
<1>1. sending \in Seq(Byte) /\ Len(sending) \in Nat /\ use \in Uses
  BY LinedFacts
<1>2. /\ Len(Tail(sending)) = Len(sending) - 1 /\ Len(sending) >= 1
      /\ \A m \in 1 .. Len(sending) - 1 : Tail(sending)[m] = sending[m + 1]
  BY <1>1, HeadTailProperties, EmptySeq
<1>3. ASSUME NEW m \in 2 .. Len(sending) - 1 PROVE sending[m] # Start
  <2>1. CASE \A k \in 1 .. Len(sending) - 1 : sending[k] # Start
    BY <1>1, <2>1
  <2>2. ASSUME NEW p \in use.payloads, sending = Framed(p) PROVE sending[m] # Start
    <3>1. Len(sending) = Len(p) + 4 /\ Len(p) \in Nat
      BY <1>1, <2>2, FramedIs
    <3>2. m \in 2 .. Len(p) + 3
      BY <3>1
    <3> QED
      BY <1>1, <2>2, <3>2 DEF Unmistakable
  <2> QED
    BY <2>1, <2>2 DEF Lined
<1>4. \A m \in 1 .. Len(Tail(sending)) - 1 : Tail(sending)[m] # Start
  <2> TAKE m \in 1 .. Len(Tail(sending)) - 1
  <2>1. m \in 1 .. Len(sending) - 1 /\ m + 1 \in 2 .. Len(sending) - 1
    BY <1>1, <1>2
  <2> QED
    BY <1>2, <1>3, <2>1
<1> QED
  BY <1>1, <1>2, <1>3, <1>4

\* A byte comes into the receive buffer.
LEMMA ArrivesAt ==
    ASSUME LineType, Lined, NEW b \in Byte, Arrives(b)
    PROVE  /\ Place' = Place /\ count' = count + 1 /\ Len(rxbuf') <= count'
           /\ \A q \in Int : q >= Place /\ q <= count => ByteAt(q)' = ByteAt(q)
           /\ \A q \in Int : q = count + 1 => ByteAt(q)' = b
<1>1. /\ rxbuf \in Seq(Byte) /\ Len(rxbuf) \in Nat /\ count \in Nat /\ Len(rxbuf) <= count
      /\ Place = count + 1 - Len(rxbuf)
  BY LinedFacts
<1>2. rxbuf' = Append(rxbuf, b) /\ count' = count + 1
  BY DEF Arrives
<1>3. /\ Len(rxbuf') = Len(rxbuf) + 1 /\ \A m \in 1 .. Len(rxbuf) : rxbuf'[m] = rxbuf[m]
      /\ rxbuf'[Len(rxbuf) + 1] = b
  BY <1>1, <1>2, AppendProperties
<1>4. Place' = Place /\ count' - Len(rxbuf') = count - Len(rxbuf)
  BY <1>1, <1>2, <1>3 DEF Place
<1>5. ASSUME NEW q \in Int, q >= Place, q <= count PROVE ByteAt(q)' = ByteAt(q)
  <2> DEFINE m == q - (count - Len(rxbuf))
  <2>1. m \in 1 .. Len(rxbuf) /\ q <= count'
    BY <1>1, <1>2, <1>5
  <2>2. rxbuf'[m] = rxbuf[m]
    BY <1>3, <2>1
  <2> QED
    BY <1>4, <1>5, <2>1, <2>2 DEF ByteAt
<1>6. ASSUME NEW q \in Int, q = count + 1 PROVE ByteAt(q)' = b
  <2>1. q <= count' /\ q - (count' - Len(rxbuf')) = Len(rxbuf) + 1
    BY <1>1, <1>2, <1>4, <1>6
  <2> QED
    BY <1>3, <2>1 DEF ByteAt
<1> QED
  BY <1>1, <1>2, <1>3, <1>4, <1>5, <1>6

LEMMA ArrivesRecovers ==
    ASSUME Unmistakable, LineType, Recovers, use.faults > 0, ByteArrives
    PROVE  Recovers'
<1> DEFINE b == Head(sending)
<1>1. /\ sending # <<>> /\ sending' = Tail(sending) /\ Arrives(b)
      /\ UNCHANGED <<use, origin, damage, rx, begun, log>>
  BY DEF ByteArrives, rxVars
<1>2. /\ sending \in Seq(Byte) /\ Len(sending) \in Nat /\ count \in Nat /\ End = count + 1 + Len(sending)
      /\ Place \in Nat
  BY LinedFacts DEF Recovers
<1>3. /\ Len(sending') = Len(sending) - 1 /\ Len(sending) >= 1
      /\ \A m \in 1 .. Len(sending) - 1 : sending'[m] = sending[m + 1]
      /\ \A m \in 1 .. Len(sending') - 1 : sending'[m] # Start
  BY <1>1, TailUnmarked DEF Recovers
<1>4. b \in Byte /\ b = sending[1]
  <2>1. b = sending[1] /\ 1 \in 1 .. Len(sending)
    BY <1>1, <1>2, <1>3, HeadTailProperties
  <2> QED
    BY <1>2, <2>1, ElementOfSeq
<1> HIDE DEF b
<1>5. /\ Place' = Place /\ count' = count + 1 /\ Len(rxbuf') <= count'
      /\ \A q \in Int : q >= Place /\ q <= count => ByteAt(q)' = ByteAt(q)
      /\ \A q \in Int : q = count + 1 => ByteAt(q)' = b
  BY <1>1, <1>4, ArrivesAt DEF Recovers
<1>6. End' = End
  BY <1>2, <1>3, <1>5 DEF End
<1>7. ASSUME NEW q \in Int, q >= Place', q < End PROVE ByteAt(q)' = ByteAt(q)
  <2>1. CASE q <= count
    BY <1>5, <1>7, <2>1
  <2>2. CASE q = count + 1
    <3>1. ~(q <= count) /\ q - count = 1
      BY <1>2, <2>2
    <3> QED
      BY <1>4, <1>5, <2>2, <3>1 DEF ByteAt
  <2>3. CASE q > count + 1
    <3>1. ~(q <= count') /\ ~(q <= count) /\ q - count' \in 1 .. Len(sending) - 1
          /\ (q - count') + 1 = q - count
      BY <1>2, <1>5, <1>7, <2>3
    <3>2. sending'[q - count'] = sending[q - count]
      BY <1>3, <3>1
    <3> QED
      BY <3>1, <3>2 DEF ByteAt
  <2> QED
    BY <1>2, <2>1, <2>2, <2>3
<1>8. Ahead
  BY <1>1, <1>2, <1>5, <1>6, <1>7 DEF Ahead
<1>9. Lined'
  <2>1. Elements(origin)' = Elements(origin) /\ Elements(log)' = Elements(log)
    BY <1>1 DEF Elements
  <2>2. \A o \in Elements(origin) : o.at <= count + 1 + 1
    BY <1>2, LinedFacts DEF Recovers
  <2> QED
    BY <1>1, <1>2, <1>3, <1>5, <2>1, <2>2 DEF Recovers, Lined
<1>10. Marked' /\ Standing'
  BY <1>8, MarkedAhead DEF Recovers
<1>11. Following' /\ Found'
  BY <1>1, <1>5, <1>8, ReceiverKept DEF Recovers
<1> QED
  BY <1>9, <1>10, <1>11 DEF Recovers

\* The place of the receiver is behind what it follows.
LEMMA BegunBefore ==
    ASSUME LineType, RxInv, Recovers, rx.state # "WAITSTART"
    PROVE  begun < Place
<1>1. begun \in Nat /\ Len(rx.frame_data) \in Nat
  BY LinedFacts, LenProperties DEF Recovers, RxInv, RxType
<1>2. CASE rx.state = "LENGTH_MSB"
  BY <1>1, <1>2 DEF Recovers, Following
<1>3. CASE rx.state = "LENGTH_LSB"
  BY <1>1, <1>3 DEF Recovers, Following
<1>4. CASE rx.state = "RXFRAME"
  <2> DEFINE l == Len(rx.frame_data)
  <2>1. Place = begun + 3 + l /\ l \in Nat
    BY <1>1, <1>4 DEF Recovers, Following
  <2> HIDE DEF l
  <2> QED
    BY <1>1, <2>1
<1> QED
  BY <1>2, <1>3, <1>4 DEF RxInv, RxType

\* The module frames a payload behind what it sent before.
LEMMA SendsRecovers ==
    ASSUME Unmistakable, LineType, RxInv, Recovers, use.faults > 0,
           NEW p \in use.payloads, ModuleSends(p)
    PROVE  Recovers'
<1> PICK q0 : q0 = count + 1
  OBVIOUS
<1> DEFINE R == [at : Nat, frame : use.payloads]
           o0 == Frame(q0, p)
           g == Framed(p)
<1>1. /\ sending = <<>> /\ sending' = g /\ origin' = Append(origin, o0)
      /\ UNCHANGED <<use, damage, rxbuf, count, rx, begun, log>>
  BY DEF ModuleSends, rxVars, Frame
<1>2. /\ use \in Uses /\ Len(rxbuf) \in Nat /\ Len(rxbuf) <= count /\ count \in Nat /\ Place \in Nat
      /\ Place <= q0 /\ q0 \in Nat /\ damage \in Nat /\ End = q0 /\ begun \in Nat
  <2>1. Len(sending) = 0
    BY <1>1
  <2> QED
    BY <2>1, LinedFacts DEF Recovers
<1>3. /\ Len(p) \in Nat /\ Len(g) = Len(p) + 4 /\ g[1] = Start
      /\ \A j \in 2 .. Len(p) + 3 : g[j] # Start
  BY <1>2, FramedIs DEF Unmistakable
<1>4. /\ Place' = Place /\ From' = From /\ End' = q0 + Len(p) + 4
  <2>1. Len(sending') = Len(p) + 4
    BY <1>1, <1>3
  <2> QED
    BY <1>1, <1>2, <1>3, <2>1 DEF End, Place, From
<1>5. o0 \in R /\ o0.at = q0 /\ o0.frame = p
  BY <1>2 DEF Frame
<1> HIDE DEF g, o0
<1>6. origin' \in Seq(R) /\ Elements(origin') = Elements(origin) \cup {o0}
  <2>1. origin \in Seq(R)
    BY DEF Recovers, Lined
  <2> HIDE DEF R
  <2> QED
    BY <1>1, <1>5, <2>1, ElementsAppend
<1>7. ASSUME NEW q \in Int, q >= Place, q <= count PROVE ByteAt(q)' = ByteAt(q) /\ q < End
  BY <1>1, <1>2, <1>7 DEF ByteAt
<1>8. ASSUME NEW q \in Int, q > count PROVE ByteAt(q)' = g[q - count]
  BY <1>1, <1>2, <1>8 DEF ByteAt
<1>9. ASSUME NEW q \in Int, NEW r, Whole(q, r) PROVE Whole(q, r)' /\ r \in use'.payloads
  <2>1. Len(r) \in Nat /\ q + Len(r) + 4 <= q0 /\ r \in use.payloads
    BY <1>2, <1>9, FramedIs DEF Whole
  <2>2. q + Len(r) + 4 <= End'
    BY <1>2, <1>3, <1>4, <2>1
  <2>3. \A o \in Elements(origin') : o.at >= q => o = Frame(q, r) \/ o.at >= q + Len(r) + 4
    BY <1>5, <1>6, <1>9, <2>1 DEF Whole
  <2>4. ASSUME NEW j \in 1 .. Len(r) + 4, q + j - 1 >= Place'
        PROVE  ByteAt(q + j - 1)' = Framed(r)[j]
    <3> PICK c : c = q + j - 1
      OBVIOUS
    <3>1. c \in Int /\ c >= Place /\ c <= count
      BY <1>2, <1>4, <2>1, <2>4
    <3>2. ByteAt(c) = Framed(r)[j]
      BY <1>9, <3>1 DEF Whole
    <3>3. ByteAt(c)' = ByteAt(c)
      BY <1>7, <3>1
    <3> QED
      BY <3>2, <3>3 DEF ByteAt
  <2>5. Elements(origin)' = Elements(origin')
    BY DEF Elements
  <2> QED
    BY <1>1, <2>1, <2>2, <2>3, <2>4, <2>5 DEF Whole
<1>10. ASSUME NEW q \in Int, NEW r, Genuine(q, r) PROVE Genuine(q, r)' /\ r \in use'.payloads
  <2>1. Elements(origin)' = Elements(origin')
    BY DEF Elements
  <2> QED
    BY <1>1, <1>6, <1>9, <1>10, <2>1 DEF Genuine
<1>11. ASSUME q0 > damage PROVE Whole(q0, p)' /\ Genuine(q0, p)'
  <2>1. p \in use'.payloads /\ q0 + Len(p) + 4 <= End'
    BY <1>1, <1>2, <1>3, <1>4
  <2>2. ASSUME NEW o \in Elements(origin), o.at >= q0 PROVE FALSE
    <3>1. o.at \in Nat /\ o.at <= q0 /\ o.frame \in use.payloads
      BY LinedFacts DEF Recovers
    <3>2. Whole(o.at, o.frame)
      BY <1>2, <1>11, <2>2, <3>1 DEF Recovers, Standing
    <3>3. o.at + Len(o.frame) + 4 <= q0 /\ Len(o.frame) \in Nat
      BY <1>2, <3>1, <3>2, FramedIs DEF Whole
    <3> QED
      BY <1>2, <2>2, <3>1, <3>3
  <2>3. \A o \in Elements(origin') : o.at >= q0 => o = Frame(q0, p) \/ o.at >= q0 + Len(p) + 4
    BY <1>6, <2>2 DEF o0
  <2>4. ASSUME NEW j \in 1 .. Len(p) + 4
        PROVE  ByteAt(q0 + j - 1)' = Framed(p)[j]
    <3> PICK c : c = q0 + j - 1
      OBVIOUS
    <3>1. c \in Int /\ c > count /\ c - count = j
      BY <1>2
    <3>2. ByteAt(c)' = g[j]
      BY <1>8, <3>1
    <3> QED
      BY <3>2 DEF ByteAt, g
  <2>5. Elements(origin)' = Elements(origin')
    BY DEF Elements
  <2>6. Whole(q0, p)'
    BY <2>1, <2>3, <2>4, <2>5 DEF Whole
  <2>7. Frame(q0, p) \in Elements(origin')
    BY <1>6 DEF o0
  <2> QED
    BY <2>5, <2>6, <2>7 DEF Genuine
<1>12. ASSUME NEW q \in Int, q > damage, Ends(q) PROVE Ends(q)'
  <2>1. CASE q + 1 = End
    <3>1. q + 1 = q0 /\ q0 > damage
      BY <1>2, <1>12, <2>1
    <3> PICK c : c = q + 1
      OBVIOUS
    <3>2. Genuine(c, p)'
      BY <1>11, <3>1
    <3>3. Genuine(q + 1, p)' /\ p \in use'.payloads
      BY <1>1, <3>2
    <3> QED
      BY <3>3 DEF Ends
  <2>2. ASSUME NEW r \in use.payloads, Genuine(q + 1, r) PROVE Ends(q)'
    <3> PICK c : c = q + 1
      OBVIOUS
    <3>1. Genuine(c, r)' /\ r \in use'.payloads
      BY <1>10, <2>2
    <3>2. Genuine(q + 1, r)'
      BY <3>1
    <3> QED
      BY <3>1, <3>2 DEF Ends
  <2> QED
    BY <1>12, <2>1, <2>2 DEF Ends
<1>13. Lined'
  <2>1. Elements(origin)' = Elements(origin') /\ Elements(log)' = Elements(log)
    BY <1>1 DEF Elements
  <2>2. \A o \in Elements(origin') : o.at <= count + 1
    BY <1>2, <1>5, <1>6, LinedFacts DEF Recovers
  <2>3. sending' = Framed(p)
    BY <1>1 DEF g
  <2> QED
    BY <1>1, <1>4, <1>6, <2>1, <2>2, <2>3 DEF Recovers, Lined
<1>14. ASSUME NEW q \in Int, q > damage', q >= Place', q < End', ByteAt(q)' = Start
       PROVE  ((\E r \in use.payloads : Genuine(q, r)) \/ Ends(q))'
  <2>1. CASE q <= count
    <3>1. ByteAt(q) = Start /\ q < End /\ q > damage /\ q >= Place
      BY <1>1, <1>4, <1>7, <1>14, <2>1
    <3>2. (\E r \in use.payloads : Genuine(q, r)) \/ Ends(q)
      BY <3>1 DEF Recovers, Marked
    <3> QED
      BY <1>10, <1>12, <3>1, <3>2
  <2>2. CASE q > count
    <3> PICK j : j = q - count
      OBVIOUS
    <3>1. j \in 1 .. Len(p) + 4 /\ q = count + j /\ g[j] = Start
      BY <1>2, <1>3, <1>4, <1>8, <1>14, <2>2
    <3>2. j = 1 \/ j = Len(p) + 4
      BY <1>3, <3>1
    <3>3. CASE j = 1
      <4>1. q = q0 /\ q0 > damage
        BY <1>1, <1>14, <3>1, <3>3
      <4> QED
        BY <1>1, <1>11, <4>1
    <3>4. CASE j = Len(p) + 4
      <4>1. /\ count \in Int /\ Len(p) \in Int /\ q \in Int
            /\ q = count + j /\ j = Len(p) + 4 /\ q0 = count + 1
        BY <1>2, <1>3, <3>1, <3>4
      <4>2. q + 1 = End'
        BY <1>4, <4>1
      <4> QED
        BY <4>2 DEF Ends
    <3> QED
      BY <3>2, <3>3, <3>4
  <2> QED
    BY <1>2, <2>1, <2>2
<1>15. Marked'
  BY <1>14 DEF Marked
<1>16. ASSUME NEW o \in Elements(origin'), o.at > damage PROVE Whole(o.at, o.frame)'
  <2>1. CASE o \in Elements(origin)
    <3>1. Whole(o.at, o.frame) /\ o.at \in Int
      BY <1>16, <2>1, LinedFacts DEF Recovers, Standing
    <3> QED
      BY <1>9, <3>1
  <2>2. CASE o = o0
    BY <1>5, <1>11, <1>16, <2>2
  <2> QED
    BY <1>6, <2>1, <2>2
<1>17. Standing'
  BY <1>1, <1>16 DEF Standing, Elements
<1>18. ASSUME NEW r \in use.payloads, Follows(r) PROVE Follows(r)' /\ r \in use'.payloads
  <2> PICK c : c = begun
    OBVIOUS
  <2>1. Genuine(c, r)' /\ r \in use'.payloads
    BY <1>2, <1>10, <1>18 DEF Follows
  <2>2. Genuine(begun, r)'
    BY <1>1, <2>1 DEF Genuine, Whole
  <2> QED
    BY <1>1, <1>18, <2>1, <2>2 DEF Follows
<1>19. begun > damage /\ Ends(begun) => Ends(begun)'
  <2> PICK c : c = begun
    OBVIOUS
  <2>1. c > damage /\ Ends(c) => Ends(c)'
    BY <1>2, <1>12
  <2> QED
    BY <1>1, <2>1 DEF Ends, Genuine, Whole
<1>20. Following'
  BY <1>1, <1>4, <1>18, <1>19 DEF Recovers, Following
<1>21. From <= q0
  <2>1. CASE rx.state = "WAITSTART"
    BY <1>2, <2>1 DEF From
  <2>2. CASE rx.state # "WAITSTART"
    BY <1>2, <2>2, BegunBefore DEF From
  <2> QED
    BY <2>1, <2>2
<1>22. Found'
  <2>1. Elements(origin)' = Elements(origin') /\ Elements(log)' = Elements(log)
    BY <1>1 DEF Elements
  <2>2. From \in Nat
    BY <1>2 DEF From
  <2>3. ~(o0.at < From)
    BY <1>2, <1>5, <1>21, <2>2
  <2> QED
    BY <1>1, <1>4, <1>6, <2>1, <2>3 DEF Recovers, Found, Reach
<1> QED
  BY <1>13, <1>15, <1>17, <1>20, <1>22 DEF Recovers

\* A damage: what the receiver follows, and all that was sent and dispatched, lies before
\* it, and behind it only the rest of a frame is still to come.
LEMMA DamageRecovers ==
    ASSUME LineType, RxInv, Recovers, Fault, count' \in Nat, Len(rxbuf') <= count',
           count' >= count, Place' = Place, UNCHANGED <<rx, begun, log>>,
           \/ \A m \in 1 .. Len(sending') - 1 : sending'[m] # Start
           \/ \E p \in use.payloads : sending' = Framed(p),
           \A q \in Int : q > count + 1 /\ q < End' /\ ByteAt(q)' = Start =>
               \/ q + 1 = End'
               \/ q = count + 2 /\ \E p \in use.payloads : Whole(q, p)'
    PROVE  Recovers'
<1>1. damage' = count + 1 /\ UNCHANGED <<use, origin>>
  BY DEF Fault
<1>2. /\ count \in Nat /\ Place \in Nat /\ Place <= count + 1 /\ begun \in Nat
      /\ \A o \in Elements(origin) : o.at \in Nat /\ o.at <= count + 1
      /\ \A f \in Elements(log) : f.at \in Nat /\ f.at < Place
  BY LinedFacts DEF Recovers
<1>3. Elements(origin)' = Elements(origin) /\ Elements(log)' = Elements(log)
  BY <1>1 DEF Elements
<1>4. Lined'
  BY <1>1, <1>2, <1>3 DEF Recovers, Lined
<1>5. ASSUME NEW q \in Int, q > damage', q < End', ByteAt(q)' = Start
      PROVE  ((\E r \in use.payloads : Genuine(q, r)) \/ Ends(q))'
  <2>1. CASE q + 1 = End'
    BY <2>1 DEF Ends
  <2>2. ASSUME q = count + 2, NEW p \in use.payloads, Whole(q, p)'
        PROVE  \E r \in use'.payloads : Genuine(q, r)'
    <3>1. ~(q > damage' + 1)
      BY <1>1, <1>2, <2>2
    <3>2. Genuine(q, p)'
      BY <2>2, <3>1 DEF Genuine
    <3> QED
      BY <1>1, <3>2
  <2> QED
    BY <1>1, <1>5, <2>1, <2>2
<1>6. Marked'
  BY <1>5 DEF Marked
<1>7. Standing'
  BY <1>1, <1>2, <1>3 DEF Standing
<1>8. Following'
  <2>1. rx.state # "WAITSTART" => ~(begun > damage')
    BY <1>1, <1>2, BegunBefore
  <2> QED
    BY <2>1 DEF Recovers, Following
<1>9. Found'
  <2>1. damage' \in Nat /\ Reach \in Nat
    <3>1. MaxLen \in Nat
      <4>1. Base * (Base - 1) \in Int
        BY LinkAssumption, SMT
      <4> QED
        BY <4>1, LinkAssumption
    <3> QED
      BY <1>1, <1>2, <3>1 DEF Reach
  <2>2. \A o \in Elements(origin) : ~(o.at > damage' + Reach)
    BY <1>1, <1>2, <2>1
  <2>3. \A f \in Elements(log) : ~(f.at > damage' + Reach)
    BY <1>1, <1>2, <2>1
  <2> QED
    BY <1>3, <2>2, <2>3 DEF Found, Reach
<1> QED
  BY <1>4, <1>6, <1>7, <1>8, <1>9 DEF Recovers

\* A position between the last one and the end of what is to come is among it.
LEMMA PlaceToCome ==
    ASSUME NEW q \in Int, NEW c \in Int, NEW l \in Int, NEW e \in Int, e = c + l + 1, c < q, q < e
    PROVE  ~(q <= c) /\ q - c \in 1 .. l /\ (q - c \notin 1 .. l - 1 => q + 1 = e)
OBVIOUS

\* The rest of a frame is still to come.
LEMMA RestAfter ==
    ASSUME Unmistakable, LineType, Recovers, use.faults > 0, sending # <<>>,
           sending' = Tail(sending), count' \in {count, count + 1}
    PROVE  \A q \in Int : q > count + 1 /\ q < End' /\ ByteAt(q)' = Start => q + 1 = End'
<1>1. /\ Len(sending') = Len(sending) - 1 /\ Len(sending) \in Nat /\ Len(sending) >= 1
      /\ \A m \in 1 .. Len(sending') - 1 : sending'[m] # Start
  BY TailUnmarked DEF Recovers
<1>2. count \in Nat /\ count' \in Nat /\ count' <= count + 1
  BY LinedFacts DEF Recovers
<1>3. ASSUME NEW q \in Int, q > count + 1, q < End', ByteAt(q)' = Start
      PROVE  q + 1 = End'
  <2> DEFINE l == Len(sending')
             c == count'
             e == End'
  <2>1. l \in Int /\ c \in Int /\ e = c + l + 1 /\ e \in Int
    BY <1>1, <1>2 DEF End
  <2>2. c < q
    BY <1>2, <1>3
  <2>3. q < e /\ \A m \in 1 .. l - 1 : sending'[m] # Start
    BY <1>1, <1>3
  <2> HIDE DEF l, c, e
  <2>4. ~(q <= c) /\ (q - c \notin 1 .. l - 1 => q + 1 = e)
    BY <2>1, <2>2, <2>3, PlaceToCome
  <2>5. sending'[q - c] = Start
    BY <1>3, <2>4 DEF ByteAt, c
  <2>6. q - c \notin 1 .. l - 1
    BY <2>3, <2>5, Zenon
  <2> QED
    BY <2>4, <2>6 DEF e
<1> QED
  BY <1>3

\* All of a frame is still to come, or the rest of one: the line adds a byte in front.
LEMMA AllAfter ==
    ASSUME Unmistakable, LineType, Recovers, use.faults > 0,
           UNCHANGED <<use, origin, sending>>, count' = count + 1
    PROVE  \A q \in Int : q > count + 1 /\ q < End' /\ ByteAt(q)' = Start =>
               \/ q + 1 = End'
               \/ q = count + 2 /\ \E p \in use.payloads : Whole(q, p)'
<1>1. /\ Len(sending) \in Nat /\ count \in Nat /\ End' = count + 1 + Len(sending) + 1 /\ use \in Uses
      /\ \A o \in Elements(origin) : o.at \in Nat /\ o.at <= count + 1
  BY LinedFacts DEF Recovers, End
<1> SUFFICES ASSUME NEW q \in Int, q > count + 1, q < End', ByteAt(q)' = Start, q + 1 # End'
             PROVE  q = count + 2 /\ \E p \in use.payloads : Whole(q, p)'
  OBVIOUS
<1> PICK m : m = q - (count + 1)
  OBVIOUS
<1>2. ~(q <= count') /\ q - count' = m /\ m \in 1 .. Len(sending) - 1
  BY <1>1
<1>3. sending[m] = Start
  BY <1>2 DEF ByteAt
<1>4. sending # <<>>
  BY <1>1, <1>2
<1>5. m = 1
  BY <1>2, <1>3, <1>4, <1>1, TailUnmarked DEF Recovers
<1>6. q = count + 2
  BY <1>1, <1>5
<1>7. PICK p \in use.payloads : sending = Framed(p)
  BY <1>2, <1>3 DEF Recovers, Lined
<1>8. Len(p) \in Nat /\ Len(sending) = Len(p) + 4
  BY <1>1, <1>7, FramedIs
<1>9. Whole(q, p)'
  <2>1. p \in use'.payloads /\ q + Len(p) + 4 <= End'
    BY <1>1, <1>6, <1>7, <1>8
  <2>2. \A o \in Elements(origin) : ~(o.at >= q)
    BY <1>1, <1>6
  <2>3. ASSUME NEW j \in 1 .. Len(p) + 4
        PROVE  ByteAt(q + j - 1)' = Framed(p)[j]
    <3> PICK c : c = q + j - 1
      OBVIOUS
    <3>1. c \in Int /\ ~(c <= count') /\ c - count' = j
      BY <1>1, <1>6
    <3>2. ByteAt(c)' = sending'[j]
      BY <3>1 DEF ByteAt
    <3> QED
      BY <1>7, <3>2 DEF ByteAt
  <2>4. Elements(origin)' = Elements(origin)
    BY DEF Elements
  <2> QED
    BY <2>1, <2>2, <2>3, <2>4 DEF Whole
<1> QED
  BY <1>6, <1>9

LEMMA FaultRecovers ==
    ASSUME Unmistakable, LineType, RxInv, Recovers, use.faults > 0,
           ByteLost \/ DevReset \/ \E b \in Byte : ByteChanged(b) \/ ByteAdded(b)
    PROVE  Recovers'
<1>1. Fault /\ UNCHANGED <<use, origin, rx, begun, log>>
  BY DEF ByteLost, DevReset, ByteChanged, ByteAdded, Fault, rxVars
<1>2. /\ count \in Nat /\ count + 1 \in Nat /\ Len(rxbuf) <= count
  BY LinedFacts DEF Recovers
<1>3. CASE ByteLost
  <2>1. sending # <<>> /\ sending' = Tail(sending) /\ UNCHANGED <<rxbuf, count>>
    BY <1>3 DEF ByteLost
  <2>2. \A m \in 1 .. Len(sending') - 1 : sending'[m] # Start
    BY <2>1, TailUnmarked DEF Recovers
  <2>3. Place' = Place
    BY <2>1 DEF Place
  <2> QED
    BY <1>1, <1>2, <2>1, <2>2, <2>3, RestAfter, DamageRecovers
<1>4. ASSUME NEW b \in Byte, ByteChanged(b) PROVE Recovers'
  <2>1. sending # <<>> /\ sending' = Tail(sending) /\ Arrives(b)
    BY <1>4 DEF ByteChanged
  <2>2. \A m \in 1 .. Len(sending') - 1 : sending'[m] # Start
    BY <2>1, TailUnmarked DEF Recovers
  <2>3. Place' = Place /\ count' = count + 1 /\ Len(rxbuf') <= count'
    BY <2>1, ArrivesAt DEF Recovers
  <2> QED
    BY <1>1, <1>2, <2>1, <2>2, <2>3, RestAfter, DamageRecovers
<1>5. ASSUME NEW b \in Byte, ByteAdded(b) PROVE Recovers'
  <2>1. sending' = sending /\ Arrives(b)
    BY <1>5 DEF ByteAdded
  <2>2. \/ \A m \in 1 .. Len(sending') - 1 : sending'[m] # Start
        \/ \E p \in use.payloads : sending' = Framed(p)
    BY <2>1 DEF Recovers, Lined
  <2>3. Place' = Place /\ count' = count + 1 /\ Len(rxbuf') <= count'
    BY <2>1, ArrivesAt DEF Recovers
  <2> QED
    BY <1>1, <1>2, <2>1, <2>2, <2>3, AllAfter, DamageRecovers
<1>6. CASE DevReset
  <2>1. sending' = <<>> /\ UNCHANGED <<rxbuf, count>> /\ Len(sending') = 0
    BY <1>6 DEF DevReset
  <2>2. Place' = Place /\ End' = count + 1
    BY <1>2, <2>1 DEF Place, End
  <2>3. \A m \in 1 .. Len(sending') - 1 : sending'[m] # Start
    BY <2>1
  <2>4. \A q \in Int : ~(q > count + 1 /\ q < End')
    BY <1>2, <2>2
  <2> QED
    BY <1>1, <1>2, <2>1, <2>2, <2>3, <2>4, DamageRecovers
<1> QED
  BY <1>3, <1>4, <1>5, <1>6

\* Where the line may damage a byte the receiver recovers from it, as often as it does.
Recovering ==
    /\ use.faults > 0 => Recovers
    /\ damage # 0 => use.faults > 0

LEMMA RecoveringStep ==
    ASSUME Unmistakable, IInv, Recovering, [Next]_vars
    PROVE  Recovering'
<1>1. LineType /\ RxInv
  BY DEF IInv
<1>2. use' = use
  <2>1. CASE Load
    BY <1>1, <2>1, ReadsSome DEF Reads, lineVars
  <2>2. CASE Line \/ DevReset
    BY <2>2 DEF Line, ModuleSends, ByteArrives, ByteLost, ByteChanged, ByteAdded, DevReset, Fault
  <2>3. CASE DevTick \/ HandlerReturns \/ Write \/ UNCHANGED vars
    BY <2>3 DEF DevTick, HandlerReturns, Write, SetFlowControl, FrameWrite, TxDrains,
                WriteRefused, WriteAccepted, WritePrefix, WriteBytes, WriteChecksum, WritePart,
                lineVars, vars
  <2> QED
    BY <2>1, <2>2, <2>3 DEF Next
<1> DEFINE Harmed == ByteLost \/ DevReset \/ \E b \in Byte : ByteChanged(b) \/ ByteAdded(b)
<1>8. damage' # 0 => use'.faults > 0
  <2>1. CASE Harmed
    <3>1. faults > 0 /\ faults \in 0 .. use.faults /\ use.faults \in Nat
      BY <1>1, <2>1, LinkAssumption
      DEF ByteLost, DevReset, ByteChanged, ByteAdded, Fault, LineType, UseType
    <3> QED
      BY <1>2, <3>1
  <2>2. CASE ~Harmed
    <3>1. damage' = damage
      <4>1. CASE Load
        BY <1>1, <4>1, ReadsSome DEF Reads, lineVars
      <4>2. CASE ~Load
        BY <2>2, <4>2 DEF Next, Line, ModuleSends, ByteArrives, DevTick, HandlerReturns, Write,
                SetFlowControl, FrameWrite, TxDrains, WriteRefused, WriteAccepted, WritePrefix,
                WriteBytes, WriteChecksum, WritePart, lineVars, vars
      <4> QED
        BY <4>1, <4>2
    <3> QED
      BY <1>2, <3>1 DEF Recovering
  <2> QED
    BY <2>1, <2>2
<1> SUFFICES ASSUME use.faults > 0, Recovers PROVE Recovers'
  BY <1>2, <1>8 DEF Recovering
<1>3. CASE Load /\ ~LoadNothing
  BY <1>1, <1>3, LoadRecovers
<1>4. CASE \E p \in use.payloads : ModuleSends(p)
  BY <1>1, <1>4, SendsRecovers
<1>5. CASE ByteArrives
  BY <1>1, <1>5, ArrivesRecovers
<1>6. CASE ByteLost \/ DevReset \/ \E b \in Byte : ByteChanged(b) \/ ByteAdded(b)
  BY <1>1, <1>6, FaultRecovers
<1>7. CASE LoadNothing \/ DevTick \/ HandlerReturns \/ Write \/ UNCHANGED vars
  <2>1. UNCHANGED <<use, origin, rxbuf, count, sending, rx, begun, log, damage>>
    BY <1>7 DEF LoadNothing, DevTick, HandlerReturns, Write, SetFlowControl, FrameWrite, TxDrains,
                WriteRefused, WriteAccepted, WritePrefix, WriteBytes, WriteChecksum, WritePart,
                lineVars, rxVars, vars
  <2> QED
    BY <2>1, RecoversKept
<1> QED
  BY <1>3, <1>4, <1>5, <1>6, <1>7 DEF Next, Line

LEMMA RecoveringStart ==
    ASSUME Init
    PROVE  Recovering
<1>1. /\ sending = <<>> /\ rxbuf = <<>> /\ count = 0 /\ begun = 0 /\ damage = 0
      /\ origin = <<>> /\ log = <<>> /\ rx.state = "WAITSTART"
  BY DEF Init
<1>2. /\ Len(sending) = 0 /\ Len(rxbuf) = 0 /\ Elements(origin) = {} /\ Elements(log) = {}
      /\ 1 .. Len(sending) - 1 = {}
  BY <1>1 DEF Elements
<1>3. Place = 1 /\ End = 1
  BY <1>1, <1>2 DEF Place, End
<1>4. Lined
  BY <1>1, <1>2 DEF Lined
<1>5. Marked
  BY <1>3 DEF Marked
<1>6. Standing /\ Following /\ Found
  BY <1>1, <1>2 DEF Standing, Following, Found
<1> QED
  BY <1>1, <1>4, <1>5, <1>6 DEF Recovering, Recovers

\* At rest nothing behind the reach of the damage is left to dispatch.
LEMMA NothingMissing ==
    ASSUME LineType, RxInv, Recovers, Quiet,
           NEW o \in Elements(origin), o.at > damage + Reach
    PROVE  o \in Elements(log)
<1>1. /\ Place = End /\ Place \in Nat /\ damage \in Nat /\ begun \in Nat /\ o.at \in Nat
      /\ o.frame \in use.payloads /\ use \in Uses
  <2>1. Len(sending) = 0 /\ Len(rxbuf) = 0
    BY DEF Quiet
  <2> QED
    BY <2>1, LinedFacts DEF Recovers
<1>2. MaxLen \in Nat /\ Reach = MaxLen + 3
  <2>1. Base * (Base - 1) \in Int
    BY LinkAssumption, SMT
  <2> QED
    BY <2>1, LinkAssumption DEF Reach
<1>3. o.at + Len(o.frame) + 4 <= Place /\ Len(o.frame) \in Nat
  <2>1. Whole(o.at, o.frame)
    BY <1>1, <1>2 DEF Recovers, Standing
  <2> QED
    BY <1>1, <2>1, FramedIs DEF Whole
<1>4. CASE rx.state = "WAITSTART"
  <2>1. o.at < From
    BY <1>1, <1>3, <1>4 DEF From
  <2> QED
    BY <2>1 DEF Recovers, Found
<1>5. CASE rx.state # "WAITSTART"
  <2>1. SUFFICES ASSUME ~(o.at < begun) PROVE FALSE
    BY <1>5 DEF Recovers, Found, From
  <2> DEFINE l == Len(rx.frame_data)
  <2>2. /\ l \in Nat
        /\ rx.state = "RXFRAME" => rx.bytes_in_frame \in Nat /\ rx.bytes_in_frame <= MaxLen
        /\ \/ rx.state = "LENGTH_MSB" /\ Place = begun + 1
           \/ rx.state = "LENGTH_LSB" /\ Place = begun + 2
           \/ rx.state = "RXFRAME" /\ Place = begun + 3 + l /\ l <= rx.bytes_in_frame
    BY <1>2, <1>5, LenProperties DEF Recovers, Following, RxInv, RxType, FrameFits
  <2> HIDE DEF l
  <2>3. begun > damage
    <3>1. begun <= damage => Place <= damage + Reach
      BY <1>1, <1>2, <2>2
    <3> QED
      BY <1>1, <1>2, <1>3, <3>1
  <2>4. CASE Ends(begun) /\ rx.state = "LENGTH_MSB"
    BY <1>1, <1>3, <2>1, <2>2, <2>4
  <2>5. ASSUME NEW p \in use.payloads, Follows(p) PROVE FALSE
    <3>1. /\ begun + Len(p) + 4 <= Place /\ Len(p) \in Nat
          /\ rx.state = "RXFRAME" => rx.bytes_in_frame = Len(p)
      BY <1>1, <2>5, FramedIs DEF Follows, Genuine, Whole
    <3> QED
      BY <1>1, <2>2, <3>1
  <2> QED
    BY <1>5, <2>3, <2>4, <2>5 DEF Recovers, Following
<1> QED
  BY <1>4, <1>5

\* Where no byte of a frame but its first and its last one can be taken for a start
\* marker, a damage of the line, a byte that is lost, changed or added or a frame that a
\* reset cuts off, costs the frames that begin within MaxLen + 3 bytes of it and no others,
\* whatever state the receiver (_xbee_frame_load) was in and however often it happens: all
\* that begin behind are dispatched, and nothing else that would begin there.
THEOREM ContainedHolds == ASSUME Unmistakable PROVE Spec => []Contained
<1>1. IInv /\ Recovering /\ [Next]_vars => Recovering'
  BY RecoveringStep
<1>2. IInv /\ Followed /\ Recovering => Contained
  <2> SUFFICES ASSUME IInv, Followed, Recovering PROVE Contained
    OBVIOUS
  <2> DEFINE Late(frames) == {f \in Elements(frames) : f.at > damage + Reach}
  <2>1. LineType /\ RxInv
    BY DEF IInv
  <2>2. SUFFICES Late(log) \subseteq Late(origin) /\ (Quiet => Late(log) = Late(origin))
    BY DEF Contained, Elements
  <2>3. CASE damage = 0
    <3>1. /\ Len(log) <= Len(origin) /\ \A i \in 1 .. Len(log) : log[i] = origin[i]
          /\ Quiet => Len(log) = Len(origin)
      BY <2>1, <2>3, NothingLeft DEF Followed, InStep, Logged
    <3>2. Len(log) \in Nat /\ Len(origin) \in Nat
      <4> DEFINE R == [at : Nat \ {0}, frame : use.payloads]
      <4>1. log \in Seq(R) /\ origin \in Seq(R)
        BY <2>3 DEF Followed, InStep, Logged, Sent
      <4> HIDE DEF R
      <4> QED
        BY <4>1, LenProperties
    <3>3. \A i \in 1 .. Len(log) : i \in 1 .. Len(origin)
      BY <3>1, <3>2
    <3>4. Elements(log) \subseteq Elements(origin)
      BY <3>1, <3>3 DEF Elements
    <3>5. Quiet => Elements(log) = Elements(origin)
      BY <3>1 DEF Elements
    <3> QED
      BY <3>4, <3>5
  <2>4. CASE damage # 0
    <3>1. Recovers
      BY <2>4 DEF Recovering
    <3> QED
      BY <2>1, <3>1, NothingMissing DEF Recovers, Found
  <2> QED
    BY <2>3, <2>4
<1> QED
  BY Invariant, FollowedStart, FollowedStep, RecoveringStart, <1>1, <1>2, PTL DEF Spec
=============================================================================
