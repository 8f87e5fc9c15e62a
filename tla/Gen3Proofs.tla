------------------------------ MODULE Gen3Proofs ------------------------------
(***************************************************************************)
(* Theorems about Gen3: an update stays well formed, and what it sends     *)
(* under a number is the page of that number, for images of any length,    *)
(* whatever is left out of them, and for any line and module.  Until the   *)
(* line makes up an answer, whatever else goes wrong, a header finds room  *)
(* and success means that the whole image is in the flash.                 *)
(***************************************************************************)
EXTENDS Gen3, WellFoundedInduction, SequenceTheorems, TLAPS

-----------------------------------------------------------------------------
(* The inductive invariant *)

\* What has been read of the file, and the number that goes with it: before the first
\* page nothing; then the page in the buffer is the last that was read, and it is the
\* page of its number.  Without data the numbers go past the pages, and no more is read.
Early(s) == s.state \in DOMAIN After \ {"SEND_PAGE", "LOAD_PAGE", "VERIFY"}
Coupled(s) ==
    /\ s.pos <= Pages
    /\ Early(s) => s.pos = 0 /\ s.page_num = 0 /\ ~s.eof
    /\ s.state \in {"SEND_PAGE", "LOAD_PAGE"} =>
          IF Blank THEN s.eof /\ s.page_num = Pages
          ELSE s.buffer = s.page_num /\ s.pos = s.page_num + 1

ImageType == image \in [pages : Images, full : BOOLEAN]

IInv == TypeOK /\ ImageType /\ Coupled(source)

\* What a tick leaves.
Sound(s) == s \in SourceRecord /\ Coupled(s)
LineOK(l) == l \in Seq(Bytes) /\ Len(l) <= Room
BackOK(b) == b \in Seq(Chars) /\ Len(b) <= RxRoom
Stepped == Sound(source') /\ LineOK(line') /\ BackOK(back') /\ faults' \in 0 .. MaxFault

-----------------------------------------------------------------------------
(* The operators of the model *)

\* The smaller of two numbers.
LEMMA MinOfTwo ==
    ASSUME NEW a \in Int, NEW b \in Int
    PROVE  Min({a, b}) \in {a, b} /\ Min({a, b}) <= a /\ Min({a, b}) <= b
<1> DEFINE P(x) == x \in {a, b} /\ \A y \in {a, b} : x <= y
<1>1. \E x : P(x)
  <2>1. CASE a <= b
    <3> P(a) BY <2>1
    <3> QED OBVIOUS
  <2>2. CASE ~(a <= b)
    <3> P(b) BY <2>2
    <3> QED OBVIOUS
  <2> QED BY <2>1, <2>2
<1>2. P(CHOOSE x : P(x)) BY <1>1
<1>3. Min({a, b}) = CHOOSE x \in {a, b} : \A y \in {a, b} : x <= y BY DEF Min
<1> QED BY <1>1, <1>3

\* The time that is counted.
LEMMA TimesAreNatural == 0 \in Times /\ Times \subseteq Nat
<1> DEFINE S == {EnterWait, ReadyWait, LoadTimeout}
<1>1. S \subseteq Nat BY Gen3Assumption
<1>2. \E x \in S : \A y \in S : x >= y BY <1>1
<1>3. Max(S) \in S BY <1>2 DEF Max
<1> QED BY <1>1, <1>3 DEF Times

\* The first page with data that has not been read is one, and none is before it.
LEMMA FirstRemaining ==
    ASSUME NEW s, s.pos \in Nat, Pages \in Nat, Remaining(s) # {}
    PROVE  /\ Min(Remaining(s)) \in Remaining(s)
           /\ Min(Remaining(s)) \in s.pos .. Pages - 1
<1>1. Remaining(s) \subseteq Nat /\ Remaining(s) \subseteq s.pos .. Pages - 1 BY DEF Remaining
<1>2. \E x \in Remaining(s) : \A y \in Remaining(s) : x <= y
  <2> DEFINE R == {ss \in Nat \X Nat : ss[1] < ss[2]}
  <2>1. IsWellFoundedOn(R, Nat) BY NatLessThanWellFounded DEF OpToRel
  <2>2. PICK x \in Remaining(s) : \A y \in Remaining(s) : <<y, x>> \notin R
    <3> HIDE DEF R
    <3>1. Remaining(s) \subseteq Nat /\ Remaining(s) # {} BY <1>1
    <3> QED BY <2>1, <3>1, WFMin
  <2>3. x \in Nat BY <1>1
  <2>4. \A y \in Nat : y < x => <<y, x>> \in R BY <2>3
  <2>5. \A y \in Remaining(s) : x <= y
    <3> HIDE DEF R
    <3> TAKE y \in Remaining(s)
    <3>1. y \in Nat BY <1>1
    <3>2. ~(y < x) BY <2>2, <2>4, <3>1
    <3> QED BY <2>3, <3>1, <3>2
  <2> QED BY <2>5
<1>3. Min(Remaining(s)) \in Remaining(s) BY <1>2 DEF Min
<1> QED BY <1>1, <1>3

\* The numbers that pages have.
LEMMA PagesCounted ==
    ASSUME ImageType
    PROVE  /\ Pages \in Nat /\ PageNumbers \subseteq Nat
           /\ 0 .. Pages + 1 \subseteq PageNumbers /\ PageNumbers \subseteq Content
           /\ Blank \in BOOLEAN
<1>1. image.pages \in Images /\ Images \subseteq Seq(BOOLEAN) BY Gen3Assumption DEF ImageType
<1>2. Pages \in Nat BY <1>1, LenProperties DEF Pages
<1>3. \A pages \in Images : Len(pages) \in Nat BY Gen3Assumption, LenProperties
<1> QED BY <1>1, <1>2, <1>3 DEF PageNumbers, Pages, Content, Blank

\* What the states of the tick are followed by.
LEMMA NextStates ==
    /\ After["INIT"] = "ENTER_BOOTLOADER" /\ After["ENTER_BOOTLOADER"] = "GET_BL_VERSION"
    /\ After["GET_BL_VERSION"] = "BL_VERSION" /\ After["BL_VERSION"] = "BL_PROTOCOL"
    /\ After["BL_PROTOCOL"] = "BAUD_RATE" /\ After["BAUD_RATE"] = "EXT_VERSION"
    /\ After["EXT_VERSION"] = "START_TRANSFER" /\ After["START_TRANSFER"] = "SEND_PAGE"
    /\ After["SEND_PAGE"] = "LOAD_PAGE" /\ After["LOAD_PAGE"] = "VERIFY"
    /\ DOMAIN After = {"INIT", "ENTER_BOOTLOADER", "GET_BL_VERSION", "BL_VERSION",
                       "BL_PROTOCOL", "BAUD_RATE", "EXT_VERSION", "START_TRANSFER",
                       "SEND_PAGE", "LOAD_PAGE", "VERIFY"}
    /\ States = {"INIT", "ENTER_BOOTLOADER", "GET_BL_VERSION", "BL_VERSION",
                 "BL_PROTOCOL", "BAUD_RATE", "EXT_VERSION", "START_TRANSFER",
                 "SEND_PAGE", "LOAD_PAGE", "VERIFY", "SUCCESS", "FAILURE"}
BY DEF After, States

\* A source in a state of its own.
LEMMA NextStateIs ==
    ASSUME NEW s \in SourceRecord, s.state \in DOMAIN After \ {"VERIFY"}
    PROVE  /\ NextState(s) \in SourceRecord
           /\ NextState(s).state = After[s.state]
           /\ NextState(s).pos = s.pos /\ NextState(s).page_num = s.page_num
           /\ NextState(s).buffer = s.buffer /\ NextState(s).eof = s.eof
BY TimesAreNatural, NextStates DEF NextState, SourceRecord, States

\* A timeout changes nothing but the end of it.
LEMMA TimeoutIs ==
    ASSUME NEW s \in SourceRecord
    PROVE  /\ Timeout(s) \in SourceRecord
           /\ Timeout(s).pos = s.pos /\ Timeout(s).page_num = s.page_num
           /\ Timeout(s).buffer = s.buffer /\ Timeout(s).eof = s.eof
           /\ Timeout(s).state \in {s.state, "FAILURE"}
<1>1. CASE s.age > LoadTimeout
  <2>1. Timeout(s) = [s EXCEPT !.ret = "ETIMEDOUT", !.state = "FAILURE"]
    BY <1>1 DEF Timeout, Returns
  <2> QED BY <2>1 DEF SourceRecord, States
<1>2. CASE ~(s.age > LoadTimeout) BY <1>2 DEF Timeout
<1> QED BY <1>1, <1>2

\* What a call of _load_page() leaves.
Loaded(s, e, n, p, b) == [s EXCEPT !.eof = e, !.page_num = n, !.pos = p, !.buffer = b]
LEMMA SourceLoaded ==
    ASSUME NEW s \in SourceRecord, NEW e \in BOOLEAN, NEW n \in PageNumbers,
           NEW p \in PageNumbers, NEW b \in Content
    PROVE  LET t == Loaded(s, e, n, p, b)
           IN  /\ t \in SourceRecord
               /\ t.eof = e /\ t.page_num = n /\ t.pos = p /\ t.buffer = b
               /\ t.state = s.state /\ t.ret = s.ret
BY DEF SourceRecord, Loaded

\* A page is loaded.  If there is one with data, it is in its place.
LEMMA PageLoaded ==
    ASSUME ImageType, NEW s \in SourceRecord, s.pos <= Pages, s.page_num = s.pos
    PROVE  /\ LoadPage(s) \in SourceRecord
           /\ LoadPage(s).pos <= Pages
           /\ LoadPage(s).state = s.state /\ LoadPage(s).ret = s.ret
           /\ Loads(s) => /\ LoadPage(s).buffer = LoadPage(s).page_num
                          /\ LoadPage(s).pos = LoadPage(s).page_num + 1
           /\ ~Loads(s) /\ ~s.eof => LoadPage(s).eof /\ LoadPage(s).page_num = Pages
<1>1. s.pos \in Nat /\ s.page_num \in Nat /\ s.buffer \in Content
  BY PagesCounted DEF SourceRecord
<1>2. Pages \in Nat /\ Pages \in PageNumbers BY PagesCounted
<1>3. CASE s.eof BY <1>3 DEF LoadPage, Loads
<1>4. CASE ~s.eof /\ Remaining(s) = {}
  <2> DEFINE b == IF s.pos < Pages THEN Junk ELSE s.buffer
             e == TRUE
  <2>1. b \in Content /\ e \in BOOLEAN BY <1>1 DEF Content
  <2>5. e OBVIOUS
  <2>2. s.page_num + Pages - s.pos = Pages BY <1>1, <1>2
  <2>3. LoadPage(s) = Loaded(s, e, Pages, Pages, b) BY <1>4, <2>2 DEF LoadPage, Loaded
  <2> HIDE DEF b, e
  <2>4. /\ LoadPage(s) \in SourceRecord /\ LoadPage(s).eof = e
        /\ LoadPage(s).page_num = Pages /\ LoadPage(s).pos = Pages
        /\ LoadPage(s).state = s.state /\ LoadPage(s).ret = s.ret
    BY <1>2, <2>1, <2>3, SourceLoaded
  <2> QED BY <1>2, <1>4, <2>4, <2>5 DEF Loads
<1>5. CASE ~s.eof /\ Remaining(s) # {}
  <2> DEFINE k == Min(Remaining(s))
             e == k = Pages - 1 /\ ~image.full
  <2>1. k \in s.pos .. Pages - 1 BY <1>1, <1>2, <1>5, FirstRemaining
  <2>2. k \in PageNumbers /\ k + 1 \in PageNumbers /\ k \in Content
    BY <1>1, <1>2, <2>1, PagesCounted
  <2>3. s.page_num + k - s.pos = k BY <1>1, <1>2, <2>1
  <2>4. LoadPage(s) = Loaded(s, e, k, k + 1, k) BY <1>5, <2>3 DEF LoadPage, Loaded
  <2>5. e \in BOOLEAN OBVIOUS
  <2> HIDE DEF k, e
  <2>6. /\ LoadPage(s) \in SourceRecord
        /\ LoadPage(s).page_num = k /\ LoadPage(s).pos = k + 1 /\ LoadPage(s).buffer = k
        /\ LoadPage(s).state = s.state /\ LoadPage(s).ret = s.ret
    BY <2>2, <2>4, <2>5, SourceLoaded
  <2> QED BY <1>1, <1>2, <1>5, <2>1, <2>6 DEF Loads
<1> QED BY <1>3, <1>4, <1>5

\* A step that leaves the file and the buffer alone and does not go on to the pages.
LEMMA StaysCoupled ==
    ASSUME NEW s, NEW t, Coupled(s),
           t.pos = s.pos, t.page_num = s.page_num, t.buffer = s.buffer, t.eof = s.eof,
           t.state \in {s.state, "FAILURE", "SUCCESS", "VERIFY"} \/ (Early(s) /\ Early(t))
    PROVE  Coupled(t)
BY NextStates DEF Coupled, Early

LEMMA PutFits ==
    ASSUME LineOK(line), NEW byte \in Bytes
    PROVE  LineOK(Put(byte))
BY Gen3Assumption DEF LineOK, Put, Free

LEMMA TailFits ==
    ASSUME LineOK(line), line # <<>>
    PROVE  /\ Head(line) \in Bytes /\ LineOK(Tail(line))
           /\ \A byte \in Bytes : LineOK(<<byte>> \o Tail(line))
<1>1. line \in Seq(Bytes) /\ Len(line) \in Nat /\ Len(line) <= Room BY DEF LineOK
<1>2. Head(line) \in Bytes /\ Tail(line) \in Seq(Bytes) /\ Len(Tail(line)) = Len(line) - 1
  BY <1>1
<1> DEFINE t == Tail(line)
<1> HIDE DEF t
<1>3. t \in Seq(Bytes) /\ Len(t) = Len(line) - 1 BY <1>2 DEF t
<1>4. LineOK(t) BY <1>1, <1>3, Gen3Assumption DEF LineOK
<1>5. ASSUME NEW byte \in Bytes PROVE LineOK(<<byte>> \o t)
  <2>1. <<byte>> \o t \in Seq(Bytes) /\ Len(<<byte>> \o t) = 1 + Len(t) BY <1>3
  <2> QED BY <1>1, <1>3, <2>1, Gen3Assumption DEF LineOK
<1> QED BY <1>2, <1>4, <1>5 DEF t

LEMMA CommandFits ==
    ASSUME LineOK(line), NEW kind \in {"B", "L", "R", "V", "I", "P", "C"}
    PROVE  LineOK(Put(Command(kind)))
<1>1. kind \in Kinds BY DEF Kinds
<1>2. Command(kind) \in Bytes BY <1>1 DEF Command, Byte, Bytes
<1> QED BY <1>2, PutFits

LEMMA LeftFits ==
    ASSUME BackOK(back)
    PROVE  /\ BackOK(Left) /\ BackOK(<<>>) /\ (Len(back) >= 2 => BackOK(Tail(Tail(back))))
<1>1. \A b \in Seq(Chars) : /\ Len(b) \in Nat /\ (Len(b) >= 1 => b # <<>>)
                            /\ b # <<>> => Tail(b) \in Seq(Chars) /\ Len(Tail(b)) = Len(b) - 1
  OBVIOUS
<1>2. BackOK(Left) BY <1>1, Gen3Assumption DEF BackOK, Left
<1>3. BackOK(<<>>) BY Gen3Assumption DEF BackOK
<1>4. ASSUME Len(back) >= 2 PROVE BackOK(Tail(Tail(back)))
  <2>1. Tail(back) \in Seq(Chars) /\ Len(Tail(back)) = Len(back) - 1 BY <1>1, <1>4 DEF BackOK
  <2> DEFINE t == Tail(back)
  <2> HIDE DEF t
  <2>2. t \in Seq(Chars) /\ t # <<>> /\ Len(t) = Len(back) - 1
    <3>1. t \in Seq(Chars) /\ Len(t) = Len(back) - 1 BY <2>1 DEF t
    <3>2. Len(back) \in Nat BY <1>1 DEF BackOK
    <3> QED BY <1>1, <1>4, <3>1, <3>2
  <2>3. Tail(t) \in Seq(Chars) /\ Len(Tail(t)) = Len(t) - 1 BY <1>1, <2>2
  <2>4. Len(back) \in Nat /\ Len(back) <= RxRoom BY <1>1 DEF BackOK
  <2>5. BackOK(Tail(t)) BY <2>2, <2>3, <2>4, Gen3Assumption DEF BackOK
  <2> QED BY <2>5 DEF t
<1> QED BY <1>2, <1>3, <1>4

LEMMA SaysFits ==
    ASSUME BackOK(back), NEW chars \in Seq(Chars), Says(chars)
    PROVE  BackOK(back')
BY DEF BackOK, Says

\* What the invariant says of the parts of a step.
LEMMA Parts ==
    ASSUME IInv
    PROVE  /\ source \in SourceRecord /\ Coupled(source) /\ Sound(source)
           /\ LineOK(line) /\ BackOK(back) /\ BackOK(Left) /\ BackOK(<<>>)
           /\ faults \in 0 .. MaxFault /\ ImageType
BY LeftFits DEF IInv, TypeOK, Sound, LineOK, BackOK

\* The time limit at the end of a tick.
LEMMA TimeoutSound ==
    ASSUME NEW s, Sound(s)
    PROVE  Sound(Timeout(s))
<1>1. s \in SourceRecord BY DEF Sound
<1>2. Coupled(Timeout(s)) BY <1>1, TimeoutIs, StaysCoupled DEF Sound
<1> QED BY <1>1, <1>2, TimeoutIs DEF Sound

\* A return, whatever it says.
LEMMA ReturnsSound ==
    ASSUME NEW s, Sound(s), NEW ret \in {"0", "EIO", "ECANCELED", "EILSEQ"}
    PROVE  Sound(Returns(s, ret))
<1>1. /\ Returns(s, ret) \in SourceRecord /\ Returns(s, ret).state \in {"SUCCESS", "FAILURE"}
      /\ Returns(s, ret).pos = s.pos /\ Returns(s, ret).page_num = s.page_num
      /\ Returns(s, ret).buffer = s.buffer /\ Returns(s, ret).eof = s.eof
  <2>1. CASE ret = "0" BY <2>1 DEF Returns, Sound, SourceRecord, States
  <2>2. CASE ret # "0" BY <2>2 DEF Returns, Sound, SourceRecord, States
  <2> QED BY <2>1, <2>2
<1> QED BY <1>1, StaysCoupled DEF Sound

\* The next state of the handshake.
LEMMA NextSound ==
    ASSUME NEW s, Sound(s),
           s.state \in {"INIT", "ENTER_BOOTLOADER", "GET_BL_VERSION", "BL_VERSION",
                        "BL_PROTOCOL", "BAUD_RATE", "EXT_VERSION"}
    PROVE  Sound(NextState(s))
<1>1. s \in SourceRecord /\ s.state \in DOMAIN After \ {"VERIFY"} BY NextStates DEF Sound
<1>2. /\ NextState(s).pos = s.pos /\ NextState(s).page_num = s.page_num
      /\ NextState(s).buffer = s.buffer /\ NextState(s).eof = s.eof
  BY <1>1, NextStateIs
<1>3. Early(s) BY <1>1, NextStates DEF Early
<1>4. NextState(s).state = After[s.state] BY <1>1, NextStateIs
<1>5. Early(NextState(s)) BY <1>4, NextStates DEF Early
<1> QED BY <1>1, <1>2, <1>3, <1>5, NextStateIs, StaysCoupled DEF Sound

\* What has no part in the invariant.
LEMMA OthersSound ==
    ASSUME NEW s, Sound(s)
    PROVE  /\ \A b \in BOOLEAN : Sound([s EXCEPT !.broken = b])
           /\ \A b \in BOOLEAN : Sound([s EXCEPT !.proto1 = b])
           /\ \A b \in {"slow", "fast", "none"} : Sound([s EXCEPT !.baud = b])
           /\ \A t \in Texts : Sound([s EXCEPT !.text = t])
           /\ \A n \in -1 .. PageSize : Sound([s EXCEPT !.page_offset = n])
<1>1. s \in SourceRecord /\ Coupled(s) BY DEF Sound
<1>2. \A t \in SourceRecord : (/\ t.pos = s.pos /\ t.page_num = s.page_num /\ t.buffer = s.buffer
                               /\ t.eof = s.eof /\ t.state = s.state) => Sound(t)
  BY <1>1, StaysCoupled DEF Sound
<1>3. \A b \in BOOLEAN : Sound([s EXCEPT !.broken = b]) BY <1>1, <1>2 DEF SourceRecord
<1>4. \A b \in BOOLEAN : Sound([s EXCEPT !.proto1 = b]) BY <1>1, <1>2 DEF SourceRecord
<1>5. \A b \in {"slow", "fast", "none"} : Sound([s EXCEPT !.baud = b])
  BY <1>1, <1>2 DEF SourceRecord
<1>6. \A t \in Texts : Sound([s EXCEPT !.text = t]) BY <1>1, <1>2 DEF SourceRecord
<1>7. \A n \in -1 .. PageSize : Sound([s EXCEPT !.page_offset = n])
  BY <1>1, <1>2 DEF SourceRecord
<1> QED BY <1>3, <1>4, <1>5, <1>6, <1>7

-----------------------------------------------------------------------------
(* The ticks *)

\* A tick that writes and reads what it may, and leaves a sound source.
LEMMA Step ==
    ASSUME IInv, Sound(source'), UNCHANGED faults \/ Spend,
           line' = line \/ LineOK(line'), back' \in {back, Left, <<>>} \/ BackOK(back')
    PROVE  Stepped
<1>1. faults' \in 0 .. MaxFault BY Parts, Gen3Assumption DEF Spend
<1> QED BY <1>1, Parts DEF Stepped

LEMMA StepInitialise ==
    ASSUME IInv, Initialise
    PROVE  Stepped
<1> DEFINE s == NextState(source)
           t == [s EXCEPT !.baud = "slow"]
<1>1. Sound(s) BY Parts, NextSound DEF Initialise, Running
<1> HIDE DEF s
<1>2. Sound(t) BY <1>1, OthersSound
<1> HIDE DEF t
<1>3. Sound([t EXCEPT !.broken = TRUE]) BY <1>2, OthersSound
<1>4. source' = [t EXCEPT !.broken = TRUE] BY <1>1 DEF Initialise, s, t, Sound, SourceRecord
<1>5. UNCHANGED <<line, back, faults>> BY DEF Initialise
<1> QED BY <1>3, <1>4, <1>5, Step

LEMMA StepEnterBootloader ==
    ASSUME IInv, EnterBootloader
    PROVE  Stepped
<1>1. Sound(NextState(source)) BY Parts, NextSound DEF EnterBootloader, Running
<1>2. Sound(source') BY <1>1, Parts, TimeoutSound DEF EnterBootloader
<1>3. UNCHANGED <<line, back, faults>> BY DEF EnterBootloader
<1> QED BY <1>2, <1>3, Step

LEMMA StepGetVersion ==
    ASSUME IInv, GetVersion
    PROVE  Stepped
<1>1. UNCHANGED faults BY DEF GetVersion
<1>2. CASE source.age > ReadyWait
  <2> DEFINE s == NextState(source)
  <2>1. Sound(s) BY Parts, NextSound DEF GetVersion, Running
  <2>2. source' = [s EXCEPT !.broken = FALSE] BY <1>2 DEF GetVersion
  <2> HIDE DEF s
  <2>3. Sound(source') BY <2>1, <2>2, OthersSound
  <2>4. line' = Put(Command("B")) /\ back' = <<>> BY <1>2 DEF GetVersion
  <2>5. LineOK(line') BY <2>4, Parts, CommandFits
  <2> QED BY <1>1, <2>3, <2>4, <2>5, Step
<1>3. CASE ~(source.age > ReadyWait)
  <2>1. source' = Timeout(source) /\ UNCHANGED <<line, back>> BY <1>3 DEF GetVersion
  <2> QED BY <1>1, <2>1, Parts, TimeoutSound, Step
<1> QED BY <1>2, <1>3

LEMMA StepVersion ==
    ASSUME IInv, Version
    PROVE  Stepped
<1>1. UNCHANGED faults BY DEF Version
<1>2. CASE Len(back) >= 2
  <2>1. source' = NextState(source) /\ line' = Put(Command("L")) /\ back' = Tail(Tail(back))
    BY <1>2 DEF Version
  <2>2. Sound(source') BY <2>1, Parts, NextSound DEF Version, Running
  <2>3. LineOK(line') BY <2>1, Parts, CommandFits
  <2>4. BackOK(back') BY <1>2, <2>1, Parts, LeftFits
  <2> QED BY <1>1, <2>2, <2>3, <2>4, Step
<1>3. CASE ~(Len(back) >= 2)
  <2>1. source' = Timeout(source) /\ UNCHANGED <<line, back>> BY <1>3 DEF Version
  <2> QED BY <1>1, <2>1, Parts, TimeoutSound, Step
<1> QED BY <1>2, <1>3

LEMMA StepExtVersion ==
    ASSUME IInv, ExtVersion
    PROVE  Stepped
<1>1. UNCHANGED faults BY DEF ExtVersion
<1>2. CASE ~(Len(back) < 2)
  <2>1. back' = Tail(Tail(back)) BY <1>2 DEF ExtVersion
  <2>2. BackOK(back') BY <1>2, <2>1, Parts, LeftFits DEF BackOK
  <2>3. Sound(source') BY <1>2, Parts, NextSound, ReturnsSound DEF ExtVersion, Running
  <2>4. line' \in {Put(Command("C")), Put(Command("I"))} BY <1>2 DEF ExtVersion
  <2>5. LineOK(line') BY <2>4, Parts, CommandFits
  <2> QED BY <1>1, <2>2, <2>3, <2>5, Step
<1>3. CASE Len(back) < 2
  <2>1. source' = Timeout(source) /\ UNCHANGED <<line, back>> BY <1>3 DEF ExtVersion
  <2> QED BY <1>1, <2>1, Parts, TimeoutSound, Step
<1> QED BY <1>2, <1>3

LEMMA StepProtocol ==
    ASSUME IInv, Protocol
    PROVE  Stepped
<1>1. UNCHANGED faults /\ back' = Left BY DEF Protocol
<1>2. LineOK(line') BY Parts, CommandFits DEF Protocol
<1>3. Sound(source')
  <2>1. CASE Got = "1"
    <3> DEFINE s == [source EXCEPT !.proto1 = TRUE]
    <3>1. Sound(s) BY Parts, OthersSound
    <3>2. source' = Timeout(s) BY <2>1 DEF Protocol
    <3> HIDE DEF s
    <3> QED BY <3>1, <3>2, TimeoutSound
  <2>2. CASE Got = "U"
    <3> DEFINE s == NextState(source)
               t == [s EXCEPT !.page_offset = 0]
    <3>1. Sound(s) BY Parts, NextSound DEF Protocol, Running
    <3>2. source' = [s EXCEPT !.page_offset = 0, !.text = ""] BY <2>2 DEF Protocol
    <3>3. source' = [t EXCEPT !.text = ""] BY <3>1, <3>2 DEF Sound, SourceRecord
    <3> HIDE DEF s
    <3>4. 0 \in -1 .. PageSize BY Gen3Assumption
    <3>5. Sound(t) BY <3>1, <3>4, OthersSound
    <3> HIDE DEF t
    <3>6. "" \in Texts BY DEF Texts
    <3> QED BY <3>3, <3>5, <3>6, OthersSound
  <2>3. CASE Got \notin {"1", "U"}
    <3>1. source' = Timeout(source) BY <2>3 DEF Protocol
    <3> QED BY <3>1, Parts, TimeoutSound
  <2> QED BY <2>1, <2>2, <2>3
<1> QED BY <1>1, <1>2, <1>3, Step

LEMMA StepBaudRate ==
    ASSUME IInv, BaudRate
    PROVE  Stepped
<1>1. UNCHANGED faults /\ back' = Left BY DEF BaudRate
<1>2. LineOK(line') BY Parts, CommandFits DEF BaudRate
<1>3. Sound(source')
  <2>1. CASE Got = "U"
    <3> DEFINE s == NextState(source)
               rate == IF source.text = "text" THEN "fast" ELSE "none"
    <3>1. Sound(s) BY Parts, NextSound DEF BaudRate, Running
    <3>2. source' = [s EXCEPT !.baud = rate] BY <2>1 DEF BaudRate
    <3>3. rate \in {"slow", "fast", "none"} OBVIOUS
    <3> HIDE DEF s, rate
    <3> QED BY <3>1, <3>2, <3>3, OthersSound
  <2>2. CASE Got = "none"
    <3>1. source' = Timeout(source) BY <2>2 DEF BaudRate
    <3> QED BY <3>1, Parts, TimeoutSound
  <2>3. CASE Got \notin {"U", "none"}
    <3> DEFINE text == IF source.text = "" /\ Got = "text" THEN "text" ELSE "?"
               s == [source EXCEPT !.text = text]
    <3>1. source' = Timeout(s) BY <2>3 DEF BaudRate
    <3>2. text \in Texts BY DEF Texts
    <3> HIDE DEF text
    <3>3. Sound(s) BY <3>2, Parts, OthersSound
    <3> HIDE DEF s
    <3> QED BY <3>1, <3>3, TimeoutSound
  <2> QED BY <2>1, <2>2, <2>3
<1> QED BY <1>1, <1>2, <1>3, Step

\* The error of a file that cannot be read.
LEMMA ReadFailsSound ==
    ASSUME NEW s \in SourceRecord, s.pos <= Pages
    PROVE  Sound(ReadFails(s))
<1>1. /\ ReadFails(s) \in SourceRecord /\ ReadFails(s).state = "FAILURE"
      /\ ReadFails(s).pos = s.pos
  <2>1. Returns(s, "EIO") = [s EXCEPT !.ret = "EIO", !.state = "FAILURE"] BY DEF Returns
  <2>2. ReadFails(s) = [s EXCEPT !.ret = "EIO", !.state = "FAILURE", !.eof = TRUE]
    BY <2>1 DEF ReadFails, SourceRecord
  <2> QED BY <2>2 DEF SourceRecord, States
<1> QED BY <1>1, NextStates DEF Sound, Coupled, Early

LEMMA StepStartTransfer ==
    ASSUME IInv, StartTransfer
    PROVE  Stepped
<1>1. (UNCHANGED faults \/ Spend) /\ back' = Left /\ line' = line BY DEF StartTransfer
<1>2. Sound(source')
  <2>1. CASE source' = ReadFails(source) BY <2>1, Parts, ReadFailsSound DEF Sound, Coupled
  <2>2. CASE source' = Timeout(source) BY <2>2, Parts, TimeoutSound
  <2>3. CASE source' = [NextState(LoadPage(source)) EXCEPT !.page_offset = -1]
    <3> DEFINE s == LoadPage(source)
               t == NextState(s)
    <3>1. source \in SourceRecord /\ source.state = "START_TRANSFER"
      BY Parts DEF StartTransfer, Running
    <3>2. source.pos = 0 /\ source.page_num = 0 /\ ~source.eof /\ source.pos <= Pages
      BY <3>1, Parts, NextStates DEF Coupled, Early
    <3>3. /\ s \in SourceRecord /\ s.pos <= Pages /\ s.state = "START_TRANSFER"
          /\ Loads(source) => s.buffer = s.page_num /\ s.pos = s.page_num + 1
          /\ ~Loads(source) => s.eof /\ s.page_num = Pages
      BY <3>1, <3>2, Parts, PageLoaded
    <3>4. Loads(source) <=> ~Blank
      BY <3>2, Parts, PagesCounted DEF Loads, Remaining, Blank
    <3> HIDE DEF s
    <3>a. s.state \in DOMAIN After \ {"VERIFY"} BY <3>3, NextStates
    <3>b. After[s.state] = "SEND_PAGE" BY <3>3, NextStates
    <3>5. t \in SourceRecord /\ t.state = "SEND_PAGE" BY <3>3, <3>a, <3>b, NextStateIs
    <3>6. /\ t.pos = s.pos /\ t.page_num = s.page_num /\ t.buffer = s.buffer /\ t.eof = s.eof
      BY <3>3, <3>a, NextStateIs
    <3>7. Sound(t) BY <3>3, <3>4, <3>5, <3>6, NextStates DEF Sound, Coupled, Early
    <3> HIDE DEF t
    <3>8. -1 \in -1 .. PageSize BY Gen3Assumption
    <3>9. source' = [t EXCEPT !.page_offset = -1] BY <2>3 DEF s, t
    <3> QED BY <3>7, <3>8, <3>9, OthersSound
  <2> QED BY <2>1, <2>2, <2>3 DEF StartTransfer
<1> QED BY <1>1, <1>2, Step

\* Bytes that find room.
LEMMA BytesFit ==
    ASSUME LineOK(line), NEW bytes \in Seq(Bytes), Len(bytes) <= Free
    PROVE  LineOK(line \o bytes)
<1>1. Len(line) \in Nat /\ Len(bytes) \in Nat BY DEF LineOK
<1>2. line \o bytes \in Seq(Bytes) /\ Len(line \o bytes) = Len(line) + Len(bytes)
  BY DEF LineOK
<1> QED BY <1>1, <1>2, Gen3Assumption DEF LineOK, Free

LEMMA ByteIs ==
    ASSUME NEW kind \in Kinds, NEW v \in Int
    PROVE  Byte(kind, v) \in Bytes
BY DEF Byte, Bytes

LEMMA ContentIs == Content \subseteq Int
BY DEF Content, PageNumbers, Junk, Erased, OldPage

LEMMA HeaderIs ==
    ASSUME NEW s \in SourceRecord
    PROVE  Header(s) \in Seq(Bytes) /\ Len(Header(s)) <= 3
<1>1. s.page_num \in Nat /\ LowByte \in Nat \ {0}
  <2>1. s.page_num \in PageNumbers BY DEF SourceRecord
  <2> QED BY <2>1, Gen3Assumption DEF PageNumbers
<1>2. s.page_num % LowByte \in Int /\ s.page_num \div LowByte \in Int BY <1>1
<1>3. /\ Command("P") \in Bytes /\ Byte("num", s.page_num % LowByte) \in Bytes
      /\ Byte("high", s.page_num \div LowByte) \in Bytes
  BY <1>2, ByteIs DEF Command, Kinds
<1> QED BY <1>3 DEF Header

LEMMA SumIs ==
    ASSUME NEW content \in Content, NEW proto1 \in BOOLEAN
    PROVE  Sum(proto1, content) \in Seq(Bytes) /\ Len(Sum(proto1, content)) <= 2
<1>1. Byte("sum", content) \in Bytes BY ByteIs, ContentIs DEF Kinds
<1> QED BY <1>1 DEF Sum, Sum1

LEMMA PageBytesAre ==
    ASSUME NEW s \in SourceRecord, NEW n \in Nat
    PROVE  PageBytes(s, n) \in Seq(Bytes) /\ Len(PageBytes(s, n)) = n
<1>1. Byte("stray", 0) \in Bytes /\ Byte("data", s.buffer) \in Bytes
  <2>1. s.buffer \in Int BY ContentIs DEF SourceRecord
  <2>2. {"stray", "data"} \subseteq Kinds BY DEF Kinds
  <2> QED BY <2>1, <2>2, ByteIs
<1>2. PageBytes(s, n) \in [1 .. n -> Bytes] BY <1>1 DEF PageBytes
<1> QED BY <1>2

LEMMA StepSendPage ==
    ASSUME IInv, SendPage
    PROVE  Stepped
<1>1. UNCHANGED faults BY DEF SendPage
<1>2. source \in SourceRecord /\ source.state = "SEND_PAGE" BY Parts DEF SendPage, Running
<1>3. Free \in Int /\ Free <= Room BY Parts, Gen3Assumption DEF Free, LineOK
<1>4. CASE SendHeader
  <2> DEFINE s == [source EXCEPT !.page_offset = 0]
  <2>1. 0 \in -1 .. PageSize BY Gen3Assumption
  <2>2. Sound(s) BY <2>1, Parts, OthersSound
  <2>3. source' = Timeout(s) BY <1>4 DEF SendHeader
  <2> HIDE DEF s
  <2>4. Sound(source') BY <2>2, <2>3, TimeoutSound
  <2>5. line' = line \o Header(source) /\ back' = back /\ Free >= 3 BY <1>4 DEF SendHeader
  <2>6. Len(Header(source)) \in Nat BY <1>2, HeaderIs
  <2>7. LineOK(line') BY <1>2, <1>3, <2>5, <2>6, HeaderIs, BytesFit, Parts
  <2> QED BY <1>1, <2>4, <2>5, <2>7, Step
<1>5. CASE SendData
  <2> DEFINE n == Min({PageSize - source.page_offset, Free})
             s == [source EXCEPT !.page_offset = @ + n]
  <2>1. /\ source.page_offset \in -1 .. PageSize /\ PageSize \in Nat /\ Free > 0
        /\ source.page_offset < PageSize
    <3>1. source.page_offset \in -1 .. PageSize BY <1>2 DEF SourceRecord
    <3>2. Free > 0 /\ source.page_offset < PageSize BY <1>5 DEF SendData
    <3> QED BY <3>1, <3>2, Gen3Assumption
  <2>2. n \in Nat /\ n <= PageSize - source.page_offset /\ n <= Free
    <3> DEFINE a == PageSize - source.page_offset
    <3>1. a \in Int /\ a > 0 BY <2>1
    <3> HIDE DEF a
    <3>2. n \in {a, Free} /\ n <= a /\ n <= Free BY <1>3, <3>1, MinOfTwo DEF a
    <3> QED BY <1>3, <2>1, <3>1, <3>2 DEF a
  <2>3. source' = Timeout(s) /\ line' = line \o PageBytes(source, n) /\ back' = back
    BY <1>5 DEF SendData
  <2> HIDE DEF n
  <2>4. source.page_offset + n \in -1 .. PageSize BY <2>1, <2>2
  <2>5. Sound(s) BY <2>4, Parts, OthersSound
  <2> HIDE DEF s
  <2>6. Sound(source') BY <2>3, <2>5, TimeoutSound
  <2>7. LineOK(line') BY <1>2, <2>2, <2>3, PageBytesAre, BytesFit, Parts
  <2> QED BY <1>1, <2>3, <2>6, <2>7, Step
<1>6. CASE SendSum
  <2>1. source' = NextState(source) /\ back' = <<>> /\ Free >= 2
        /\ line' = line \o Sum(source.proto1, source.buffer)
    BY <1>6 DEF SendSum
  <2>2. source.state \in DOMAIN After \ {"VERIFY"} /\ After[source.state] = "LOAD_PAGE"
    BY <1>2, NextStates
  <2>3. source'.state = "LOAD_PAGE" BY <1>2, <2>1, <2>2, NextStateIs
  <2>4. Sound(source')
    BY <1>2, <2>1, <2>2, <2>3, NextStateIs, NextStates, Parts DEF Sound, Coupled, Early
  <2>5. source.proto1 \in BOOLEAN /\ source.buffer \in Content BY <1>2 DEF SourceRecord
  <2>6. LineOK(line') BY <1>3, <2>1, <2>5, SumIs, BytesFit, Parts
  <2> QED BY <1>1, <2>1, <2>4, <2>6, Step
<1>7. CASE SendNothing
  <2>1. source' = Timeout(source) /\ UNCHANGED <<line, back>> BY <1>7 DEF SendNothing
  <2> QED BY <1>1, <2>1, Parts, TimeoutSound, Step
<1> QED BY <1>4, <1>5, <1>6, <1>7 DEF SendPage

\* The page of the buffer is sent, or sent again.
InBuffer(s) ==
    IF Blank THEN s.eof /\ s.page_num = Pages
    ELSE s.buffer = s.page_num /\ s.pos = s.page_num + 1

LEMMA ResendSound ==
    ASSUME NEW s \in SourceRecord, s.pos <= Pages, InBuffer(s)
    PROVE  Sound(Resend(s))
<1> DEFINE r == [s EXCEPT !.retries = @ + 1]
<1>1. r \in SourceRecord
  <2>1. s.retries \in Nat BY DEF SourceRecord
  <2>2. s.retries + 1 \in Nat BY <2>1
  <2> QED BY <2>2 DEF SourceRecord
<1>2. r.pos = s.pos /\ r.page_num = s.page_num /\ r.buffer = s.buffer /\ r.eof = s.eof
  BY DEF SourceRecord
<1>3. Resend(s) = IF r.retries > Retries THEN Returns(r, "ECANCELED")
                  ELSE [r EXCEPT !.page_offset = -1, !.state = "SEND_PAGE", !.age = 0]
  BY DEF Resend
<1> HIDE DEF r
<1>4. CASE r.retries > Retries
  <2>1. Resend(s) = [r EXCEPT !.ret = "ECANCELED", !.state = "FAILURE"]
    BY <1>3, <1>4 DEF Returns
  <2>2. /\ Resend(s) \in SourceRecord /\ Resend(s).state = "FAILURE"
        /\ Resend(s).pos = r.pos
    BY <1>1, <2>1 DEF SourceRecord, States
  <2> QED BY <1>2, <2>2, NextStates DEF Sound, Coupled, Early
<1>5. CASE ~(r.retries > Retries)
  <2>1. Resend(s) = [r EXCEPT !.page_offset = -1, !.state = "SEND_PAGE", !.age = 0]
    BY <1>3, <1>5
  <2>2. -1 \in -1 .. PageSize /\ 0 \in Times /\ "SEND_PAGE" \in States
    BY Gen3Assumption, TimesAreNatural, NextStates
  <2>3. /\ Resend(s) \in SourceRecord /\ Resend(s).state = "SEND_PAGE"
        /\ Resend(s).pos = r.pos /\ Resend(s).page_num = r.page_num
        /\ Resend(s).buffer = r.buffer /\ Resend(s).eof = r.eof
    BY <1>1, <2>1, <2>2 DEF SourceRecord
  <2> QED BY <1>2, <2>3, NextStates DEF Sound, Coupled, Early, InBuffer
<1> QED BY <1>4, <1>5

LEMMA StepNextPage ==
    ASSUME IInv, NextPage
    PROVE  Stepped
<1> DEFINE s == [source EXCEPT !.retries = 0, !.page_num = @ + 1]
<1>1. source \in SourceRecord /\ source.state = "LOAD_PAGE" BY Parts DEF NextPage, Running
<1>2. source.pos <= Pages /\ InBuffer(source)
  BY <1>1, Parts, NextStates DEF Coupled, Early, InBuffer
<1>3. Pages \in Nat /\ source.pos \in Nat /\ source.page_num \in Nat
  BY <1>1, Parts, PagesCounted DEF SourceRecord
<1>4. source.page_num + 1 \in 0 .. Pages + 1
  BY <1>2, <1>3 DEF InBuffer
<1>5. /\ s \in SourceRecord /\ s.pos = source.pos /\ s.page_num = source.page_num + 1
      /\ s.eof = source.eof /\ s.state = "LOAD_PAGE"
  <2>1. source.page_num + 1 \in PageNumbers BY <1>4, Parts, PagesCounted
  <2> QED BY <1>1, <2>1 DEF SourceRecord
<1>6. /\ back' = Left
      /\ \/ Loads(s) /\ source' = Resend(LoadPage(s)) /\ UNCHANGED <<line, faults>>
         \/ /\ ~Loads(s) /\ source' = NextState(LoadPage(s))
            /\ line' = Put(Command("C")) /\ UNCHANGED faults
         \/ Spend /\ source' = ReadFails(s) /\ UNCHANGED line
  BY DEF NextPage
<1> HIDE DEF s
<1>7. CASE Loads(s) /\ source' = Resend(LoadPage(s)) /\ UNCHANGED <<line, faults>>
  <2>1. ~Blank
    <3>1. PICK k \in Remaining(s) : TRUE BY <1>7 DEF Loads
    <3>2. k \in 0 .. Pages - 1 /\ HasData(k) BY <1>3, <1>5, <3>1 DEF Remaining
    <3> QED BY <3>2 DEF Blank
  <2>2. s.page_num = s.pos BY <1>2, <1>5, <2>1 DEF InBuffer
  <2>3. /\ LoadPage(s) \in SourceRecord /\ LoadPage(s).pos <= Pages
        /\ LoadPage(s).buffer = LoadPage(s).page_num
        /\ LoadPage(s).pos = LoadPage(s).page_num + 1
    BY <1>2, <1>5, <1>7, <2>2, Parts, PageLoaded
  <2>4. Sound(source') BY <1>7, <2>1, <2>3, ResendSound DEF InBuffer
  <2> QED BY <1>6, <1>7, <2>4, Step
<1>8. CASE /\ ~Loads(s) /\ source' = NextState(LoadPage(s))
           /\ line' = Put(Command("C")) /\ UNCHANGED faults
  <2>1. /\ LoadPage(s) \in SourceRecord /\ LoadPage(s).pos <= Pages
        /\ LoadPage(s).state = "LOAD_PAGE"
    <3>1. CASE s.eof BY <1>2, <1>5, <3>1 DEF LoadPage
    <3>2. CASE ~s.eof
      <4>1. s.page_num = s.pos BY <1>2, <1>5, <3>2 DEF InBuffer
      <4> QED BY <1>2, <1>5, <4>1, Parts, PageLoaded
    <3> QED BY <3>1, <3>2
  <2>2. LoadPage(s).state \in DOMAIN After \ {"VERIFY"} /\ After[LoadPage(s).state] = "VERIFY"
    BY <2>1, NextStates
  <2>3. source' \in SourceRecord /\ source'.state = "VERIFY" /\ source'.pos <= Pages
    BY <1>8, <2>1, <2>2, NextStateIs
  <2>4. Sound(source') BY <2>3 DEF Sound, Coupled, Early
  <2>5. LineOK(line') BY <1>8, Parts, CommandFits
  <2> QED BY <1>6, <1>8, <2>4, <2>5, Step
<1>9. CASE Spend /\ source' = ReadFails(s) /\ UNCHANGED line
  <2>1. Sound(source') BY <1>2, <1>5, <1>9, ReadFailsSound
  <2> QED BY <1>6, <1>9, <2>1, Step
<1> QED BY <1>6, <1>7, <1>8, <1>9

LEMMA StepSamePage ==
    ASSUME IInv, SamePage
    PROVE  Stepped
<1>1. UNCHANGED <<line, faults>> /\ back' = Left BY DEF SamePage
<1>2. source \in SourceRecord /\ source.state = "LOAD_PAGE" BY Parts DEF SamePage, Running
<1>3. source.pos <= Pages /\ InBuffer(source)
  BY <1>2, Parts, NextStates DEF Coupled, Early, InBuffer
<1>4. source' \in {Resend(source), Returns(source, "ECANCELED"), Timeout(source)}
  BY DEF SamePage
<1>5. Sound(source') BY <1>2, <1>3, <1>4, Parts, ResendSound, ReturnsSound, TimeoutSound
<1> QED BY <1>1, <1>5, Step

LEMMA StepVerify ==
    ASSUME IInv, Verify
    PROVE  Stepped
<1>1. UNCHANGED <<line, faults>> /\ back' = Left BY DEF Verify
<1>2. source' \in {Returns(source, "EILSEQ"), Returns(source, "0"), Timeout(source)}
  BY DEF Verify
<1>3. Sound(source') BY <1>2, Parts, ReturnsSound, TimeoutSound
<1> QED BY <1>1, <1>3, Step

-----------------------------------------------------------------------------
(* The module and the line *)

LEMMA CommandTaken ==
    ASSUME IInv, NEW kind \in Kinds, TakeCommand(kind)
    PROVE  boot' \in BootRecord /\ BackOK(back')
<1>1. boot \in BootRecord /\ BackOK(back) BY Parts DEF IInv, TypeOK
<1>2. /\ <<"text", "U">> \in Seq(Chars) /\ <<"1", "U">> \in Seq(Chars)
      /\ <<"U">> \in Seq(Chars) /\ <<"FAIL">> \in Seq(Chars)
  BY DEF Chars
<1>3. CASE kind = "B" BY <1>1, <1>2, <1>3, SaysFits DEF TakeCommand
<1>4. CASE kind = "L" BY <1>1, <1>2, <1>4, SaysFits DEF TakeCommand
<1>5. CASE kind = "R" BY <1>1, <1>2, <1>5, SaysFits DEF TakeCommand, BootRecord
<1>6. CASE kind = "V" BY <1>1, <1>2, <1>6, SaysFits DEF TakeCommand
<1>7. CASE kind = "I"
  <2>1. [k \in PageNumbers |-> Erased] \in [PageNumbers -> Content] BY DEF Content
  <2> QED BY <1>1, <1>2, <1>7, <2>1, SaysFits DEF TakeCommand, BootRecord
<1>8. CASE kind = "P"
  <2>1. <<Command("P")>> \in Seq(Bytes) BY ByteIs DEF Command, Kinds
  <2> QED BY <1>1, <1>8, <2>1 DEF TakeCommand, BootRecord
<1>9. CASE kind = "C" BY <1>1, <1>2, <1>9, SaysFits DEF TakeCommand, BootRecord
<1>10. CASE kind \notin {"B", "L", "R", "V", "I", "P", "C"} BY <1>1, <1>10 DEF TakeCommand
<1> QED BY <1>3, <1>4, <1>5, <1>6, <1>7, <1>8, <1>9, <1>10

LEMMA PageTaken ==
    ASSUME IInv, NEW got, TakePage(got)
    PROVE  boot' \in BootRecord /\ BackOK(back') /\ faults' \in 0 .. MaxFault
<1>1. boot \in BootRecord /\ BackOK(back) BY Parts DEF IInv, TypeOK
<1>2. /\ <<"U">> \in Seq(Chars) /\ <<"VERIFY">> \in Seq(Chars) /\ <<"CRC">> \in Seq(Chars)
  BY DEF Chars
<1>3. faults' \in 0 .. MaxFault
  <2>1. UNCHANGED faults \/ Spend BY DEF TakePage
  <2> QED BY <2>1, Parts, Gen3Assumption DEF Spend
<1>4. BackOK(back')
  <2>1. Says(<<"U">>) \/ Says(<<"VERIFY">>) \/ Says(<<"CRC">>) BY DEF TakePage
  <2> QED BY <1>1, <1>2, <2>1, SaysFits
<1>a. <<>> \in Seq(Bytes) OBVIOUS
<1>5. [boot EXCEPT !.got = <<>>] \in BootRecord BY <1>1, <1>a DEF BootRecord
<1>6. ASSUME NEW n \in PageNumbers, NEW content \in Content
      PROVE  [boot EXCEPT !.got = <<>>, !.flash[n] = content] \in BootRecord
  <2>1. [boot.flash EXCEPT ![n] = content] \in [PageNumbers -> Content]
    <3>1. boot.flash \in [PageNumbers -> Content] BY <1>1 DEF BootRecord
    <3> QED BY <3>1
  <2>2. [boot EXCEPT !.got = <<>>, !.flash[n] = content]
          = [boot EXCEPT !.got = <<>>, !.flash = [boot.flash EXCEPT ![n] = content]]
    BY <1>1 DEF BootRecord
  <2>3. [boot EXCEPT !.got = <<>>, !.flash = [boot.flash EXCEPT ![n] = content]] \in BootRecord
    BY <1>1, <1>a, <2>1 DEF BootRecord
  <2> QED BY <2>2, <2>3
<1>7. \/ boot' = [boot EXCEPT !.got = <<>>]
      \/ \E content \in Content : /\ NumberOf(got) \in PageNumbers
                                /\ boot' = [boot EXCEPT !.got = <<>>,
                                                        !.flash[NumberOf(got)] = content]
  BY DEF TakePage
<1>8. boot' \in BootRecord
  <2>1. CASE boot' = [boot EXCEPT !.got = <<>>] BY <1>5, <2>1
  <2>2. CASE boot' # [boot EXCEPT !.got = <<>>]
    <3>1. PICK content \in Content :
             /\ NumberOf(got) \in PageNumbers
             /\ boot' = [boot EXCEPT !.got = <<>>, !.flash[NumberOf(got)] = content]
      BY <1>7, <2>2
    <3> DEFINE n == NumberOf(got)
    <3>2. n \in PageNumbers /\ boot' = [boot EXCEPT !.got = <<>>, !.flash[n] = content]
      BY <3>1
    <3> HIDE DEF n
    <3> QED BY <1>6, <3>2
  <2> QED BY <2>1, <2>2
<1> QED BY <1>3, <1>4, <1>8

LEMMA StepModuleReads ==
    ASSUME IInv, ModuleReads
    PROVE  LineOK(line') /\ boot' \in BootRecord /\ BackOK(back') /\ faults' \in 0 .. MaxFault
<1>1. /\ boot \in BootRecord /\ BackOK(back) /\ LineOK(line) /\ faults \in 0 .. MaxFault
  BY Parts DEF IInv, TypeOK
<1>2. line # <<>> /\ line' = Tail(line) BY DEF ModuleReads
<1>3. Head(line) \in Bytes /\ LineOK(line') BY <1>1, <1>2, TailFits
<1>4. Head(line).kind \in Kinds BY <1>3 DEF Bytes
<1> DEFINE got == Append(boot.got, Head(line))
<1>5. [boot EXCEPT !.got = got] \in BootRecord
  <2>1. boot.got \in Seq(Bytes) BY <1>1 DEF BootRecord
  <2>2. got \in Seq(Bytes) BY <1>3, <2>1
  <2> HIDE DEF got
  <2> QED BY <1>1, <2>2 DEF BootRecord
<1>6. \/ UNCHANGED <<boot, back, faults>>
      \/ TakeCommand(Head(line).kind) /\ UNCHANGED faults
      \/ boot' = [boot EXCEPT !.got = got] /\ UNCHANGED <<back, faults>>
      \/ TakePage(got)
  BY DEF ModuleReads
<1> HIDE DEF got
<1>7. boot' \in BootRecord /\ BackOK(back') /\ faults' \in 0 .. MaxFault
  BY <1>1, <1>4, <1>5, <1>6, CommandTaken, PageTaken
<1> QED BY <1>3, <1>7

LEMMA StepModuleResets ==
    ASSUME IInv, ModuleResets
    PROVE  boot' \in BootRecord /\ faults' \in 0 .. MaxFault
<1>1. boot \in BootRecord /\ faults \in 0 .. MaxFault BY DEF IInv, TypeOK
<1> DEFINE phase == IF source.broken THEN "boot" ELSE "app"
<1>a. boot' = [boot EXCEPT !.phase = phase, !.baud = "slow", !.got = <<>>] BY DEF ModuleResets
<1>b. phase \in {"app", "boot"} OBVIOUS
<1> HIDE DEF phase
<1>c. <<>> \in Seq(Bytes) OBVIOUS
<1>2. boot' \in BootRecord BY <1>1, <1>a, <1>b, <1>c DEF BootRecord
<1>3. faults' \in 0 .. MaxFault BY <1>1, Gen3Assumption DEF ModuleResets, Spend
<1> QED BY <1>2, <1>3

LEMMA StepFault ==
    ASSUME IInv, Fault
    PROVE  /\ LineOK(line') /\ BackOK(back') /\ faults' \in 0 .. MaxFault /\ forged' \in BOOLEAN
<1>1. LineOK(line) /\ BackOK(back) /\ faults \in 0 .. MaxFault /\ forged \in BOOLEAN
  BY Parts DEF IInv, TypeOK
<1>2. faults' \in 0 .. MaxFault BY <1>1, Gen3Assumption DEF Fault, Spend
<1>3. \A byte \in Bytes : Damaged(byte) \subseteq Bytes
  BY ByteIs, Gen3Assumption DEF Damaged, Kinds
<1>4. CASE LineFails
  <2>1. line # <<>> /\ UNCHANGED <<back, forged>> BY <1>4 DEF LineFails
  <2>2. /\ Head(line) \in Bytes /\ LineOK(Tail(line))
        /\ \A byte \in Bytes : LineOK(<<byte>> \o Tail(line))
    BY <1>1, <2>1, TailFits
  <2>3. \/ line' = Tail(line)
        \/ \E byte \in Damaged(Head(line)) : line' = <<byte>> \o Tail(line)
    BY <1>4 DEF LineFails
  <2>4. Damaged(Head(line)) \subseteq Bytes BY <1>3, <2>2
  <2> QED BY <1>1, <1>2, <2>1, <2>2, <2>3, <2>4
<1>5. CASE AnswerLost
  <2>1. back' = Left /\ UNCHANGED <<line, forged>> BY <1>5 DEF AnswerLost, Left
  <2> QED BY <1>1, <1>2, <2>1, LeftFits
<1>6. CASE AnswerForged
  <2>1. ASSUME NEW ch \in Chars, back # <<>>, back' = <<ch>> \o Tail(back)
        PROVE  BackOK(back')
    <3>1. Tail(back) \in Seq(Chars) /\ Len(Tail(back)) = Len(back) - 1 BY <1>1, <2>1 DEF BackOK
    <3>2. <<ch>> \o Tail(back) \in Seq(Chars) /\ Len(<<ch>> \o Tail(back)) = Len(back)
      BY <1>1, <3>1 DEF BackOK
    <3> QED BY <1>1, <2>1, <3>2 DEF BackOK
  <2>2. ASSUME NEW ch \in Chars, Len(back) < RxRoom, back' = Append(back, ch)
        PROVE  BackOK(back')
    BY <1>1, <2>2, Gen3Assumption DEF BackOK
  <2>3. forged' = TRUE /\ UNCHANGED line BY <1>6 DEF AnswerForged
  <2> QED BY <1>1, <1>2, <1>6, <2>1, <2>2, <2>3 DEF AnswerForged
<1> QED BY <1>4, <1>5, <1>6 DEF Fault

LEMMA StepTimePasses ==
    ASSUME IInv, TimePasses
    PROVE  Sound(source') /\ idle' \in 0 .. MaxGap
<1>1. source \in SourceRecord /\ idle \in 0 .. MaxGap BY DEF IInv, TypeOK
<1>2. idle' \in 0 .. MaxGap BY <1>1, Gen3Assumption DEF TimePasses
<1> DEFINE age == IF source.age + 1 \in Times THEN source.age + 1 ELSE source.age
<1>3. source' = [source EXCEPT !.age = age] BY DEF TimePasses
<1>4. age \in Times BY <1>1 DEF SourceRecord
<1> HIDE DEF age
<1>5. /\ source' \in SourceRecord /\ source'.pos = source.pos
      /\ source'.page_num = source.page_num /\ source'.buffer = source.buffer
      /\ source'.eof = source.eof /\ source'.state = source.state
  BY <1>1, <1>3, <1>4 DEF SourceRecord
<1> QED BY <1>2, <1>5, Parts, StaysCoupled DEF Sound

-----------------------------------------------------------------------------
(* The theorems *)

LEMMA InitInvariant ==
    ASSUME Init
    PROVE  IInv
<1>1. ImageType BY DEF Init, ImageType
<1>2. 0 \in PageNumbers /\ 0 <= Pages BY <1>1, PagesCounted
<1>3. source \in SourceRecord /\ source.pos = 0 /\ source.page_num = 0 /\ source.state = "INIT"
      /\ ~source.eof
  <2>1. 0 \in Times /\ 0 \in Nat /\ 0 \in -1 .. PageSize /\ Junk \in Content /\ "INIT" \in States
    BY TimesAreNatural, NextStates, Gen3Assumption DEF Content
  <2>a. {""} \subseteq Texts BY DEF Texts
  <2>2. source \in [state : {"INIT"}, age : {0}, retries : {0}, eof : {FALSE}, query : BOOLEAN,
                    proto1 : {FALSE}, page_num : {0}, page_offset : {0}, buffer : {Junk},
                    text : {""}, baud : {"none"}, broken : {FALSE}, pos : {0}, ret : {"EAGAIN"}]
    BY DEF Init
  <2> QED BY <1>2, <2>1, <2>a, <2>2 DEF SourceRecord
<1>4. boot \in BootRecord
  <2>1. [k \in PageNumbers |-> OldPage] \in [PageNumbers -> Content] BY DEF Content
  <2>2. <<>> \in Seq(Bytes) OBVIOUS
  <2> QED BY <2>1, <2>2 DEF Init, BootRecord
<1>5. line = <<>> /\ back = <<>> /\ idle = 0 /\ forged = FALSE /\ faults \in {0, MaxFault}
  BY DEF Init
<1>6. Coupled(source) BY <1>2, <1>3, NextStates DEF Coupled, Early
<1>7. line \in Seq(Bytes) /\ Len(line) <= Room BY <1>5, Gen3Assumption
<1>8. back \in Seq(Chars) /\ Len(back) <= RxRoom BY <1>5, Gen3Assumption
<1>9. idle \in 0 .. MaxGap /\ faults \in 0 .. MaxFault /\ forged \in BOOLEAN
  <2>1. MaxGap \in Nat /\ MaxFault \in Nat BY Gen3Assumption
  <2>2. idle = 0 /\ faults \in {0, MaxFault} BY <1>5
  <2>3. forged \in BOOLEAN BY <1>5
  <2> QED BY <2>1, <2>2, <2>3
<1> QED BY <1>1, <1>3, <1>4, <1>6, <1>7, <1>8, <1>9 DEF IInv, TypeOK

LEMMA TickStep ==
    ASSUME IInv, Tick
    PROVE  Stepped
BY StepInitialise, StepEnterBootloader, StepGetVersion, StepVersion, StepProtocol, StepBaudRate,
   StepExtVersion, StepStartTransfer, StepSendPage, StepNextPage, StepSamePage, StepVerify
   DEF Tick

LEMMA StepInvariant ==
    ASSUME IInv, [Next]_vars
    PROVE  IInv'
<1>1. ImageType /\ source \in SourceRecord /\ Coupled(source) /\ boot \in BootRecord
      /\ LineOK(line) /\ BackOK(back) /\ faults \in 0 .. MaxFault
      /\ idle \in 0 .. MaxGap /\ forged \in BOOLEAN
  BY Parts DEF IInv, TypeOK
<1>2. UNCHANGED image
  BY DEF Next, vars, Tick, ModuleReads, ModuleResets, Fault, TimePasses
<1>3. /\ Sound(source') /\ LineOK(line') /\ BackOK(back') /\ boot' \in BootRecord
      /\ idle' \in 0 .. MaxGap /\ faults' \in 0 .. MaxFault /\ forged' \in BOOLEAN
  <2>1. CASE Tick
    <3>1. idle' = 0 /\ UNCHANGED <<boot, forged>> BY <2>1 DEF Tick
    <3> QED BY <1>1, <2>1, <3>1, TickStep, Gen3Assumption DEF Stepped
  <2>2. CASE ModuleReads
    <3>1. UNCHANGED <<source, idle, forged>> BY <2>2 DEF ModuleReads
    <3> QED BY <1>1, <2>2, <3>1, StepModuleReads DEF Sound
  <2>3. CASE ModuleResets
    <3>1. UNCHANGED <<source, line, back, idle, forged>> BY <2>3 DEF ModuleResets
    <3> QED BY <1>1, <2>3, <3>1, StepModuleResets DEF Sound
  <2>4. CASE Fault
    <3>1. UNCHANGED <<source, boot, idle>> BY <2>4 DEF Fault
    <3> QED BY <1>1, <2>4, <3>1, StepFault DEF Sound
  <2>5. CASE TimePasses
    <3>1. UNCHANGED <<line, back, boot, faults, forged>> BY <2>5 DEF TimePasses
    <3> QED BY <1>1, <2>5, <3>1, StepTimePasses
  <2>6. CASE UNCHANGED vars BY <1>1, <2>6 DEF Sound, vars
  <2> QED BY <2>1, <2>2, <2>3, <2>4, <2>5, <2>6 DEF Next
<1>4. TypeOK' BY <1>3 DEF TypeOK, Sound, LineOK, BackOK
<1>5. ImageType' BY <1>1, <1>2 DEF ImageType
<1>6. Coupled(source)'
  BY <1>2, <1>3 DEF Sound, Coupled, Blank, HasData, Pages
<1> QED BY <1>4, <1>5, <1>6 DEF IInv

LEMMA Invariance == Spec => []IInv
BY InitInvariant, StepInvariant, PTL DEF Spec

\* TypeOK of an update: its state, the line and the flash stay well formed, and no page
\* number leaves the image by more than one, for images of any length and any faults.
THEOREM TypeCorrect == Spec => []TypeOK
<1>1. IInv => TypeOK BY DEF IInv
<1> QED BY <1>1, Invariance, PTL

\* InPlace of _load_page() and _send_page(): what is sent under a number is the page of
\* the image that has that number, for images of any length with any pages left out.
THEOREM PagesInPlace == Spec => []InPlace
<1>1. IInv => InPlace BY NextStates DEF IInv, InPlace, Coupled
<1> QED BY <1>1, Invariance, PTL
-----------------------------------------------------------------------------
(* Questions and answers *)

\* The command whose answer a state waits for.
Asks == [BL_VERSION |-> "B", BL_PROTOCOL |-> "L", BAUD_RATE |-> "R", EXT_VERSION |-> "V",
         START_TRANSFER |-> "I", VERIFY |-> "C"]

\* Nothing is under way.
Quiet == line = <<>> /\ back = <<>> /\ boot.got = <<>>

\* The command is on the line, whole or spoilt, or (a part of) its answer waits, or neither:
\* a `U' is the last character of an answer, and "1" is said by a module of the new protocol.
Asked(kind) ==
    /\ boot.got = <<>>
    /\ line # <<>> => back = <<>> /\ \E byte \in Bytes : line = <<byte>> /\ byte.kind \in {kind, "stray"}
    /\ \/ back = <<>>
       \/ \E ch \in Chars : back = <<ch>> /\ (ch = "1" => boot.proto1)
       \/ \E ch \in Chars : back = <<ch, "U">> /\ ch # "U" /\ (ch = "1" => boot.proto1)

\* A page is under way: what the module has of it, what is on the line and what is to come
\* are no more than it reads before it answers.  No byte of them starts another command, and
\* no page of the old firmware is among them.
PageKinds == {"P", "num", "high", "data", "sum", "stray"}
PageByte == {byte \in Bytes : byte.kind \in PageKinds /\ (byte.kind = "data" => byte.v # OldPage)}
SumLength(proto1) == IF proto1 THEN 2 ELSE 1
Unsent == IF source.state = "SEND_PAGE"
          THEN PageSize - source.page_offset + SumLength(source.proto1) ELSE 0
Counted ==
    /\ line \in Seq(PageByte) /\ boot.got \in Seq(PageByte)
    /\ Len(boot.got) + Len(line) + Unsent <= PageLength
    /\ \/ back = <<>>
       \/ /\ source.state = "LOAD_PAGE" /\ line = <<>> /\ boot.got = <<>>
          /\ \E ch \in Chars : back = <<ch>>

\* The old firmware is gone.
Gone == \A k \in PageNumbers : boot.flash[k] # OldPage

Exchanged ==
    /\ source.state \in {"INIT", "ENTER_BOOTLOADER", "GET_BL_VERSION"} => Quiet
    /\ source.state \in DOMAIN Asks => Asked(Asks[source.state])
    /\ source.state = "SEND_PAGE" /\ source.page_offset < 0 => Quiet
    /\ source.state = "SEND_PAGE" /\ source.page_offset >= 0 => Counted
    /\ source.state = "LOAD_PAGE" => Counted
Flashed ==
    /\ source.state = "START_TRANSFER" /\ back # <<>> => Gone
    /\ source.state \in {"SEND_PAGE", "LOAD_PAGE", "VERIFY"} => Gone
    /\ source.state = "VERIFY" => back \in {<<>>, <<"U">>, <<"FAIL">>} /\ (back = <<"U">> => Installed)
    /\ source.ret = "0" /\ ~source.query => Installed /\ line = <<>>
Orderly ==
    /\ Exchanged /\ Flashed
    /\ source.proto1 => boot.proto1
    /\ source.buffer # OldPage

\* The commands the states wait for.
LEMMA AsksIs ==
    /\ DOMAIN Asks = {"BL_VERSION", "BL_PROTOCOL", "BAUD_RATE", "EXT_VERSION",
                      "START_TRANSFER", "VERIFY"}
    /\ Asks["BL_VERSION"] = "B" /\ Asks["BL_PROTOCOL"] = "L" /\ Asks["BAUD_RATE"] = "R"
    /\ Asks["EXT_VERSION"] = "V" /\ Asks["START_TRANSFER"] = "I" /\ Asks["VERIFY"] = "C"
BY DEF Asks

\* What a change of state, the time limit and a return leave alone.
Same(s, t) ==
    t.page_offset = s.page_offset /\ t.proto1 = s.proto1 /\ t.query = s.query /\ t.buffer = s.buffer

LEMMA NextSame ==
    ASSUME NEW s \in SourceRecord, s.state \in DOMAIN After
    PROVE  Same(s, NextState(s)) /\ NextState(s).state = After[s.state] /\ NextState(s).ret = s.ret
<1> DEFINE t == NextState(s)
<1>1. /\ t.page_offset = s.page_offset /\ t.proto1 = s.proto1 /\ t.query = s.query
      /\ t.buffer = s.buffer /\ t.state = After[s.state] /\ t.ret = s.ret
  BY DEF NextState, SourceRecord
<1> HIDE DEF t
<1>2. Same(s, t) BY <1>1 DEF Same
<1> QED BY <1>1, <1>2 DEF t

LEMMA TimeoutSame ==
    ASSUME NEW s \in SourceRecord
    PROVE  /\ Same(s, Timeout(s))
           /\ \/ Timeout(s).state = s.state /\ Timeout(s).ret = s.ret
              \/ Timeout(s).state = "FAILURE" /\ Timeout(s).ret = "ETIMEDOUT"
<1>1. CASE s.age > LoadTimeout
  <2> DEFINE t == Timeout(s)
  <2>1. t = [s EXCEPT !.ret = "ETIMEDOUT", !.state = "FAILURE"]
    BY <1>1 DEF Timeout, Returns
  <2> HIDE DEF t
  <2>2. /\ t.page_offset = s.page_offset /\ t.proto1 = s.proto1 /\ t.query = s.query
        /\ t.buffer = s.buffer /\ t.state = "FAILURE" /\ t.ret = "ETIMEDOUT"
    BY <2>1 DEF SourceRecord
  <2>3. Same(s, t) BY <2>2 DEF Same
  <2> QED BY <2>2, <2>3 DEF t
<1>2. CASE ~(s.age > LoadTimeout) BY <1>2 DEF Timeout, Same
<1> QED BY <1>1, <1>2

LEMMA ReturnsSame ==
    ASSUME NEW s \in SourceRecord, NEW ret
    PROVE  /\ Same(s, Returns(s, ret)) /\ Returns(s, ret).ret = ret
           /\ Returns(s, ret).state = IF ret = "0" THEN "SUCCESS" ELSE "FAILURE"
<1> DEFINE t == Returns(s, ret)
           st == IF ret = "0" THEN "SUCCESS" ELSE "FAILURE"
<1>1. t = [s EXCEPT !.ret = ret, !.state = st] BY DEF Returns
<1> HIDE DEF t, st
<1>2. /\ t.page_offset = s.page_offset /\ t.proto1 = s.proto1 /\ t.query = s.query
      /\ t.buffer = s.buffer /\ t.state = st /\ t.ret = ret
  BY <1>1 DEF SourceRecord
<1>3. Same(s, t) BY <1>2 DEF Same
<1> QED BY <1>2, <1>3 DEF t, st

\* The update is over, and is no success.
LEMMA Ended ==
    ASSUME Orderly, UNCHANGED boot, source'.state \in {"FAILURE", "SUCCESS"},
           source'.ret # "0" \/ source'.query,
           source'.proto1 = source.proto1, source'.buffer # OldPage
    PROVE  Orderly'
BY AsksIs DEF Orderly, Exchanged, Flashed

\* Answers are one or two characters long.
LEMMA Answered ==
    ASSUME NEW kind, Asked(kind)
    PROVE  /\ back # <<>> => line = <<>>
           /\ Got = "U" => back = <<"U">> /\ Left = <<>>
           /\ Len(back) >= 2 => line = <<>> /\ Tail(Tail(back)) = <<>>
           /\ Got = "1" => boot.proto1
           /\ boot.got = <<>>
<1>1. CASE back = <<>> BY <1>1 DEF Asked, Got, Left
<1>2. CASE \E ch \in Chars : back = <<ch>> /\ (ch = "1" => boot.proto1)
  BY <1>2 DEF Asked, Got, Left
<1>3. CASE \E ch \in Chars : back = <<ch, "U">> /\ ch # "U" /\ (ch = "1" => boot.proto1)
  BY <1>3 DEF Asked, Got, Left
<1> QED BY <1>1, <1>2, <1>3 DEF Asked

\* A character of an answer is read, or none.
LEMMA AskedStill ==
    ASSUME NEW kind, Asked(kind), UNCHANGED <<line, boot>>, back' \in {back, Left}
    PROVE  Asked(kind)'
<1>1. CASE back = <<>> BY <1>1 DEF Asked, Left
<1>2. CASE \E ch \in Chars : back = <<ch>> /\ (ch = "1" => boot.proto1)
  BY <1>2 DEF Asked, Left
<1>3. CASE \E ch \in Chars : back = <<ch, "U">> /\ ch # "U" /\ (ch = "1" => boot.proto1)
  <2>1. PICK ch \in Chars : back = <<ch, "U">> /\ ch # "U" /\ (ch = "1" => boot.proto1)
    BY <1>3
  <2>2. Left = <<"U">> /\ back # <<>> BY <2>1 DEF Left
  <2>3. "U" \in Chars /\ "U" # "1" BY DEF Chars
  <2>4. line' = <<>> BY <2>2 DEF Asked
  <2>5. CASE back' = <<"U">> BY <2>3, <2>4, <2>5 DEF Asked
  <2>6. CASE back' = back BY <2>1, <2>4, <2>6 DEF Asked
  <2> QED BY <2>2, <2>5, <2>6
<1> QED BY <1>1, <1>2, <1>3 DEF Asked

\* The next command is written when the answer to the last one has been read.
LEMMA AskedNext ==
    ASSUME NEW kind \in {"B", "L", "R", "V", "I", "C"}, line = <<>>, boot.got = <<>>,
           line' = Put(Command(kind)), back' = <<>>, UNCHANGED boot
    PROVE  Asked(kind)'
<1>1. Command(kind) \in Bytes /\ Command(kind).kind = kind
  BY DEF Command, Byte, Bytes, Kinds
<1>2. line' = <<Command(kind)>> BY Gen3Assumption DEF Put, Free
<1> DEFINE byte == Command(kind)
<1>3. byte \in Bytes /\ byte.kind = kind /\ line' = <<byte>> BY <1>1, <1>2
<1> HIDE DEF byte
<1>4. \E b \in Bytes : line' = <<b>> /\ b.kind \in {kind, "stray"} BY <1>3
<1> QED BY <1>4 DEF Asked

\* A state of its own that waits for an answer, and has no firmware to account for.
LEMMA InState ==
    ASSUME NEW st \in {"BL_VERSION", "BL_PROTOCOL", "BAUD_RATE", "EXT_VERSION"},
           source'.state = st, Asked(Asks[st])', source'.ret # "0",
           source'.proto1 => boot'.proto1, source'.buffer # OldPage
    PROVE  Orderly'
<1>1. st \in DOMAIN Asks BY AsksIs
<1>2. Asked(Asks[source.state])' BY AsksIs DEF Asked
<1> QED BY <1>1, <1>2 DEF Orderly, Exchanged, Flashed

\* What the invariants say of a running tick.
LEMMA Runs ==
    ASSUME IInv, Orderly, NEW st, Running(st)
    PROVE  /\ source \in SourceRecord /\ source.state = st /\ source.ret = "EAGAIN"
           /\ source.buffer # OldPage /\ (source.proto1 => boot.proto1)
           /\ st \in DOMAIN Asks => Asked(Asks[st])
BY Parts DEF Running, Orderly, Exchanged

LEMMA OrderInitialise ==
    ASSUME IInv, Orderly, Initialise, UNCHANGED boot
    PROVE  Orderly'
<1>1. source \in SourceRecord /\ source.state = "INIT" /\ source.ret = "EAGAIN"
  BY Runs DEF Initialise
<1> DEFINE s == NextState(source)
<1>2. Same(source, s) /\ s.state = "ENTER_BOOTLOADER" /\ s.ret = "EAGAIN" /\ s \in SourceRecord
  BY <1>1, NextSame, NextStates, NextStateIs
<1>3. source' = [s EXCEPT !.baud = "slow", !.broken = TRUE] BY DEF Initialise
<1> HIDE DEF s
<1>4. /\ source'.state = "ENTER_BOOTLOADER" /\ source'.ret = "EAGAIN"
      /\ source'.proto1 = s.proto1 /\ source'.buffer = s.buffer
  BY <1>2, <1>3 DEF SourceRecord
<1>5. Quiet' /\ source'.proto1 = source.proto1 /\ source'.buffer = source.buffer
  BY <1>1, <1>2, <1>4 DEF Initialise, Orderly, Exchanged, Quiet, Same
<1> QED BY <1>4, <1>5, AsksIs DEF Orderly, Exchanged, Flashed

LEMMA OrderEnterBootloader ==
    ASSUME IInv, Orderly, EnterBootloader, UNCHANGED boot
    PROVE  Orderly'
<1>1. source \in SourceRecord /\ source.state = "ENTER_BOOTLOADER" /\ source.ret = "EAGAIN"
  BY Runs DEF EnterBootloader
<1>2. Quiet' BY <1>1 DEF EnterBootloader, Orderly, Exchanged, Quiet
<1>3. CASE source' = NextState(source)
  <2>1. Same(source, source') /\ source'.state = "GET_BL_VERSION" /\ source'.ret = "EAGAIN"
    BY <1>1, <1>3, NextSame, NextStates
  <2> QED BY <1>2, <2>1, AsksIs DEF Orderly, Exchanged, Flashed, Same
<1>4. CASE source' = Timeout(source)
  <2>1. /\ Same(source, source')
        /\ \/ source'.state = "ENTER_BOOTLOADER" /\ source'.ret = "EAGAIN"
           \/ source'.state = "FAILURE" /\ source'.ret = "ETIMEDOUT"
    BY <1>1, <1>4, TimeoutSame
  <2>2. CASE source'.state = "FAILURE" BY <2>1, <2>2, Ended DEF Same, Orderly
  <2>3. CASE source'.state = "ENTER_BOOTLOADER"
    BY <1>2, <2>1, <2>3, AsksIs DEF Orderly, Exchanged, Flashed, Same
  <2> QED BY <2>1, <2>2, <2>3
<1> QED BY <1>3, <1>4 DEF EnterBootloader

LEMMA OrderGetVersion ==
    ASSUME IInv, Orderly, GetVersion, UNCHANGED boot
    PROVE  Orderly'
<1>1. source \in SourceRecord /\ source.state = "GET_BL_VERSION" /\ source.ret = "EAGAIN"
  BY Runs DEF GetVersion
<1>2. Quiet BY <1>1 DEF Orderly, Exchanged
<1>3. CASE source.age > ReadyWait
  <2> DEFINE s == NextState(source)
  <2>1. Same(source, s) /\ s.state = "BL_VERSION" /\ s.ret = "EAGAIN" /\ s \in SourceRecord
    BY <1>1, NextSame, NextStates, NextStateIs
  <2>2. /\ source' = [s EXCEPT !.broken = FALSE]
        /\ line' = Put(Command("B")) /\ back' = <<>>
    BY <1>3 DEF GetVersion
  <2> HIDE DEF s
  <2>3. /\ source'.state = "BL_VERSION" /\ source'.ret = "EAGAIN"
        /\ source'.proto1 = s.proto1 /\ source'.buffer = s.buffer
    BY <2>1, <2>2 DEF SourceRecord
  <2>4. Asked("B")' BY <1>2, <2>2, AskedNext DEF Quiet
  <2>5. Asked(Asks["BL_VERSION"])' BY <2>4, AsksIs DEF Asked
  <2> QED BY <2>1, <2>3, <2>5, InState DEF Orderly, Same
<1>4. CASE ~(source.age > ReadyWait)
  <2>1. source' = Timeout(source) /\ UNCHANGED <<line, back>> BY <1>4 DEF GetVersion
  <2>2. /\ Same(source, source')
        /\ \/ source'.state = "GET_BL_VERSION" /\ source'.ret = "EAGAIN"
           \/ source'.state = "FAILURE" /\ source'.ret = "ETIMEDOUT"
    BY <1>1, <2>1, TimeoutSame
  <2>3. CASE source'.state = "FAILURE" BY <2>2, <2>3, Ended DEF Same, Orderly
  <2>4. CASE source'.state = "GET_BL_VERSION"
    <3>1. Quiet' BY <1>2, <2>1 DEF Quiet
    <3> QED BY <2>2, <2>4, <3>1, AsksIs DEF Orderly, Exchanged, Flashed, Same
  <2> QED BY <2>2, <2>3, <2>4
<1> QED BY <1>3, <1>4

\* A tick that waits on, or gives up.
LEMMA Waits ==
    ASSUME IInv, Orderly, UNCHANGED <<line, boot>>, back' \in {back, Left},
           NEW st \in {"BL_VERSION", "BL_PROTOCOL", "BAUD_RATE", "EXT_VERSION"},
           source.state = st, source.ret = "EAGAIN", NEW s \in SourceRecord, source' = Timeout(s),
           s.state = st, s.ret = "EAGAIN", s.buffer = source.buffer, s.query = source.query,
           s.proto1 => boot.proto1
    PROVE  Orderly'
<1>1. /\ Same(s, source')
      /\ \/ source'.state = st /\ source'.ret = "EAGAIN"
         \/ source'.state = "FAILURE" /\ source'.ret = "ETIMEDOUT"
  BY TimeoutSame
<1>2. Asked(Asks[st]) BY AsksIs DEF Orderly, Exchanged
<1>3. Asked(Asks[st])' BY <1>2, AskedStill DEF Asks
<1>4. (source'.proto1 => boot'.proto1) /\ source'.buffer # OldPage
  BY <1>1 DEF Same, Orderly
<1>5. CASE source'.state = st BY <1>1, <1>3, <1>4, <1>5, InState
<1>6. CASE source'.state = "FAILURE"
  BY <1>1, <1>4, <1>6, AsksIs DEF Orderly, Exchanged, Flashed
<1> QED BY <1>1, <1>5, <1>6

LEMMA OrderVersion ==
    ASSUME IInv, Orderly, Version, UNCHANGED boot
    PROVE  Orderly'
<1>1. /\ source \in SourceRecord /\ source.state = "BL_VERSION" /\ source.ret = "EAGAIN"
      /\ Asked("B")
  BY Runs, AsksIs DEF Version
<1>2. CASE Len(back) >= 2
  <2>1. source' = NextState(source) /\ line' = Put(Command("L")) /\ back' = Tail(Tail(back))
    BY <1>2 DEF Version
  <2>2. Same(source, source') /\ source'.state = "BL_PROTOCOL" /\ source'.ret = "EAGAIN"
    BY <1>1, <2>1, NextSame, NextStates
  <2>3. line = <<>> /\ back' = <<>> /\ boot.got = <<>> BY <1>1, <1>2, <2>1, Answered
  <2>4. Asked("L")' BY <2>1, <2>3, AskedNext
  <2>5. Asked(Asks["BL_PROTOCOL"])' BY <2>4, AsksIs DEF Asked
  <2> QED BY <2>2, <2>5, InState DEF Orderly, Same
<1>3. CASE ~(Len(back) >= 2)
  <2>1. source' = Timeout(source) /\ UNCHANGED <<line, back>> BY <1>3 DEF Version
  <2> QED BY <1>1, <2>1, Waits DEF Orderly
<1> QED BY <1>2, <1>3

LEMMA OrderProtocol ==
    ASSUME IInv, Orderly, Protocol, UNCHANGED boot
    PROVE  Orderly'
<1>1. /\ source \in SourceRecord /\ source.state = "BL_PROTOCOL" /\ source.ret = "EAGAIN"
      /\ Asked("L") /\ back' = Left
  BY Runs, AsksIs DEF Protocol
<1>2. CASE Got = "1"
  <2> DEFINE s == [source EXCEPT !.proto1 = TRUE]
  <2>1. /\ s \in SourceRecord /\ s.state = "BL_PROTOCOL" /\ s.ret = "EAGAIN"
        /\ s.buffer = source.buffer /\ s.query = source.query /\ s.proto1
    BY <1>1 DEF SourceRecord
  <2>2. source' = Timeout(s) /\ line' = line BY <1>2 DEF Protocol
  <2>3. boot.proto1 BY <1>1, <1>2, Answered
  <2> HIDE DEF s
  <2> QED BY <1>1, <2>1, <2>2, <2>3, Waits
<1>3. CASE Got = "U"
  <2> DEFINE s == NextState(source)
  <2>1. Same(source, s) /\ s.state = "BAUD_RATE" /\ s.ret = "EAGAIN" /\ s \in SourceRecord
    BY <1>1, NextSame, NextStates, NextStateIs
  <2>2. source' = [s EXCEPT !.page_offset = 0, !.text = ""] /\ line' = Put(Command("R"))
    BY <1>3 DEF Protocol
  <2> HIDE DEF s
  <2>3. /\ source'.state = "BAUD_RATE" /\ source'.ret = "EAGAIN"
        /\ source'.proto1 = s.proto1 /\ source'.buffer = s.buffer
    BY <2>1, <2>2 DEF SourceRecord
  <2>4. line = <<>> /\ back' = <<>> /\ boot.got = <<>>
    <3>1. back = <<"U">> /\ Left = <<>> BY <1>1, <1>3, Answered
    <3>2. back # <<>> BY <3>1
    <3> QED BY <1>1, <3>1, <3>2, Answered
  <2>5. Asked("R")' BY <2>2, <2>4, AskedNext
  <2>6. Asked(Asks["BAUD_RATE"])' BY <2>5, AsksIs DEF Asked
  <2> QED BY <2>1, <2>3, <2>6, InState DEF Orderly, Same
<1>4. CASE Got \notin {"1", "U"}
  <2>1. source' = Timeout(source) /\ line' = line BY <1>4 DEF Protocol
  <2> QED BY <1>1, <2>1, Waits DEF Orderly
<1> QED BY <1>2, <1>3, <1>4

LEMMA OrderBaudRate ==
    ASSUME IInv, Orderly, BaudRate, UNCHANGED boot
    PROVE  Orderly'
<1>a. back' = Left /\ Running("BAUD_RATE") BY DEF BaudRate
<1>1. /\ source \in SourceRecord /\ source.state = "BAUD_RATE" /\ source.ret = "EAGAIN"
      /\ Asked("R") /\ back' = Left
  BY <1>a, Runs, AsksIs
<1>2. CASE Got = "U"
  <2> DEFINE s == NextState(source)
             rate == IF source.text = "text" THEN "fast" ELSE "none"
  <2>1. Same(source, s) /\ s.state = "EXT_VERSION" /\ s.ret = "EAGAIN" /\ s \in SourceRecord
    BY <1>1, NextSame, NextStates, NextStateIs
  <2>2. source' = [s EXCEPT !.baud = rate] /\ line' = Put(Command("V"))
    BY <1>2 DEF BaudRate
  <2> HIDE DEF s, rate
  <2>3. /\ source'.state = "EXT_VERSION" /\ source'.ret = "EAGAIN"
        /\ source'.proto1 = s.proto1 /\ source'.buffer = s.buffer
    BY <2>1, <2>2 DEF SourceRecord
  <2>4. line = <<>> /\ back' = <<>> /\ boot.got = <<>>
    <3>1. back = <<"U">> /\ Left = <<>> BY <1>1, <1>2, Answered
    <3>2. back # <<>> BY <3>1
    <3> QED BY <1>1, <3>1, <3>2, Answered
  <2>5. Asked("V")' BY <2>2, <2>4, AskedNext
  <2>6. Asked(Asks["EXT_VERSION"])' BY <2>5, AsksIs DEF Asked
  <2> QED BY <2>1, <2>3, <2>6, InState DEF Orderly, Same
<1>3. CASE Got = "none"
  <2>1. source' = Timeout(source) /\ line' = line BY <1>3 DEF BaudRate
  <2> QED BY <1>1, <2>1, Waits DEF Orderly
<1>4. CASE Got \notin {"U", "none"}
  <2> DEFINE text == IF source.text = "" /\ Got = "text" THEN "text" ELSE "?"
             s == [source EXCEPT !.text = text]
  <2>a. source' = Timeout(s) BY <1>4 DEF BaudRate
  <2>b. line' = line BY <1>4 DEF BaudRate
  <2>1. source' = Timeout(s) /\ line' = line BY <2>a, <2>b
  <2>2. text \in Texts BY DEF Texts
  <2> HIDE DEF text
  <2>3. /\ s \in SourceRecord /\ s.state = "BAUD_RATE" /\ s.ret = "EAGAIN"
        /\ s.buffer = source.buffer /\ s.query = source.query /\ s.proto1 = source.proto1
    BY <1>1, <2>2 DEF SourceRecord
  <2> HIDE DEF s
  <2> QED BY <1>1, <2>1, <2>3, Waits DEF Orderly
<1> QED BY <1>2, <1>3, <1>4

LEMMA OrderExtVersion ==
    ASSUME IInv, Orderly, ExtVersion, UNCHANGED boot
    PROVE  Orderly'
<1>1. /\ source \in SourceRecord /\ source.state = "EXT_VERSION" /\ source.ret = "EAGAIN"
      /\ Asked("V")
  BY Runs, AsksIs DEF ExtVersion
<1>2. CASE Len(back) < 2
  <2>1. source' = Timeout(source) /\ UNCHANGED <<line, back>> BY <1>2 DEF ExtVersion
  <2> QED BY <1>1, <2>1, Waits DEF Orderly
<1>3. CASE ~(Len(back) < 2) /\ source.query
  <2>1. source' = Returns(source, "0") BY <1>3 DEF ExtVersion
  <2>2. Same(source, source') /\ source'.state = "SUCCESS"
    BY <1>1, <2>1, ReturnsSame
  <2> QED BY <1>3, <2>2, Ended DEF Same, Orderly
<1>4. CASE ~(Len(back) < 2) /\ ~source.query
  <2>1. source' = NextState(source) /\ line' = Put(Command("I")) /\ back' = Tail(Tail(back))
    BY <1>4 DEF ExtVersion
  <2>2. Same(source, source') /\ source'.state = "START_TRANSFER" /\ source'.ret = "EAGAIN"
    BY <1>1, <2>1, NextSame, NextStates
  <2>3. Len(back) >= 2
    <3>1. Len(back) \in Nat BY Parts DEF BackOK
    <3> QED BY <1>4, <3>1
  <2>4. line = <<>> /\ back' = <<>> /\ boot.got = <<>> BY <1>1, <2>1, <2>3, Answered
  <2>5. Asked("I")' BY <2>1, <2>4, AskedNext
  <2>6. Asked(Asks[source.state])' BY <2>2, <2>5, AsksIs DEF Asked
  <2>7. Exchanged' BY <2>2, <2>6 DEF Exchanged
  <2> QED BY <2>2, <2>4, <2>7 DEF Orderly, Flashed, Same
<1> QED BY <1>2, <1>3, <1>4

\* A page that is loaded is no page of the old firmware.
LEMMA PageLoadedSame ==
    ASSUME ImageType, NEW s \in SourceRecord, s.buffer # OldPage, s.eof \/ s.pos <= Pages
    PROVE  LET t == LoadPage(s)
           IN  /\ t.page_offset = s.page_offset /\ t.proto1 = s.proto1 /\ t.query = s.query
               /\ t.state = s.state /\ t.ret = s.ret /\ t.buffer # OldPage
<1>1. CASE s.eof BY <1>1 DEF LoadPage
<1>2. CASE ~s.eof /\ Remaining(s) = {}
  <2> DEFINE b == IF s.pos < Pages THEN Junk ELSE s.buffer
             n == s.page_num + Pages - s.pos
             t == LoadPage(s)
  <2>1. t = Loaded(s, TRUE, n, Pages, b) BY <1>2 DEF LoadPage, Loaded
  <2>2. b # OldPage BY DEF Junk, OldPage
  <2> HIDE DEF b, n, t
  <2>3. /\ t.page_offset = s.page_offset /\ t.proto1 = s.proto1 /\ t.query = s.query
        /\ t.state = s.state /\ t.ret = s.ret /\ t.buffer = b
    BY <2>1 DEF Loaded, SourceRecord
  <2> QED BY <2>2, <2>3 DEF t
<1>3. CASE ~s.eof /\ Remaining(s) # {}
  <2> DEFINE k == Min(Remaining(s))
             e == k = Pages - 1 /\ ~image.full
             n == s.page_num + k - s.pos
             p == k + 1
             t == LoadPage(s)
  <2>1. t = Loaded(s, e, n, p, k) BY <1>3 DEF LoadPage, Loaded
  <2>2. k \in s.pos .. Pages - 1 /\ s.pos \in Nat /\ Pages \in Nat
    BY <1>3, FirstRemaining, PagesCounted DEF SourceRecord
  <2>3. k # OldPage BY <2>2 DEF OldPage
  <2> HIDE DEF k, e, n, p, t
  <2>4. /\ t.page_offset = s.page_offset /\ t.proto1 = s.proto1 /\ t.query = s.query
        /\ t.state = s.state /\ t.ret = s.ret /\ t.buffer = k
    BY <2>1 DEF Loaded, SourceRecord
  <2> QED BY <2>3, <2>4 DEF t
<1> QED BY <1>1, <1>2, <1>3

\* A page is to be sent: its header is next, and nothing is under way.
LEMMA ToSend ==
    ASSUME Quiet', Gone', source'.state = "SEND_PAGE", source'.page_offset = -1,
           source'.ret # "0", source'.proto1 => boot'.proto1, source'.buffer # OldPage
    PROVE  Orderly'
BY AsksIs DEF Orderly, Exchanged, Flashed

LEMMA ReadFailsSame ==
    ASSUME NEW s \in SourceRecord
    PROVE  /\ ReadFails(s).state = "FAILURE" /\ ReadFails(s).ret = "EIO"
           /\ ReadFails(s).proto1 = s.proto1 /\ ReadFails(s).buffer = s.buffer
           /\ ReadFails(s).query = s.query
<1> DEFINE t == ReadFails(s)
<1>1. Returns(s, "EIO") = [s EXCEPT !.ret = "EIO", !.state = "FAILURE"] BY DEF Returns
<1>2. t = [s EXCEPT !.ret = "EIO", !.state = "FAILURE", !.eof = TRUE]
  BY <1>1 DEF ReadFails, SourceRecord
<1> HIDE DEF t
<1>3. /\ t.state = "FAILURE" /\ t.ret = "EIO" /\ t.proto1 = s.proto1 /\ t.buffer = s.buffer
      /\ t.query = s.query
  BY <1>2 DEF SourceRecord
<1> QED BY <1>3 DEF t

LEMMA OrderStartTransfer ==
    ASSUME IInv, Orderly, StartTransfer, UNCHANGED boot
    PROVE  Orderly'
<1>1. /\ source \in SourceRecord /\ source.state = "START_TRANSFER" /\ source.ret = "EAGAIN"
      /\ Asked("I") /\ back' = Left /\ line' = line
  <2>1. Running("START_TRANSFER") /\ back' = Left /\ line' = line BY DEF StartTransfer
  <2> QED BY <2>1, Runs, AsksIs
<1>2. CASE Got # "U"
  <2>1. source' = Timeout(source) BY <1>2 DEF StartTransfer
  <2>2. /\ Same(source, source')
        /\ \/ source'.state = "START_TRANSFER" /\ source'.ret = "EAGAIN"
           \/ source'.state = "FAILURE" /\ source'.ret = "ETIMEDOUT"
    BY <1>1, <2>1, TimeoutSame
  <2>3. CASE source'.state = "FAILURE" BY <2>2, <2>3, Ended DEF Same, Orderly
  <2>4. CASE source'.state = "START_TRANSFER"
    <3>1. Asked("I")' BY <1>1, AskedStill
    <3>2. Asked(Asks[source.state])' BY <2>4, <3>1, AsksIs DEF Asked
    <3>3. back' # <<>> => back # <<>> BY <1>1 DEF Left
    <3>4. (back # <<>> => Gone) BY <1>1 DEF Orderly, Flashed
    <3>5. Gone => Gone' BY DEF Gone, PageNumbers
    <3> QED BY <2>2, <2>4, <3>2, <3>3, <3>4, <3>5 DEF Orderly, Exchanged, Flashed, Same
  <2> QED BY <2>2, <2>3, <2>4
<1>3. CASE Got = "U" /\ source' = ReadFails(source)
  BY <1>1, <1>3, ReadFailsSame, Ended DEF Orderly
<1>4. CASE Got = "U" /\ source' = [NextState(LoadPage(source)) EXCEPT !.page_offset = -1]
  <2> DEFINE s == LoadPage(source)
             t == NextState(s)
  <2>1. source.pos = 0 /\ source.page_num = 0 /\ ~source.eof /\ source.pos <= Pages /\ ImageType
        /\ source.buffer # OldPage
    BY <1>1, Parts, NextStates DEF Coupled, Early, Orderly
  <2>2. s \in SourceRecord /\ s.state = "START_TRANSFER"
    BY <1>1, <2>1, PageLoaded
  <2>3. s.proto1 = source.proto1 /\ s.ret = "EAGAIN" /\ s.buffer # OldPage
    BY <1>1, <2>1, PageLoadedSame
  <2> HIDE DEF s
  <2>4. t \in SourceRecord /\ Same(s, t) /\ t.state = "SEND_PAGE" /\ t.ret = "EAGAIN"
    BY <2>2, <2>3, NextSame, NextStates, NextStateIs
  <2>5. source' = [t EXCEPT !.page_offset = -1] BY <1>4 DEF s, t
  <2> HIDE DEF t
  <2>6. /\ source'.state = "SEND_PAGE" /\ source'.page_offset = -1 /\ source'.ret = "EAGAIN"
        /\ source'.proto1 = t.proto1 /\ source'.buffer = t.buffer
    BY <2>4, <2>5 DEF SourceRecord
  <2>7. back = <<"U">> /\ Left = <<>> BY <1>1, <1>4, Answered
  <2>8. back # <<>> BY <2>7
  <2>9. Quiet'
    <3>1. line = <<>> /\ boot.got = <<>> BY <1>1, <2>8, Answered
    <3> QED BY <1>1, <2>7, <3>1 DEF Quiet
  <2>10. Gone' BY <1>1, <2>8 DEF Orderly, Flashed, Gone
  <2>11. (source'.proto1 => boot'.proto1) /\ source'.buffer # OldPage
    BY <2>3, <2>4, <2>6 DEF Same, Orderly
  <2> QED BY <2>6, <2>9, <2>10, <2>11, ToSend
<1> QED BY <1>2, <1>3, <1>4 DEF StartTransfer

\* The bytes of a page.
LEMMA HeaderCounts ==
    ASSUME NEW s \in SourceRecord
    PROVE  /\ Header(s) \in Seq(PageByte)
           /\ Len(Header(s)) = IF s.proto1 THEN 3 ELSE 2
<1>1. s.page_num \in Nat /\ LowByte \in Nat \ {0}
  <2>1. s.page_num \in PageNumbers BY DEF SourceRecord
  <2> QED BY <2>1, Gen3Assumption DEF PageNumbers
<1> DEFINE low == s.page_num % LowByte
           high == s.page_num \div LowByte
<1>2. low \in Int /\ high \in Int BY <1>1
<1> HIDE DEF low, high
<1>3. /\ Command("P") \in PageByte /\ Byte("num", low) \in PageByte
      /\ Byte("high", high) \in PageByte
  BY <1>2 DEF Command, Byte, PageByte, PageKinds, Bytes, Kinds
<1>4. Header(s) = <<Command("P"), Byte("num", low)>>
                    \o IF s.proto1 THEN <<Byte("high", high)>> ELSE <<>>
  BY DEF Header, low, high
<1> QED BY <1>3, <1>4

LEMMA SumCounts ==
    ASSUME NEW content \in Content, NEW proto1 \in BOOLEAN
    PROVE  /\ Sum(proto1, content) \in Seq(PageByte)
           /\ Len(Sum(proto1, content)) = SumLength(proto1)
<1>1. Byte("sum", content) \in PageByte
  BY ContentIs DEF Byte, PageByte, PageKinds, Bytes, Kinds
<1> QED BY <1>1 DEF Sum, Sum1, SumLength

LEMMA PageBytesCount ==
    ASSUME NEW s \in SourceRecord, s.buffer # OldPage, NEW n \in Nat
    PROVE  PageBytes(s, n) \in Seq(PageByte) /\ Len(PageBytes(s, n)) = n
<1>1. Byte("stray", 0) \in PageByte /\ Byte("data", s.buffer) \in PageByte
  <2>1. s.buffer \in Int BY ContentIs DEF SourceRecord
  <2> QED BY <2>1 DEF Byte, PageByte, PageKinds, Bytes, Kinds
<1>2. PageBytes(s, n) \in [1 .. n -> PageByte] BY <1>1 DEF PageBytes
<1> QED BY <1>2

\* A page is under way, and no answer to it is here yet.
LEMMA UnderWay ==
    ASSUME line' \in Seq(PageByte), boot'.got \in Seq(PageByte), back' = <<>>,
           Len(boot'.got) + Len(line') + Unsent' <= PageLength', Gone',
           \/ source'.state = "SEND_PAGE" /\ source'.page_offset \in Nat
           \/ source'.state = "LOAD_PAGE",
           source'.ret # "0", source'.proto1 => boot'.proto1, source'.buffer # OldPage
    PROVE  Orderly'
<1>1. Counted' BY DEF Counted
<1>2. source'.page_offset \in Nat => ~(source'.page_offset < 0) OBVIOUS
<1> QED BY <1>1, <1>2, AsksIs DEF Orderly, Exchanged, Flashed

LEMMA OrderSendHeader ==
    ASSUME IInv, Orderly, Running("SEND_PAGE"), SendHeader, UNCHANGED boot
    PROVE  Orderly'
<1>1. /\ source \in SourceRecord /\ source.state = "SEND_PAGE" /\ source.ret = "EAGAIN"
      /\ source.buffer # OldPage /\ (source.proto1 => boot.proto1)
  BY Runs
<1>2. source.page_offset < 0 /\ line' = line \o Header(source) /\ back' = back
  BY DEF SendHeader
<1>3. line = <<>> /\ back = <<>> /\ boot.got = <<>> /\ Gone
  BY <1>1, <1>2 DEF Orderly, Exchanged, Flashed, Quiet
<1> DEFINE s == [source EXCEPT !.page_offset = 0]
<1>4. source' = Timeout(s) BY DEF SendHeader
<1>5. /\ s \in SourceRecord /\ s.state = "SEND_PAGE" /\ s.ret = "EAGAIN" /\ s.page_offset = 0
      /\ s.buffer = source.buffer /\ s.proto1 = source.proto1 /\ s.query = source.query
  <2>1. 0 \in -1 .. PageSize BY Gen3Assumption
  <2> QED BY <1>1, <2>1 DEF SourceRecord
<1> HIDE DEF s
<1>6. /\ Same(s, source')
      /\ \/ source'.state = "SEND_PAGE" /\ source'.ret = "EAGAIN"
         \/ source'.state = "FAILURE" /\ source'.ret = "ETIMEDOUT"
  BY <1>4, <1>5, TimeoutSame
<1>7. CASE source'.state = "FAILURE" BY <1>1, <1>5, <1>6, <1>7, Ended DEF Same
<1>8. CASE source'.state = "SEND_PAGE"
  <2>1. /\ source'.page_offset = 0 /\ source'.proto1 = source.proto1
        /\ source'.buffer = source.buffer /\ source'.ret # "0"
    BY <1>5, <1>6, <1>8 DEF Same
  <2>2. /\ line' \in Seq(PageByte) /\ Len(line') = IF source.proto1 THEN 3 ELSE 2
    BY <1>1, <1>2, <1>3, HeaderCounts
  <2>3. boot'.got = <<>> /\ boot'.proto1 = boot.proto1 BY <1>3
  <2>4. PageSize \in Nat BY Gen3Assumption
  <2>5. source.proto1 \in BOOLEAN BY <1>1 DEF SourceRecord
  <2>6. Unsent' = PageSize + SumLength(source.proto1)
    BY <1>8, <2>1, <2>4, <2>5 DEF Unsent, SumLength
  <2>7. Len(boot'.got) + Len(line') + Unsent' <= PageLength'
    BY <1>1, <2>2, <2>3, <2>4, <2>5, <2>6 DEF PageLength, SumLength
  <2>8. Gone' BY <1>3 DEF Gone
  <2>9. boot'.got \in Seq(PageByte) BY <2>3
  <2> QED BY <1>1, <1>2, <1>3, <1>8, <2>1, <2>2, <2>3, <2>7, <2>8, <2>9, UnderWay
<1> QED BY <1>6, <1>7, <1>8

\* What is under way while bytes of a page are sent.
LEMMA Sending ==
    ASSUME Orderly, IInv, source.state = "SEND_PAGE", source.page_offset >= 0
    PROVE  /\ line \in Seq(PageByte) /\ boot.got \in Seq(PageByte) /\ back = <<>> /\ Gone
           /\ Unsent = PageSize - source.page_offset + SumLength(source.proto1)
           /\ Len(boot.got) \in Nat /\ Len(line) \in Nat
           /\ Len(boot.got) + Len(line) + Unsent <= PageLength
<1>1. Counted /\ Gone BY DEF Orderly, Exchanged, Flashed
<1>2. line \in Seq(PageByte) /\ boot.got \in Seq(PageByte) BY <1>1 DEF Counted
<1> QED BY <1>1, <1>2 DEF Counted, Unsent

\* Bytes that go from what is to be sent to the line.
LEMMA Moved ==
    ASSUME NEW a \in Int, NEW b \in Int, NEW u \in Int, NEW n \in Int, NEW p \in Int,
           a + b + u <= p
    PROVE  a + (b + n) + (u - n) <= p
OBVIOUS

LEMMA OrderSendData ==
    ASSUME IInv, Orderly, Running("SEND_PAGE"), SendData, UNCHANGED boot
    PROVE  Orderly'
<1>1. /\ source \in SourceRecord /\ source.state = "SEND_PAGE" /\ source.ret = "EAGAIN"
      /\ source.buffer # OldPage /\ (source.proto1 => boot.proto1)
  BY Runs
<1>2. source.page_offset \in -1 .. PageSize /\ PageSize \in Nat /\ source.proto1 \in BOOLEAN
  BY <1>1, Gen3Assumption DEF SourceRecord
<1>3. Free > 0 /\ source.page_offset < PageSize /\ Free \in Int
  BY Parts, Gen3Assumption DEF SendData, Free, LineOK
<1>4. source.page_offset >= 0
  <2>1. SUFFICES ASSUME source.page_offset < 0 PROVE FALSE BY <1>2
  <2>2. line = <<>> BY <1>1, <2>1 DEF Orderly, Exchanged, Quiet
  <2>3. Free >= 3 BY <2>2, Gen3Assumption DEF Free
  <2> QED BY <2>1, <2>3 DEF SendData
<1> DEFINE n == Min({PageSize - source.page_offset, Free})
           s == [source EXCEPT !.page_offset = @ + n]
<1>5. n \in Nat /\ n <= PageSize - source.page_offset
  <2> DEFINE a == PageSize - source.page_offset
  <2>1. a \in Int /\ a > 0 BY <1>2, <1>3
  <2> HIDE DEF a
  <2>2. n \in {a, Free} /\ n <= a BY <1>3, <2>1, MinOfTwo DEF a
  <2> QED BY <1>3, <2>1, <2>2 DEF a
<1>6. source' = Timeout(s) /\ line' = line \o PageBytes(source, n) /\ back' = back
  BY DEF SendData
<1> HIDE DEF n
<1>7. source.page_offset + n \in 0 .. PageSize BY <1>2, <1>4, <1>5
<1>8. /\ s \in SourceRecord /\ s.state = "SEND_PAGE" /\ s.ret = "EAGAIN"
      /\ s.page_offset = source.page_offset + n
      /\ s.buffer = source.buffer /\ s.proto1 = source.proto1 /\ s.query = source.query
  BY <1>1, <1>7 DEF SourceRecord
<1> HIDE DEF s
<1>9. /\ Same(s, source')
      /\ \/ source'.state = "SEND_PAGE" /\ source'.ret = "EAGAIN"
         \/ source'.state = "FAILURE" /\ source'.ret = "ETIMEDOUT"
  BY <1>6, <1>8, TimeoutSame
<1>10. CASE source'.state = "FAILURE" BY <1>1, <1>8, <1>9, <1>10, Ended DEF Same
<1>11. CASE source'.state = "SEND_PAGE"
  <2>1. /\ source'.page_offset = source.page_offset + n /\ source'.proto1 = source.proto1
        /\ source'.buffer = source.buffer /\ source'.ret # "0"
    BY <1>8, <1>9, <1>11 DEF Same
  <2>2. /\ line \in Seq(PageByte) /\ boot.got \in Seq(PageByte) /\ back = <<>> /\ Gone
        /\ Unsent = PageSize - source.page_offset + SumLength(source.proto1)
        /\ Len(boot.got) \in Nat /\ Len(line) \in Nat
        /\ Len(boot.got) + Len(line) + Unsent <= PageLength
    BY <1>1, <1>4, Sending
  <2>3. line' \in Seq(PageByte) /\ Len(line') = Len(line) + n
    <3>1. PageBytes(source, n) \in Seq(PageByte) /\ Len(PageBytes(source, n)) = n
      BY <1>1, <1>5, PageBytesCount
    <3> QED BY <1>6, <2>2, <3>1, ConcatProperties
  <2>4. SumLength(source.proto1) \in Nat /\ PageLength \in Nat
    BY <1>2 DEF SumLength, PageLength
  <2>5. Unsent' = PageSize - source'.page_offset + SumLength(source.proto1)
    BY <1>11, <2>1 DEF Unsent, SumLength
  <2>6. Unsent' = Unsent - n BY <1>2, <1>5, <2>1, <2>2, <2>4, <2>5
  <2>7. PageLength' = PageLength BY DEF PageLength
  <2>8. Len(boot'.got) = Len(boot.got) /\ boot'.got \in Seq(PageByte) BY <2>2
  <2>9. Unsent \in Int BY <1>2, <2>2, <2>4
  <2>a. Len(boot.got) + (Len(line) + n) + (Unsent - n) <= PageLength
    <3>1. /\ Len(boot.got) \in Int /\ Len(line) \in Int /\ n \in Int /\ PageLength \in Int
          /\ Len(boot.got) + Len(line) + Unsent <= PageLength
      BY <1>5, <2>2, <2>4
    <3> QED BY <2>9, <3>1, Moved
  <2>10. Len(boot'.got) + Len(line') + Unsent' <= PageLength'
    BY <2>3, <2>6, <2>7, <2>8, <2>a
  <2>11. Gone' BY <2>2 DEF Gone
  <2>12. source'.page_offset \in Nat BY <1>7, <2>1
  <2> QED BY <1>1, <1>6, <1>11, <2>1, <2>2, <2>3, <2>8, <2>10, <2>11, <2>12, UnderWay
<1> QED BY <1>9, <1>10, <1>11

LEMMA OrderSendSum ==
    ASSUME IInv, Orderly, Running("SEND_PAGE"), SendSum, UNCHANGED boot
    PROVE  Orderly'
<1>1. /\ source \in SourceRecord /\ source.state = "SEND_PAGE" /\ source.ret = "EAGAIN"
      /\ source.buffer # OldPage /\ (source.proto1 => boot.proto1)
  BY Runs
<1>2. /\ source.page_offset = PageSize /\ source' = NextState(source) /\ back' = <<>>
      /\ line' = line \o Sum(source.proto1, source.buffer)
  BY DEF SendSum
<1>3. PageSize \in Nat /\ source.proto1 \in BOOLEAN /\ source.buffer \in Content
  BY <1>1, Gen3Assumption DEF SourceRecord
<1>4. Same(source, source') /\ source'.state = "LOAD_PAGE" /\ source'.ret = "EAGAIN"
  BY <1>1, <1>2, NextSame, NextStates
<1>5. /\ line \in Seq(PageByte) /\ boot.got \in Seq(PageByte) /\ back = <<>> /\ Gone
      /\ Unsent = PageSize - source.page_offset + SumLength(source.proto1)
      /\ Len(boot.got) \in Nat /\ Len(line) \in Nat
      /\ Len(boot.got) + Len(line) + Unsent <= PageLength
  <2>1. source.page_offset >= 0 BY <1>2, <1>3
  <2> QED BY <1>1, <2>1, Sending
<1>6. line' \in Seq(PageByte) /\ Len(line') = Len(line) + SumLength(source.proto1)
  <2>1. /\ Sum(source.proto1, source.buffer) \in Seq(PageByte)
        /\ Len(Sum(source.proto1, source.buffer)) = SumLength(source.proto1)
    BY <1>3, SumCounts
  <2> QED BY <1>2, <1>5, <2>1, ConcatProperties
<1>7. Unsent' = 0 /\ Unsent = SumLength(source.proto1) /\ SumLength(source.proto1) \in Nat
  BY <1>2, <1>3, <1>4, <1>5 DEF Unsent, SumLength
<1>8. PageLength' = PageLength /\ PageLength \in Nat BY <1>3 DEF PageLength
<1>9. Len(boot'.got) = Len(boot.got) /\ boot'.got \in Seq(PageByte) BY <1>5
<1>10. Len(boot'.got) + Len(line') + Unsent' <= PageLength'
  BY <1>5, <1>6, <1>7, <1>8, <1>9
<1>11. Gone' BY <1>5 DEF Gone
<1> QED BY <1>1, <1>2, <1>4, <1>6, <1>9, <1>10, <1>11, UnderWay DEF Same

LEMMA OrderSendNothing ==
    ASSUME IInv, Orderly, Running("SEND_PAGE"), SendNothing, UNCHANGED boot
    PROVE  Orderly'
<1>1. /\ source \in SourceRecord /\ source.state = "SEND_PAGE" /\ source.ret = "EAGAIN"
      /\ source.buffer # OldPage /\ (source.proto1 => boot.proto1)
  BY Runs
<1>2. source' = Timeout(source) /\ UNCHANGED <<line, back>> BY DEF SendNothing
<1>3. /\ Same(source, source')
      /\ \/ source'.state = "SEND_PAGE" /\ source'.ret = "EAGAIN"
         \/ source'.state = "FAILURE" /\ source'.ret = "ETIMEDOUT"
  BY <1>1, <1>2, TimeoutSame
<1>4. CASE source'.state = "FAILURE" BY <1>1, <1>3, <1>4, Ended DEF Same
<1>5. CASE source'.state = "SEND_PAGE"
  <2>1. /\ source'.page_offset = source.page_offset /\ source'.proto1 = source.proto1
        /\ source'.buffer = source.buffer /\ source'.ret # "0"
    BY <1>3, <1>5 DEF Same
  <2>2. Gone' BY <1>1 DEF Orderly, Flashed, Gone
  <2>3. CASE source.page_offset < 0
    <3>1. Quiet' BY <1>1, <1>2, <2>3 DEF Orderly, Exchanged, Quiet
    <3>2. ~(source.page_offset >= 0)
      <4>1. source.page_offset \in Int BY <1>1, Gen3Assumption DEF SourceRecord
      <4> QED BY <2>3, <4>1
    <3> QED BY <1>1, <1>5, <2>1, <2>2, <3>1, <3>2, AsksIs DEF Orderly, Exchanged, Flashed
  <2>4. CASE source.page_offset >= 0
    <3>1. /\ line \in Seq(PageByte) /\ boot.got \in Seq(PageByte) /\ back = <<>>
          /\ Len(boot.got) + Len(line) + Unsent <= PageLength
      BY <1>1, <2>4, Sending
    <3>2. Unsent' = Unsent /\ PageLength' = PageLength
      BY <1>1, <1>5, <2>1 DEF Unsent, SumLength, PageLength
    <3>3. Len(boot'.got) + Len(line') + Unsent' <= PageLength' BY <1>2, <3>1, <3>2
    <3>4. source'.page_offset \in Nat
      <4>1. source.page_offset \in Int BY <1>1, Gen3Assumption DEF SourceRecord
      <4> QED BY <2>1, <2>4, <4>1
    <3> QED BY <1>1, <1>2, <1>5, <2>1, <2>2, <3>1, <3>3, <3>4, UnderWay
  <2>5. source.page_offset \in Int BY <1>1, Gen3Assumption DEF SourceRecord
  <2> QED BY <2>3, <2>4, <2>5
<1> QED BY <1>3, <1>4, <1>5

LEMMA OrderSendPage ==
    ASSUME IInv, Orderly, SendPage, UNCHANGED boot
    PROVE  Orderly'
BY OrderSendHeader, OrderSendData, OrderSendSum, OrderSendNothing DEF SendPage

\* What is under way while the answer to a page is waited for.
LEMMA Loading ==
    ASSUME IInv, Orderly, source.state = "LOAD_PAGE"
    PROVE  /\ line \in Seq(PageByte) /\ boot.got \in Seq(PageByte) /\ Gone
           /\ Len(boot.got) + Len(line) + 0 <= PageLength
           /\ back # <<>> => line = <<>> /\ boot.got = <<>> /\ Left = <<>>
           /\ Left = <<>>
<1>1. Counted /\ Gone /\ Unsent = 0 BY DEF Orderly, Exchanged, Flashed, Unsent
<1>2. line \in Seq(PageByte) /\ boot.got \in Seq(PageByte) BY <1>1 DEF Counted
<1>3. Len(boot.got) + Len(line) + 0 <= PageLength BY <1>1 DEF Counted
<1>4. CASE back = <<>> BY <1>1, <1>2, <1>3, <1>4 DEF Left
<1>5. CASE \E ch \in Chars : back = <<ch>>
  <2>1. back # <<>> /\ Left = <<>> BY <1>5 DEF Left
  <2> QED BY <1>1, <1>2, <1>3, <2>1 DEF Counted
<1> QED BY <1>1, <1>4, <1>5 DEF Counted

LEMMA ResendSame ==
    ASSUME NEW s \in SourceRecord, s.ret = "EAGAIN"
    PROVE  LET t == Resend(s)
           IN  /\ t.proto1 = s.proto1 /\ t.query = s.query /\ t.buffer = s.buffer
               /\ \/ t.state = "FAILURE" /\ t.ret = "ECANCELED"
                  \/ t.state = "SEND_PAGE" /\ t.page_offset = -1 /\ t.ret = "EAGAIN"
<1> DEFINE r == [s EXCEPT !.retries = @ + 1]
           t == Resend(s)
<1>1. r.proto1 = s.proto1 /\ r.query = s.query /\ r.buffer = s.buffer /\ r.ret = "EAGAIN"
  BY DEF SourceRecord
<1>2. t = IF r.retries > Retries THEN Returns(r, "ECANCELED")
          ELSE [r EXCEPT !.page_offset = -1, !.state = "SEND_PAGE", !.age = 0]
  BY DEF Resend
<1>3. r \in SourceRecord
  <2>1. s.retries \in Nat BY DEF SourceRecord
  <2>2. s.retries + 1 \in Nat BY <2>1
  <2> QED BY <2>2 DEF SourceRecord
<1> HIDE DEF r, t
<1>4. CASE r.retries > Retries
  <2>1. t = Returns(r, "ECANCELED") BY <1>2, <1>4
  <2>2. Same(r, t) /\ t.state = "FAILURE" /\ t.ret = "ECANCELED" BY <1>3, <2>1, ReturnsSame
  <2>3. /\ t.proto1 = s.proto1 /\ t.query = s.query /\ t.buffer = s.buffer
    BY <1>1, <2>2 DEF Same
  <2> QED BY <2>2, <2>3 DEF t
<1>5. CASE ~(r.retries > Retries)
  <2>1. t = [r EXCEPT !.page_offset = -1, !.state = "SEND_PAGE", !.age = 0] BY <1>2, <1>5
  <2>2. /\ t.proto1 = s.proto1 /\ t.query = s.query /\ t.buffer = s.buffer
        /\ t.state = "SEND_PAGE" /\ t.page_offset = -1 /\ t.ret = "EAGAIN"
    BY <1>1, <1>3, <2>1 DEF SourceRecord
  <2> QED BY <2>2 DEF t
<1> QED BY <1>4, <1>5

\* An answer leads to a page sent.
LEMMA Resent ==
    ASSUME IInv, Orderly, Running("LOAD_PAGE"), UNCHANGED <<boot, line>>, back # <<>>, back' = Left,
           NEW s \in SourceRecord, s.ret = "EAGAIN", s.proto1 = source.proto1,
           s.buffer # OldPage, source' = Resend(s)
    PROVE  Orderly'
<1>1. /\ source \in SourceRecord /\ source.state = "LOAD_PAGE"
      /\ source.buffer # OldPage /\ (source.proto1 => boot.proto1)
  BY Runs
<1>2. Gone /\ line = <<>> /\ boot.got = <<>> /\ Left = <<>> BY <1>1, Loading
<1>3. /\ source'.proto1 = source.proto1 /\ source'.buffer = s.buffer
      /\ \/ source'.state = "FAILURE" /\ source'.ret = "ECANCELED"
         \/ source'.state = "SEND_PAGE" /\ source'.page_offset = -1 /\ source'.ret = "EAGAIN"
  BY ResendSame
<1>4. CASE source'.state = "FAILURE" BY <1>1, <1>3, <1>4, Ended
<1>5. CASE source'.state = "SEND_PAGE"
  <2>1. Quiet' BY <1>2 DEF Quiet
  <2>2. Gone' BY <1>2 DEF Gone
  <2> QED BY <1>1, <1>3, <1>5, <2>1, <2>2, ToSend
<1> QED BY <1>3, <1>4, <1>5

LEMMA OrderNextPage ==
    ASSUME IInv, Orderly, NextPage, UNCHANGED boot
    PROVE  Orderly'
<1> DEFINE s == [source EXCEPT !.retries = 0, !.page_num = @ + 1]
<1>a. Running("LOAD_PAGE") /\ Got = "U" BY DEF NextPage
<1>1. /\ source \in SourceRecord /\ source.state = "LOAD_PAGE" /\ source.ret = "EAGAIN"
      /\ source.buffer # OldPage /\ (source.proto1 => boot.proto1) /\ back' = Left
  BY <1>a, Runs DEF NextPage
<1>2. source.pos <= Pages /\ InBuffer(source) /\ ImageType
  BY <1>1, Parts, NextStates DEF Coupled, Early, InBuffer
<1>3. Pages \in Nat /\ source.pos \in Nat /\ source.page_num \in Nat
  BY <1>1, Parts, PagesCounted DEF SourceRecord
<1>4. source.page_num + 1 \in PageNumbers
  <2>1. source.page_num + 1 \in 0 .. Pages + 1 BY <1>2, <1>3 DEF InBuffer
  <2> QED BY <1>2, <2>1, PagesCounted
<1>5. /\ s \in SourceRecord /\ s.pos = source.pos /\ s.page_num = source.page_num + 1
      /\ s.eof = source.eof /\ s.state = "LOAD_PAGE" /\ s.ret = "EAGAIN"
      /\ s.buffer = source.buffer /\ s.proto1 = source.proto1 /\ s.query = source.query
  BY <1>1, <1>4 DEF SourceRecord
<1>6. \/ Loads(s) /\ source' = Resend(LoadPage(s)) /\ line' = line
      \/ ~Loads(s) /\ source' = NextState(LoadPage(s)) /\ line' = Put(Command("C"))
      \/ source' = ReadFails(s)
  BY DEF NextPage
<1>b. back # <<>> BY <1>a DEF Got
<1> HIDE DEF s
<1>7. /\ LoadPage(s).proto1 = source.proto1 /\ LoadPage(s).ret = "EAGAIN"
      /\ LoadPage(s).buffer # OldPage /\ LoadPage(s).state = "LOAD_PAGE"
  BY <1>1, <1>2, <1>5, PageLoadedSame
<1>8. LoadPage(s) \in SourceRecord
  <2>1. CASE s.eof BY <1>5, <2>1 DEF LoadPage
  <2>2. CASE ~s.eof
    <3>1. s.page_num = s.pos BY <1>2, <1>5, <2>2 DEF InBuffer
    <3> QED BY <1>2, <1>5, <3>1, PageLoaded
  <2> QED BY <2>1, <2>2
<1>9. CASE source' = Resend(LoadPage(s)) /\ line' = line
  BY <1>1, <1>7, <1>8, <1>9, <1>a, <1>b, Resent
<1>10. CASE source' = NextState(LoadPage(s)) /\ line' = Put(Command("C"))
  <2>1. /\ Same(LoadPage(s), source') /\ source'.state = "VERIFY" /\ source'.ret = "EAGAIN"
    BY <1>7, <1>8, <1>10, NextSame, NextStates
  <2>2. Gone /\ line = <<>> /\ boot.got = <<>> /\ Left = <<>> BY <1>1, <1>b, Loading
  <2>3. Asked("C")' BY <1>1, <1>10, <2>2, AskedNext
  <2>4. Asked(Asks[source.state])' BY <2>1, <2>3, AsksIs DEF Asked
  <2>5. Gone' /\ back' = <<>> BY <1>1, <2>2 DEF Gone
  <2> QED BY <1>1, <1>7, <2>1, <2>4, <2>5 DEF Orderly, Exchanged, Flashed, Same
<1>11. CASE source' = ReadFails(s)
  BY <1>1, <1>5, <1>11, ReadFailsSame, Ended
<1> QED BY <1>6, <1>9, <1>10, <1>11

LEMMA OrderSamePage ==
    ASSUME IInv, Orderly, SamePage, UNCHANGED boot
    PROVE  Orderly'
<1>a. Running("LOAD_PAGE") /\ line' = line /\ back' = Left BY DEF SamePage
<1>1. /\ source \in SourceRecord /\ source.state = "LOAD_PAGE" /\ source.ret = "EAGAIN"
      /\ source.buffer # OldPage /\ (source.proto1 => boot.proto1)
  BY <1>a, Runs
<1>2. CASE Got = "CRC"
  <2>1. source' = Resend(source) /\ back # <<>> BY <1>2 DEF SamePage, Got
  <2> QED BY <1>1, <1>a, <2>1, Resent
<1>3. CASE Got = "VERIFY"
  <2>1. source' = Returns(source, "ECANCELED") BY <1>3 DEF SamePage
  <2>2. Same(source, source') /\ source'.state = "FAILURE" /\ source'.ret = "ECANCELED"
    BY <1>1, <2>1, ReturnsSame
  <2> QED BY <1>1, <2>2, Ended DEF Same
<1>4. CASE Got \notin {"CRC", "VERIFY"}
  <2>1. source' = Timeout(source) BY <1>4 DEF SamePage
  <2>2. /\ Same(source, source')
        /\ \/ source'.state = "LOAD_PAGE" /\ source'.ret = "EAGAIN"
           \/ source'.state = "FAILURE" /\ source'.ret = "ETIMEDOUT"
    BY <1>1, <2>1, TimeoutSame
  <2>3. CASE source'.state = "FAILURE" BY <1>1, <2>2, <2>3, Ended DEF Same
  <2>4. CASE source'.state = "LOAD_PAGE"
    <3>1. /\ line \in Seq(PageByte) /\ boot.got \in Seq(PageByte) /\ Gone
          /\ Len(boot.got) + Len(line) + 0 <= PageLength /\ Left = <<>>
      BY <1>1, Loading
    <3>2. Unsent' = 0 /\ PageLength' = PageLength BY <2>4 DEF Unsent, PageLength
    <3>3. Len(boot'.got) + Len(line') + Unsent' <= PageLength' BY <1>a, <3>1, <3>2
    <3>4. Gone' BY <3>1 DEF Gone
    <3> QED BY <1>1, <1>a, <2>2, <2>4, <3>1, <3>3, <3>4, UnderWay DEF Same
  <2> QED BY <2>2, <2>3, <2>4
<1> QED BY <1>2, <1>3, <1>4

LEMMA OrderVerify ==
    ASSUME IInv, Orderly, Verify, UNCHANGED <<boot, image>>
    PROVE  Orderly'
<1>a. Running("VERIFY") /\ line' = line /\ back' = Left BY DEF Verify
<1>1. /\ source \in SourceRecord /\ source.state = "VERIFY" /\ source.ret = "EAGAIN"
      /\ source.buffer # OldPage /\ (source.proto1 => boot.proto1) /\ Asked("C")
  BY <1>a, Runs, AsksIs
<1>2. CASE Got = "FAIL"
  <2>1. source' = Returns(source, "EILSEQ") BY <1>2 DEF Verify
  <2>2. Same(source, source') /\ source'.state = "FAILURE" /\ source'.ret = "EILSEQ"
    BY <1>1, <2>1, ReturnsSame
  <2> QED BY <1>1, <2>2, Ended DEF Same
<1>3. CASE Got = "U"
  <2>1. source' = Returns(source, "0") BY <1>3 DEF Verify
  <2>2. Same(source, source') /\ source'.state = "SUCCESS" /\ source'.ret = "0"
    BY <1>1, <2>1, ReturnsSame
  <2>3. back = <<"U">> /\ line = <<>>
    <3>1. back = <<"U">> BY <1>1, <1>3, Answered
    <3>2. back # <<>> BY <3>1
    <3> QED BY <1>1, <3>1, <3>2, Answered
  <2>4. Installed BY <1>1, <2>3 DEF Orderly, Flashed
  <2>5. Installed' BY <2>4 DEF Installed, HasData, Pages
  <2> QED BY <1>1, <1>a, <2>2, <2>3, <2>5, AsksIs DEF Orderly, Exchanged, Flashed, Same
<1>4. CASE Got \notin {"FAIL", "U"}
  <2>1. source' = Timeout(source) BY <1>4 DEF Verify
  <2>2. /\ Same(source, source')
        /\ \/ source'.state = "VERIFY" /\ source'.ret = "EAGAIN"
           \/ source'.state = "FAILURE" /\ source'.ret = "ETIMEDOUT"
    BY <1>1, <2>1, TimeoutSame
  <2>3. CASE source'.state = "FAILURE" BY <1>1, <2>2, <2>3, Ended DEF Same
  <2>4. CASE source'.state = "VERIFY"
    <3>1. Asked("C")' BY <1>1, <1>a, AskedStill
    <3>2. Asked(Asks[source.state])' BY <2>4, <3>1, AsksIs DEF Asked
    <3>3. Gone BY <1>1 DEF Orderly, Flashed
    <3>4. Gone' BY <3>3 DEF Gone
    <3>5. back' = <<>>
      <4>1. back \in {<<>>, <<"U">>, <<"FAIL">>} BY <1>1 DEF Orderly, Flashed
      <4>2. back = <<>> BY <1>4, <4>1 DEF Got
      <4> QED BY <1>a, <4>2 DEF Left
    <3> QED BY <1>1, <2>2, <2>4, <3>2, <3>4, <3>5 DEF Orderly, Exchanged, Flashed, Same
  <2> QED BY <2>2, <2>3, <2>4
<1> QED BY <1>2, <1>3, <1>4

\* What the module answers to a command, or to a byte that is none.
Reply(b) ==
    \/ b = <<>>
    \/ \E ch \in Chars : b = <<ch>> /\ (ch = "1" => boot.proto1)
    \/ \E ch \in Chars : b = <<ch, "U">> /\ ch # "U" /\ (ch = "1" => boot.proto1)

LEMMA Said ==
    ASSUME back = <<>>, NEW chars, Says(chars), Reply(chars)
    PROVE  Reply(back') /\ back' \in {<<>>, chars}
<1>1. CASE chars = <<>> BY <1>1 DEF Says, Reply
<1>2. CASE \E ch \in Chars : chars = <<ch>> /\ (ch = "1" => boot.proto1)
  BY <1>2 DEF Says, Reply
<1>3. CASE \E ch \in Chars : chars = <<ch, "U">> /\ ch # "U" /\ (ch = "1" => boot.proto1)
  BY <1>3 DEF Says, Reply
<1> QED BY <1>1, <1>2, <1>3 DEF Reply

LEMMA CommandAnswered ==
    ASSUME IInv, back = <<>>, boot.got = <<>>,
           NEW kind \in {"B", "L", "R", "V", "I", "C", "stray"}, TakeCommand(kind)
    PROVE  /\ boot'.got = <<>> /\ boot'.proto1 = boot.proto1 /\ Reply(back')
           /\ kind # "I" => boot'.flash = boot.flash
           /\ kind = "I" => Gone'
           /\ kind = "stray" => back' = <<>>
           /\ kind = "C" => /\ back' \in {<<>>, <<"U">>, <<"FAIL">>}
                            /\ back' = <<"U">> /\ Gone => Installed
<1>1. boot \in BootRecord BY DEF IInv, TypeOK
<1>2. /\ Reply(<<"text", "U">>) /\ Reply(<<"U">>) /\ Reply(<<"FAIL">>) /\ Reply(<<>>)
      /\ boot.proto1 => Reply(<<"1", "U">>)
  BY DEF Reply, Chars
<1>3. CASE kind = "B" BY <1>2, <1>3, Said DEF TakeCommand
<1>4. CASE kind = "L"
  <2>1. UNCHANGED boot /\ Says(IF boot.proto1 THEN <<"1", "U">> ELSE <<"U">>)
    BY <1>4 DEF TakeCommand
  <2>2. Reply(IF boot.proto1 THEN <<"1", "U">> ELSE <<"U">>) BY <1>2
  <2> QED BY <1>4, <2>1, <2>2, Said
<1>5. CASE kind = "R"
  <2>1. boot' = [boot EXCEPT !.baud = "fast"] /\ Says(<<"text", "U">>) BY <1>5 DEF TakeCommand
  <2>2. boot'.got = boot.got /\ boot'.proto1 = boot.proto1 /\ boot'.flash = boot.flash
    BY <1>1, <2>1 DEF BootRecord
  <2> QED BY <1>2, <1>5, <2>1, <2>2, Said
<1>6. CASE kind = "V" BY <1>2, <1>6, Said DEF TakeCommand
<1>7. CASE kind = "I"
  <2> DEFINE f == [k \in PageNumbers |-> Erased]
  <2>1. boot' = [boot EXCEPT !.flash = f] /\ Says(<<"U">>) BY <1>7 DEF TakeCommand
  <2>2. \A k \in PageNumbers : f[k] # OldPage BY DEF Erased, OldPage
  <2> HIDE DEF f
  <2>3. boot'.got = boot.got /\ boot'.proto1 = boot.proto1 /\ boot'.flash = f
    BY <1>1, <2>1 DEF BootRecord
  <2>4. Gone' BY <2>2, <2>3 DEF Gone, PageNumbers
  <2> QED BY <1>2, <1>7, <2>1, <2>3, <2>4, Said
<1>8. CASE kind = "C"
  <2>1. 0 \in PageNumbers BY Parts, PagesCounted
  <2>2. Gone => ~(\A k \in PageNumbers : boot.flash[k] = OldPage) BY <2>1 DEF Gone
  <2>3. CASE (Installed /\ ~Blank) \/ \A k \in PageNumbers : boot.flash[k] = OldPage
    <3>1. Says(<<"U">>) /\ boot' = [boot EXCEPT !.phase = "app"] BY <1>8, <2>3 DEF TakeCommand
    <3>2. boot'.got = boot.got /\ boot'.proto1 = boot.proto1 /\ boot'.flash = boot.flash
      BY <1>1, <3>1 DEF BootRecord
    <3> QED BY <1>2, <1>8, <2>2, <2>3, <3>1, <3>2, Said
  <2>4. CASE ~((Installed /\ ~Blank) \/ \A k \in PageNumbers : boot.flash[k] = OldPage)
    <3>1. Says(<<"FAIL">>) /\ UNCHANGED boot BY <1>8, <2>4 DEF TakeCommand
    <3>2. back' \in {<<>>, <<"FAIL">>} /\ Reply(back') BY <1>2, <3>1, Said
    <3> QED BY <1>8, <3>1, <3>2
  <2> QED BY <2>3, <2>4
<1>9. CASE kind = "stray" BY <1>2, <1>9 DEF TakeCommand
<1> QED BY <1>3, <1>4, <1>5, <1>6, <1>7, <1>8, <1>9

\* What the module reads when a byte is there.
LEMMA ReadsOne ==
    ASSUME ModuleReads
    PROVE  \/ UNCHANGED <<boot, back>>
           \/ boot.got = <<>> /\ TakeCommand(Head(line).kind)
           \/ /\ boot.got # <<>> /\ Len(Append(boot.got, Head(line))) < PageLength
              /\ boot' = [boot EXCEPT !.got = Append(boot.got, Head(line))] /\ UNCHANGED back
           \/ /\ ~(Len(Append(boot.got, Head(line))) < PageLength)
              /\ boot.got # <<>> /\ TakePage(Append(boot.got, Head(line)))
BY DEF ModuleReads

LEMMA OrderReadsCommand ==
    ASSUME IInv, Orderly, ModuleReads, source.state \in DOMAIN Asks
    PROVE  Orderly'
<1> DEFINE kind == Asks[source.state]
<1>1. line # <<>> /\ line' = Tail(line) /\ UNCHANGED <<source, image>> BY DEF ModuleReads
<1>2. Asked(kind) BY DEF Orderly, Exchanged
<1>3. kind \in {"B", "L", "R", "V", "I", "C"} BY AsksIs
<1>a. (source.state = "START_TRANSFER" => kind = "I") /\ (source.state = "VERIFY" => kind = "C")
      /\ (kind = "I" => source.state = "START_TRANSFER")
  BY AsksIs
<1> HIDE DEF kind
<1>4. PICK byte \in Bytes : line = <<byte>> /\ byte.kind \in {kind, "stray"}
  BY <1>1, <1>2 DEF Asked
<1>5. back = <<>> /\ boot.got = <<>> BY <1>1, <1>2 DEF Asked
<1>6. Head(line) = byte /\ line' = <<>> BY <1>1, <1>4
<1>7. UNCHANGED <<boot, back>> \/ TakeCommand(byte.kind) BY <1>5, <1>6, ReadsOne
<1>8. /\ boot'.got = <<>> /\ boot'.proto1 = boot.proto1 /\ Reply(back')
      /\ kind # "I" => boot'.flash = boot.flash
      /\ kind = "I" => (back' = <<>> \/ Gone')
      /\ kind = "C" => /\ back' \in {<<>>, <<"U">>, <<"FAIL">>}
                       /\ back' = <<"U">> /\ Gone => Installed
  <2>1. CASE UNCHANGED <<boot, back>> BY <1>5, <2>1 DEF Reply
  <2>2. CASE TakeCommand(byte.kind)
    <3> DEFINE k == byte.kind
    <3>1. k \in {"B", "L", "R", "V", "I", "C", "stray"} /\ k \in {kind, "stray"} BY <1>3, <1>4
    <3> HIDE DEF k
    <3>2. TakeCommand(k) BY <2>2 DEF k
    <3>3. CASE k = kind BY <1>5, <3>1, <3>2, <3>3, CommandAnswered
    <3>4. CASE k = "stray" BY <1>5, <3>1, <3>2, <3>4, CommandAnswered
    <3> QED BY <3>1, <3>3, <3>4
  <2> QED BY <1>7, <2>1, <2>2
<1>9. Asked(kind)' BY <1>6, <1>8 DEF Asked, Reply
<1>10. Asked(Asks[source.state])' BY <1>1, <1>9 DEF Asked, kind
<1>11. Exchanged' BY <1>1, <1>10, AsksIs DEF Exchanged
<1>12. source.ret # "0" \/ source.query BY <1>1 DEF Orderly, Flashed
<1>13. source'.state = "VERIFY" =>
         /\ Gone' /\ back' \in {<<>>, <<"U">>, <<"FAIL">>} /\ (back' = <<"U">> => Installed')
  <2> SUFFICES ASSUME source.state = "VERIFY"
               PROVE  /\ Gone' /\ back' \in {<<>>, <<"U">>, <<"FAIL">>}
                      /\ (back' = <<"U">> => Installed')
    BY <1>1
  <2>1. kind = "C" /\ Gone BY <1>a DEF Orderly, Flashed
  <2>2. boot'.flash = boot.flash BY <1>8, <2>1
  <2>3. Gone' /\ (Installed => Installed')
    BY <1>1, <2>1, <2>2 DEF Gone, PageNumbers, Installed, HasData, Pages
  <2> QED BY <1>8, <2>1, <2>3
<1>14. source'.state = "START_TRANSFER" /\ back' # <<>> => Gone' BY <1>1, <1>8, <1>a
<1>15. Flashed' BY <1>1, <1>12, <1>13, <1>14, AsksIs DEF Flashed
<1> QED BY <1>1, <1>8, <1>11, <1>15 DEF Orderly

\* A page whose checksum is right holds no page of the old firmware.
LEMMA ContentTaken ==
    ASSUME IInv, NEW got \in Seq(PageByte), Len(got) = PageLength, NEW content \in Content,
           BodyOf(got) = Body(content)
    PROVE  content # OldPage
<1>1. PageSize \in Nat \ {0} /\ boot.proto1 \in BOOLEAN
  BY Gen3Assumption DEF IInv, TypeOK, BootRecord
<1> DEFINE first == IF boot.proto1 THEN 4 ELSE 3
<1>2. first \in 1 .. Len(got) /\ Len(got) \in Nat BY <1>1 DEF PageLength
<1>3. BodyOf(got) = SubSeq(got, first, Len(got)) BY DEF BodyOf
<1> HIDE DEF first
<1>4. BodyOf(got)[1] = got[first]
  <2>1. 1 \in 1 .. Len(got) - first + 1 BY <1>2
  <2>2. SubSeq(got, first, Len(got))[1] = got[first + 1 - 1] BY <1>2, <2>1, SubSeqProperties
  <2> QED BY <1>2, <1>3, <2>2
<1> DEFINE data == [i \in 1 .. PageSize |-> Byte("data", content)]
           sum == Sum(boot.proto1, content)
<1>5. Body(content) = data \o sum BY DEF Body
<1>6. data \in Seq(PageByte \cup Bytes) /\ Len(data) = PageSize /\ data[1] = Byte("data", content)
  <2>1. Byte("data", content) \in Bytes BY ContentIs DEF Byte, Bytes, Kinds
  <2> QED BY <1>1, <2>1
<1>7. sum \in Seq(PageByte \cup Bytes)
  <2>1. sum \in Seq(PageByte) BY <1>1, SumCounts
  <2> QED BY <2>1
<1> HIDE DEF data, sum
<1>8. Body(content)[1] = Byte("data", content)
  <2>1. 1 \in 1 .. Len(data) /\ Len(sum) \in Nat BY <1>1, <1>6, <1>7
  <2>2. (data \o sum)[1] = data[1] BY <1>6, <1>7, <2>1
  <2> QED BY <1>5, <1>6, <2>2
<1>9. got[first] \in PageByte BY <1>2
<1>10. got[first] = Byte("data", content) BY <1>4, <1>8
<1> QED BY <1>9, <1>10 DEF PageByte, Byte

LEMMA PageAnswered ==
    ASSUME IInv, Gone, back = <<>>, NEW got \in Seq(PageByte), Len(got) = PageLength, TakePage(got)
    PROVE  /\ boot'.got = <<>> /\ boot'.proto1 = boot.proto1 /\ Gone'
           /\ back' = <<>> \/ \E ch \in Chars : back' = <<ch>>
<1>1. boot \in BootRecord BY DEF IInv, TypeOK
<1>2. back' = <<>> \/ \E ch \in Chars : back' = <<ch>>
  <2>1. Says(<<"U">>) \/ Says(<<"VERIFY">>) \/ Says(<<"CRC">>) BY DEF TakePage
  <2>2. {"U", "VERIFY", "CRC"} \subseteq Chars BY DEF Chars
  <2>3. \A ch \in Chars : Says(<<ch>>) => back' \in {<<>>, <<ch>>} BY DEF Says
  <2> QED BY <2>1, <2>2, <2>3
<1>3. \/ boot' = [boot EXCEPT !.got = <<>>]
      \/ \E content \in Content : /\ BodyOf(got) = Body(content) /\ NumberOf(got) \in PageNumbers
                                /\ boot' = [boot EXCEPT !.got = <<>>,
                                                        !.flash[NumberOf(got)] = content]
  BY DEF TakePage
<1>4. CASE boot' = [boot EXCEPT !.got = <<>>]
  <2>1. boot'.got = <<>> /\ boot'.proto1 = boot.proto1 /\ boot'.flash = boot.flash
    BY <1>1, <1>4 DEF BootRecord
  <2> QED BY <1>2, <2>1 DEF Gone, PageNumbers
<1>5. CASE boot' # [boot EXCEPT !.got = <<>>]
  <2> DEFINE n == NumberOf(got)
  <2>1. PICK content \in Content :
           /\ BodyOf(got) = Body(content) /\ n \in PageNumbers
           /\ boot' = [boot EXCEPT !.got = <<>>, !.flash[n] = content]
    BY <1>3, <1>5
  <2>2. content # OldPage BY <2>1, ContentTaken
  <2> HIDE DEF n
  <2>3. /\ boot'.got = <<>> /\ boot'.proto1 = boot.proto1
        /\ boot'.flash = [boot.flash EXCEPT ![n] = content]
    BY <1>1, <2>1 DEF BootRecord
  <2>4. \A k \in PageNumbers : boot'.flash[k] # OldPage
    <3>1. boot.flash \in [PageNumbers -> Content] BY <1>1 DEF BootRecord
    <3>2. \A k \in PageNumbers : boot'.flash[k] = IF k = n THEN content ELSE boot.flash[k]
      BY <2>3, <3>1
    <3> QED BY <2>2, <3>2 DEF Gone
  <2>5. Gone' BY <2>4 DEF Gone, PageNumbers
  <2> QED BY <1>2, <2>3, <2>5
<1> QED BY <1>4, <1>5

\* Only the last byte of a page completes it, when nothing is left to be sent.
LEMMA LastByte ==
    ASSUME NEW b \in Nat, NEW l \in Nat, NEW u \in Nat, NEW p \in Nat, NEW g, g = b + 1,
           l >= 1, b + l + u <= p, ~(g < p)
    PROVE  g = p /\ l = 1 /\ u = 0
OBVIOUS

\* A state of its own in which a page is under way.
PageStates == {"SEND_PAGE", "LOAD_PAGE"}

LEMMA OrderReadsPage ==
    ASSUME IInv, Orderly, ModuleReads, source.state \in PageStates
    PROVE  Orderly'
<1>1. line # <<>> /\ line' = Tail(line) /\ UNCHANGED <<source, image>> BY DEF ModuleReads
<1>2. Gone BY DEF PageStates, Orderly, Flashed
<1>3. source \in SourceRecord /\ PageSize \in Nat /\ source.page_offset \in -1 .. PageSize
      /\ source.proto1 \in BOOLEAN
  BY Parts, Gen3Assumption DEF SourceRecord
<1>4. source.state = "SEND_PAGE" => source.page_offset >= 0
  <2>1. source.state = "SEND_PAGE" /\ source.page_offset < 0 => line = <<>>
    BY DEF Orderly, Exchanged, Quiet
  <2> QED BY <1>1, <1>3, <2>1
<1>5. Counted BY <1>4 DEF PageStates, Orderly, Exchanged
<1>6. line \in Seq(PageByte) /\ boot.got \in Seq(PageByte) /\ back = <<>>
  BY <1>1, <1>5 DEF Counted
<1> DEFINE byte == Head(line)
           got == Append(boot.got, byte)
<1>7. byte \in PageByte /\ Tail(line) \in Seq(PageByte) /\ Len(Tail(line)) = Len(line) - 1
  BY <1>1, <1>6
<1>8. got \in Seq(PageByte) /\ Len(got) = Len(boot.got) + 1 BY <1>6, <1>7
<1>9. Len(boot.got) \in Nat /\ Len(line) \in Nat /\ Len(line) >= 1 BY <1>1, <1>6
<1>10. Unsent \in Nat /\ (source.state = "SEND_PAGE" => Unsent >= 1)
  BY <1>3, <1>4 DEF Unsent, SumLength
<1>11. PageLength \in Nat BY <1>3 DEF PageLength
<1>12. Len(boot.got) + Len(line) + Unsent <= PageLength BY <1>5 DEF Counted
<1>13. boot \in BootRecord BY DEF IInv, TypeOK
<1>14. \/ UNCHANGED <<boot, back>>
       \/ boot.got = <<>> /\ TakeCommand(byte.kind)
       \/ boot' = [boot EXCEPT !.got = got] /\ UNCHANGED back
       \/ ~(Len(got) < PageLength) /\ TakePage(got)
  BY ReadsOne
<1> HIDE DEF got
<1>15. /\ boot'.got \in Seq(PageByte) /\ boot'.proto1 = boot.proto1 /\ Gone'
       /\ \/ back' = <<>> /\ Len(boot'.got) <= Len(boot.got) + 1
          \/ /\ source.state = "LOAD_PAGE" /\ Tail(line) = <<>> /\ boot'.got = <<>>
             /\ \E ch \in Chars : back' = <<ch>>
  <2>1. CASE UNCHANGED <<boot, back>> BY <1>2, <1>6, <1>9, <2>1 DEF Gone
  <2>2. CASE boot.got = <<>> /\ TakeCommand(byte.kind)
    <3> DEFINE k == byte.kind
    <3>1. k \in PageKinds BY <1>7 DEF PageByte
    <3> HIDE DEF k
    <3>2. TakeCommand(k) BY <2>2 DEF k
    <3>3. CASE k = "P"
      <4> DEFINE g == <<Command("P")>>
      <4>1. boot' = [boot EXCEPT !.got = g] /\ UNCHANGED back BY <3>2, <3>3 DEF TakeCommand
      <4>2. g \in Seq(PageByte) /\ Len(g) = 1
        <5>1. Command("P") \in PageByte
          BY DEF Command, Byte, PageByte, PageKinds, Bytes, Kinds
        <5> QED BY <5>1
      <4> HIDE DEF g
      <4>3. boot'.got = g /\ boot'.proto1 = boot.proto1 /\ boot'.flash = boot.flash
        BY <1>13, <4>1 DEF BootRecord
      <4>4. Gone' BY <1>2, <4>3 DEF Gone, PageNumbers
      <4>a. Len(boot'.got) = 1 BY <4>2, <4>3
      <4>5. Len(boot'.got) <= Len(boot.got) + 1 BY <1>9, <4>a
      <4> QED BY <1>6, <4>1, <4>2, <4>3, <4>4, <4>5
    <3>4. CASE k # "P"
      <4>1. UNCHANGED <<boot, back>> BY <3>1, <3>2, <3>4 DEF TakeCommand, PageKinds
      <4> QED BY <1>2, <1>6, <1>9, <4>1 DEF Gone
    <3> QED BY <3>3, <3>4
  <2>3. CASE boot' = [boot EXCEPT !.got = got] /\ UNCHANGED back
    <3>1. boot'.got = got /\ boot'.proto1 = boot.proto1 /\ boot'.flash = boot.flash
      BY <1>13, <2>3 DEF BootRecord
    <3>2. Gone' BY <1>2, <3>1 DEF Gone, PageNumbers
    <3>3. Len(boot'.got) <= Len(boot.got) + 1 BY <1>8, <1>9, <3>1
    <3> QED BY <1>6, <1>8, <2>3, <3>1, <3>2, <3>3
  <2>4. CASE ~(Len(got) < PageLength) /\ TakePage(got)
    <3>1. Len(got) = PageLength /\ Len(line) = 1 /\ Unsent = 0
      <4>1. ~(Len(got) < PageLength) /\ Len(got) = Len(boot.got) + 1 BY <1>8, <2>4
      <4> HIDE DEF byte
      <4> QED BY <1>9, <1>10, <1>11, <1>12, <4>1, LastByte
    <3>2. source.state = "LOAD_PAGE" BY <1>10, <3>1 DEF PageStates
    <3>3. Tail(line) = <<>>
      <4>1. Len(Tail(line)) = 0 BY <1>7, <3>1
      <4> QED BY <1>7, <4>1, EmptySeq
    <3>4. /\ boot'.got = <<>> /\ boot'.proto1 = boot.proto1 /\ Gone'
          /\ back' = <<>> \/ \E ch \in Chars : back' = <<ch>>
      BY <1>2, <1>6, <1>8, <2>4, <3>1, PageAnswered
    <3>5. boot'.got \in Seq(PageByte) /\ Len(boot'.got) = 0 BY <3>4
    <3> QED BY <1>9, <3>2, <3>3, <3>4, <3>5
  <2> QED BY <1>14, <2>1, <2>2, <2>3, <2>4
<1>16. Len(boot'.got) + Len(line') + Unsent' <= PageLength'
  <2>1. Unsent' = Unsent /\ PageLength' = PageLength
    BY <1>1, <1>15 DEF Unsent, SumLength, PageLength
  <2>2. Len(boot'.got) <= Len(boot.got) + 1 /\ Len(boot'.got) \in Nat
    BY <1>9, <1>15
  <2>3. Len(line') = Len(line) - 1 BY <1>1, <1>7
  <2> QED BY <1>9, <1>10, <1>11, <1>12, <2>1, <2>2, <2>3
<1>17. line' \in Seq(PageByte) BY <1>1, <1>7
<1>18. Counted' BY <1>1, <1>15, <1>16, <1>17 DEF Counted
<1>19. source.ret # "0" \/ source.query BY <1>1 DEF Orderly, Flashed
<1>20. ~(source.state = "SEND_PAGE" /\ source.page_offset < 0) BY <1>3, <1>4
<1>21. Exchanged' BY <1>1, <1>18, <1>20, AsksIs DEF Exchanged, PageStates
<1>22. Flashed' BY <1>1, <1>15, <1>19 DEF Flashed, PageStates
<1> QED BY <1>1, <1>15, <1>21, <1>22 DEF Orderly

LEMMA OrderReads ==
    ASSUME IInv, Orderly, ModuleReads
    PROVE  Orderly'
<1>1. line # <<>> /\ UNCHANGED <<source, image>> BY DEF ModuleReads
<1>2. CASE source.state \in DOMAIN Asks BY <1>2, OrderReadsCommand
<1>3. CASE source.state \in PageStates BY <1>3, OrderReadsPage
<1>4. CASE source.state \in {"SUCCESS", "FAILURE"}
  <2>1. source.ret # "0" \/ source.query BY <1>1 DEF Orderly, Flashed
  <2>2. boot'.proto1 = boot.proto1
    <3>1. boot \in BootRecord BY DEF IInv, TypeOK
    <3>2. \A kind : TakeCommand(kind) => boot'.proto1 = boot.proto1
      <4> SUFFICES ASSUME NEW kind, TakeCommand(kind) PROVE boot'.proto1 = boot.proto1
        OBVIOUS
      <4> DEFINE f == [k \in PageNumbers |-> Erased]
                 g == <<Command("P")>>
      <4>1. \/ UNCHANGED boot \/ boot' = [boot EXCEPT !.baud = "fast"]
            \/ boot' = [boot EXCEPT !.flash = f] \/ boot' = [boot EXCEPT !.got = g]
            \/ boot' = [boot EXCEPT !.phase = "app"]
        BY DEF TakeCommand
      <4> HIDE DEF f, g
      <4> QED BY <3>1, <4>1 DEF BootRecord
    <3>3. \A got : TakePage(got) => boot'.proto1 = boot.proto1
      <4> SUFFICES ASSUME NEW got, TakePage(got) PROVE boot'.proto1 = boot.proto1
        OBVIOUS
      <4>1. \/ boot' = [boot EXCEPT !.got = <<>>]
            \/ \E content, n : boot' = [boot EXCEPT !.got = <<>>, !.flash[n] = content]
        BY DEF TakePage
      <4> QED BY <3>1, <4>1 DEF BootRecord
    <3>4. CASE \E got : boot' = [boot EXCEPT !.got = got] BY <3>1, <3>4 DEF BootRecord
    <3> QED BY <3>2, <3>3, <3>4, ReadsOne
  <2> QED BY <1>1, <1>4, <2>1, <2>2, AsksIs DEF Orderly, Exchanged, Flashed
<1>5. CASE source.state \in {"INIT", "ENTER_BOOTLOADER", "GET_BL_VERSION"}
  BY <1>1, <1>5 DEF Orderly, Exchanged, Quiet
<1>6. source.state \in States BY Parts DEF SourceRecord
<1> QED BY <1>2, <1>3, <1>4, <1>5, <1>6, NextStates, AsksIs DEF PageStates

\* A reset loses the bytes of a page, and nothing else that counts.
LEMMA OrderResets ==
    ASSUME IInv, Orderly, ModuleResets
    PROVE  Orderly'
<1>1. UNCHANGED <<image, source, line, back>> /\ boot \in BootRecord
  BY DEF ModuleResets, IInv, TypeOK
<1> DEFINE phase == IF source.broken THEN "boot" ELSE "app"
<1>2. boot' = [boot EXCEPT !.phase = phase, !.baud = "slow", !.got = <<>>] BY DEF ModuleResets
<1> HIDE DEF phase
<1>3. boot'.got = <<>> /\ boot'.proto1 = boot.proto1 /\ boot'.flash = boot.flash
  BY <1>1, <1>2 DEF BootRecord
<1>4. (Gone => Gone') /\ (Installed => Installed')
  BY <1>1, <1>3 DEF Gone, PageNumbers, Installed, HasData, Pages
<1>5. Quiet => Quiet' BY <1>1, <1>3 DEF Quiet
<1>6. \A kind : Asked(kind) => Asked(kind)'
  <2> SUFFICES ASSUME NEW kind, Asked(kind) PROVE Asked(kind)' OBVIOUS
  <2> QED BY <1>1, <1>3 DEF Asked
<1>7. source.state \in DOMAIN Asks => Asked(Asks[source.state])'
  <2>1. SUFFICES ASSUME source.state \in DOMAIN Asks PROVE Asked(Asks[source.state])' OBVIOUS
  <2>2. Asked(Asks[source.state]) BY <2>1 DEF Orderly, Exchanged
  <2> QED BY <1>1, <1>3, <2>2 DEF Asked
<1>8. Counted => Counted'
  <2>1. SUFFICES ASSUME Counted PROVE Counted' OBVIOUS
  <2>2. line \in Seq(PageByte) /\ boot.got \in Seq(PageByte) BY <2>1 DEF Counted
  <2>3. Unsent' = Unsent /\ PageLength' = PageLength
    BY <1>1, <1>3 DEF Unsent, SumLength, PageLength
  <2>4. Len(boot'.got) = 0 /\ boot'.got \in Seq(PageByte) BY <1>3
  <2>5. Unsent \in Int /\ PageLength \in Nat
    <3>1. /\ source.page_offset \in Int /\ PageSize \in Nat
      BY Parts, Gen3Assumption DEF SourceRecord
    <3> QED BY <3>1 DEF Unsent, SumLength, PageLength
  <2>6. Len(boot.got) \in Nat /\ Len(line) \in Nat BY <2>2
  <2>7. Len(boot.got) + Len(line) + Unsent <= PageLength BY <2>1 DEF Counted
  <2>8. Len(boot'.got) + Len(line') + Unsent' <= PageLength'
    BY <1>1, <2>3, <2>4, <2>5, <2>6, <2>7
  <2> QED BY <1>1, <1>3, <2>1, <2>4, <2>8 DEF Counted
<1>9. Exchanged' BY <1>1, <1>5, <1>7, <1>8 DEF Orderly, Exchanged
<1>10. Flashed' BY <1>1, <1>4 DEF Orderly, Flashed
<1> QED BY <1>1, <1>3, <1>9, <1>10 DEF Orderly

\* A byte that is lost or spoilt on the line.
LEMMA OrderLineFails ==
    ASSUME IInv, Orderly, Fault, LineFails
    PROVE  Orderly'
<1>1. UNCHANGED <<image, source, boot, back>> /\ line # <<>> BY DEF Fault, LineFails
<1>2. \/ line' = Tail(line)
      \/ \E byte \in Damaged(Head(line)) : line' = <<byte>> \o Tail(line)
  BY DEF LineFails
<1>3. source.ret # "0" \/ source.query BY <1>1 DEF Orderly, Flashed
<1>4. (Gone => Gone') /\ (Installed => Installed')
  BY <1>1 DEF Gone, PageNumbers, Installed, HasData, Pages
<1>5. Quiet => Quiet' BY <1>1 DEF Quiet
<1>6. source.state \in DOMAIN Asks => Asked(Asks[source.state])'
  <2>1. SUFFICES ASSUME source.state \in DOMAIN Asks PROVE Asked(Asks[source.state])' OBVIOUS
  <2>1a. PICK kind : kind = Asks[source.state] OBVIOUS
  <2>2. kind \in {"B", "L", "R", "V", "I", "C"} /\ Asked(kind)
    BY <2>1, <2>1a, AsksIs DEF Orderly, Exchanged
  <2>3. PICK b \in Bytes : line = <<b>> /\ b.kind \in {kind, "stray"} BY <1>1, <2>2 DEF Asked
  <2>4. Head(line) = b /\ Tail(line) = <<>> BY <2>3
  <2>5. Damaged(b) = {Byte("stray", 0)} BY <2>2, <2>3 DEF Damaged
  <2> DEFINE d == Byte("stray", 0)
  <2>6. d \in Bytes /\ d.kind = "stray" BY DEF Byte, Bytes, Kinds
  <2> HIDE DEF d
  <2>7. <<d>> \o <<>> = <<d>> OBVIOUS
  <2>8. line' \in {<<>>, <<d>>} BY <1>2, <2>4, <2>5, <2>7 DEF d
  <2>9. line' # <<>> => back' = <<>> /\ \E byte \in Bytes : line' = <<byte>>
                                                         /\ byte.kind \in {kind, "stray"}
    BY <1>1, <2>2, <2>6, <2>8 DEF Asked
  <2>10. Asked(kind)' BY <1>1, <2>2, <2>9 DEF Asked
  <2> QED BY <1>1, <2>1a, <2>10
<1>7. Counted => Counted'
  <2>1. SUFFICES ASSUME Counted PROVE Counted' OBVIOUS
  <2>2. line \in Seq(PageByte) /\ back = <<>> BY <1>1, <2>1 DEF Counted
  <2>3. Unsent' = Unsent /\ PageLength' = PageLength
    BY <1>1 DEF Unsent, SumLength, PageLength
  <2>4. Head(line) \in PageByte /\ Tail(line) \in Seq(PageByte) /\ Len(Tail(line)) = Len(line) - 1
        /\ Len(line) \in Nat
    BY <1>1, <2>2
  <2>5. Damaged(Head(line)) \subseteq PageByte
    BY Gen3Assumption DEF Damaged, PageByte, Byte, Bytes, PageKinds, Kinds
  <2> DEFINE t == Tail(line)
  <2> HIDE DEF t
  <2>6. line' \in Seq(PageByte) /\ Len(line') \in Nat /\ Len(line') <= Len(line)
    <3>1. t \in Seq(PageByte) /\ Len(t) = Len(line) - 1 BY <2>4 DEF t
    <3>2. CASE line' = t BY <2>4, <3>1, <3>2
    <3>3. CASE \E byte \in PageByte : line' = <<byte>> \o t
      <4>1. PICK byte \in PageByte : line' = <<byte>> \o t BY <3>3
      <4>2. <<byte>> \in Seq(PageByte) /\ Len(<<byte>>) = 1 OBVIOUS
      <4>3. line' \in Seq(PageByte) /\ Len(line') = 1 + Len(t)
        BY <3>1, <4>1, <4>2, ConcatProperties
      <4> QED BY <2>4, <3>1, <4>3
    <3> QED BY <1>2, <2>5, <3>2, <3>3 DEF t
  <2>7. Len(boot.got) \in Nat
    <3>1. boot.got \in Seq(PageByte) BY <2>1 DEF Counted
    <3> QED BY <3>1
  <2>8. Unsent \in Int /\ PageLength \in Nat
    <3>1. /\ source.page_offset \in Int /\ PageSize \in Nat
      BY Parts, Gen3Assumption DEF SourceRecord
    <3> QED BY <3>1 DEF Unsent, SumLength, PageLength
  <2>9. Len(boot.got) + Len(line) + Unsent <= PageLength BY <2>1 DEF Counted
  <2>10. Len(boot.got) + Len(line') + Unsent <= PageLength BY <2>4, <2>6, <2>7, <2>8, <2>9
  <2>11. Len(boot'.got) + Len(line') + Unsent' <= PageLength' BY <1>1, <2>3, <2>10
  <2>12. boot'.got \in Seq(PageByte) BY <1>1, <2>1 DEF Counted
  <2> QED BY <1>1, <2>2, <2>6, <2>11, <2>12 DEF Counted
<1>8. Exchanged' BY <1>1, <1>5, <1>6, <1>7 DEF Orderly, Exchanged
<1>9. Flashed' BY <1>1, <1>3, <1>4 DEF Orderly, Flashed
<1> QED BY <1>1, <1>8, <1>9 DEF Orderly

\* A character of the module that is lost.
LEMMA OrderAnswerLost ==
    ASSUME IInv, Orderly, Fault, AnswerLost
    PROVE  Orderly'
<1>1. UNCHANGED <<image, source, boot, line>> /\ back # <<>> /\ back' = Tail(back) /\ back' = Left
  BY DEF Fault, AnswerLost, Left
<1>2. (Gone => Gone') /\ (Installed => Installed')
  BY <1>1 DEF Gone, PageNumbers, Installed, HasData, Pages
<1>3. Quiet => Quiet' BY <1>1 DEF Quiet
<1>4. source.state \in DOMAIN Asks => Asked(Asks[source.state])'
  <2>1. SUFFICES ASSUME source.state \in DOMAIN Asks PROVE Asked(Asks[source.state])' OBVIOUS
  <2>2. PICK kind : kind = Asks[source.state] OBVIOUS
  <2>3. Asked(kind) BY <2>1, <2>2 DEF Orderly, Exchanged
  <2>4. Asked(kind)' BY <1>1, <2>3, AskedStill
  <2> QED BY <1>1, <2>2, <2>4
<1>5. Counted => Counted'
  <2>1. SUFFICES ASSUME Counted PROVE Counted' OBVIOUS
  <2>2. PICK ch \in Chars : back = <<ch>> BY <1>1, <2>1 DEF Counted
  <2>3. back' = <<>> BY <1>1, <2>2
  <2>4. Unsent' = Unsent /\ PageLength' = PageLength
    BY <1>1 DEF Unsent, SumLength, PageLength
  <2> QED BY <1>1, <2>1, <2>3, <2>4 DEF Counted
<1>6. Exchanged' BY <1>1, <1>3, <1>4, <1>5 DEF Orderly, Exchanged
<1>7. source.state = "VERIFY" => back' = <<>>
  <2> SUFFICES ASSUME source.state = "VERIFY" PROVE back' = <<>> OBVIOUS
  <2>1. back \in {<<"U">>, <<"FAIL">>} BY <1>1 DEF Orderly, Flashed
  <2> QED BY <1>1, <2>1
<1>8. <<>> # <<"U">> OBVIOUS
<1>9. Flashed' BY <1>1, <1>2, <1>7, <1>8 DEF Orderly, Flashed
<1> QED BY <1>1, <1>6, <1>9 DEF Orderly

\* The parts of the state the invariant is about.
LEMMA SameOrder ==
    ASSUME Orderly, UNCHANGED <<image, line, back, boot>>,
           source'.state = source.state, source'.page_offset = source.page_offset,
           source'.proto1 = source.proto1, source'.ret = source.ret,
           source'.query = source.query, source'.buffer = source.buffer
    PROVE  Orderly'
<1>1. (Gone => Gone') /\ (Installed => Installed')
  BY DEF Gone, PageNumbers, Installed, HasData, Pages
<1>2. Quiet => Quiet' BY DEF Quiet
<1>3. source.state \in DOMAIN Asks => Asked(Asks[source.state])'
  <2>1. SUFFICES ASSUME source.state \in DOMAIN Asks PROVE Asked(Asks[source.state])' OBVIOUS
  <2>2. Asked(Asks[source.state]) BY <2>1 DEF Orderly, Exchanged
  <2> QED BY <2>2 DEF Asked
<1>4. Counted => Counted'
  <2>1. Unsent' = Unsent /\ PageLength' = PageLength BY DEF Unsent, SumLength, PageLength
  <2> QED BY <2>1 DEF Counted
<1>5. Exchanged' BY <1>2, <1>3, <1>4 DEF Orderly, Exchanged
<1>6. Flashed' BY <1>1 DEF Orderly, Flashed
<1> QED BY <1>5, <1>6 DEF Orderly

LEMMA OrderTime ==
    ASSUME IInv, Orderly, TimePasses
    PROVE  Orderly'
<1>1. source \in SourceRecord /\ UNCHANGED <<image, line, back, boot>> BY Parts DEF TimePasses
<1> DEFINE age == IF source.age + 1 \in Times THEN source.age + 1 ELSE source.age
<1>2. source' = [source EXCEPT !.age = age] BY DEF TimePasses
<1> HIDE DEF age
<1>3. /\ source'.state = source.state /\ source'.page_offset = source.page_offset
      /\ source'.proto1 = source.proto1 /\ source'.ret = source.ret
      /\ source'.query = source.query /\ source'.buffer = source.buffer
  BY <1>1, <1>2 DEF SourceRecord
<1> QED BY <1>1, <1>3, SameOrder

LEMMA OrderInit ==
    ASSUME Init
    PROVE  Orderly
<1>1. source.state = "INIT" /\ source.ret = "EAGAIN" /\ ~source.proto1 /\ source.buffer = Junk
  <2>1. source \in [state : {"INIT"}, age : {0}, retries : {0}, eof : {FALSE}, query : BOOLEAN,
                    proto1 : {FALSE}, page_num : {0}, page_offset : {0}, buffer : {Junk},
                    text : {""}, baud : {"none"}, broken : {FALSE}, pos : {0}, ret : {"EAGAIN"}]
    BY DEF Init
  <2> QED BY <2>1
<1>2. Quiet BY DEF Init, Quiet
<1>3. source.buffer # OldPage BY <1>1 DEF Junk, OldPage
<1> QED BY <1>1, <1>2, <1>3, AsksIs DEF Orderly, Exchanged, Flashed

LEMMA OrderStep ==
    ASSUME IInv, forged \/ Orderly, [Next]_vars
    PROVE  (forged \/ Orderly)'
<1>1. CASE forged
  <2>1. forged' = TRUE \/ forged' = forged
    BY DEF Next, Tick, ModuleReads, ModuleResets, Fault, LineFails, AnswerLost, AnswerForged,
           TimePasses, vars
  <2> QED BY <1>1, <2>1
<1>2. CASE Orderly
  <2>1. CASE Tick
    <3>1. UNCHANGED boot /\ UNCHANGED image BY <2>1 DEF Tick
    <3> QED BY <1>2, <2>1, <3>1, OrderInitialise, OrderEnterBootloader, OrderGetVersion,
               OrderVersion, OrderProtocol, OrderBaudRate, OrderExtVersion, OrderStartTransfer,
               OrderSendPage, OrderNextPage, OrderSamePage, OrderVerify
            DEF Tick
  <2>2. CASE ModuleReads BY <1>2, <2>2, OrderReads
  <2>3. CASE ModuleResets BY <1>2, <2>3, OrderResets
  <2>4. CASE Fault
    <3>1. AnswerForged => forged' = TRUE BY DEF AnswerForged
    <3> QED BY <1>2, <2>4, <3>1, OrderLineFails, OrderAnswerLost DEF Fault
  <2>5. CASE TimePasses BY <1>2, <2>5, OrderTime
  <2>6. CASE UNCHANGED vars BY <1>2, <2>6, SameOrder DEF vars
  <2> QED BY <2>1, <2>2, <2>3, <2>4, <2>5, <2>6 DEF Next
<1> QED BY <1>1, <1>2

LEMMA Ordered == Spec => [](IInv /\ (forged \/ Orderly))
<1>1. Init => IInv /\ (forged \/ Orderly) BY InitInvariant, OrderInit
<1>2. (IInv /\ (forged \/ Orderly)) /\ [Next]_vars => (IInv /\ (forged \/ Orderly))'
  <2> SUFFICES ASSUME IInv, forged \/ Orderly, [Next]_vars
               PROVE  (IInv /\ (forged \/ Orderly))'
    OBVIOUS
  <2>1. IInv' BY StepInvariant
  <2>2. (forged \/ Orderly)' BY OrderStep
  <2> QED BY <2>1, <2>2
<1> QED BY <1>1, <1>2, PTL DEF Spec

\* Headed of _send_page(): the header of a page finds room in the transmit buffer, for
\* images, pages and buffers of any size and any number of faults, until the line has made
\* up an answer.
THEOREM HeadersFit == Spec => []Headed
<1>1. IInv /\ (forged \/ Orderly) => Headed
  <2> SUFFICES ASSUME Orderly, source.state = "SEND_PAGE", source.page_offset < 0
               PROVE  Free >= 3
    BY DEF Headed
  <2>1. line = <<>> BY DEF Orderly, Exchanged, Quiet
  <2> QED BY <2>1, Gen3Assumption DEF Free
<1> QED BY <1>1, Ordered, PTL

\* WholeImage of xbee_bl_gen3_install_tick() for any number of faults: whatever is lost or
\* spoilt on the line, however often the module is reset or fails to write, an update that
\* reports success has left the whole image in the flash, unless the line has made up an
\* answer.
THEOREM WholeImageUnlessForged == Spec => [](WholeImage \/ forged)
<1>1. IInv /\ (forged \/ Orderly) => WholeImage \/ forged
  BY DEF WholeImage, Orderly, Flashed
<1> QED BY <1>1, Ordered, PTL
=============================================================================
