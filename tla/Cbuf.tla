--------------------------------- MODULE Cbuf ---------------------------------
(***************************************************************************)
(* The circular buffer of the serial drivers and of the OTA client         *)
(* (src/xbee/xbee_cbuf.c).  It has no lock: an interrupt handler works on  *)
(* one end while the main program works on the other.  An interrupt can    *)
(* come between any two accesses of the main program to `head', `tail' and *)
(* the bytes, and runs to its end, so that the calls of the main program   *)
(* are sequences of steps here and those of the handler are single steps.  *)
(*                                                                         *)
(* The code reduces an index by `& mask' with mask = 2^n - 1; on unsigned  *)
(* integers that is the remainder by Size = mask + 1.                      *)
(***************************************************************************)
EXTENDS Integers, Sequences

CONSTANTS
    Size,       \* mask + 1: bytes of data[], one of which separates head and tail
    Byte,
    MaxBlock,   \* bound: bytes of one put or get
    Mixes       \* the ways a buffer is used

\* What the interrupt handler calls on a buffer, and what the main program calls.
MixType == [isr : {"putch", "getch", "none"},
            main : SUBSET {"putch", "put", "getch", "get", "flush"}]

ASSUME CbufAssumption ==
    /\ Size \in Nat /\ Size >= 4
    /\ MaxBlock \in Nat
    /\ Mixes \subseteq MixType

VARIABLES
    head, tail, data,   \* of the xbee_cbuf_t
    mix,                \* how this buffer is used
    pc,                 \* where the main program is
    buf,                \* bytes it has still to copy in, or has just copied out
    len,                \* `length', of xbee_cbuf_get()
    out                 \* bytes the last read took from the buffer

vars == <<head, tail, data, mix, pc, buf, len, out>>

Index == 0 .. Size - 1
MinOf(a, b) == IF a <= b THEN a ELSE b

\* xbee_cbuf_used() and xbee_cbuf_free()
Used == (tail - head) % Size
Free == (head - tail - 1) % Size

NextIndex(i) == (i + 1) % Size

\* The byte at index i; past the end of the array it can be any.
ByteAt(i) == IF i \in Index THEN {data[i]} ELSE Byte

\* memcpy() into the buffer at index i, and out of it.
CopiedIn(i, s) ==
    [j \in Index |-> IF j \in i .. (i + Len(s) - 1) THEN s[j - i + 1] ELSE data[j]]
CopiedOut(i, n) == [k \in 1 .. n |-> data[i + k - 1]]

Init ==
    /\ head = 0 /\ tail = 0
    /\ data \in [Index -> Byte]
    /\ mix \in Mixes
    /\ pc = "idle" /\ buf = <<>> /\ len = 0
    /\ out = <<>>

Calls(f) == pc = "idle" /\ f \in mix.main
-----------------------------------------------------------------------------
(* The interrupt handler *)

\* Mutant: the byte that makes the buffer look empty is accepted.
IsrPutchOverruns ==
    /\ mix.isr = "putch"
    /\ \E b \in Byte : data' = [data EXCEPT ![tail] = b]
    /\ tail' = NextIndex(tail)
    /\ UNCHANGED <<head, mix, pc, buf, len, out>>

\* xbee_cbuf_putch()
IsrPutch ==
    /\ mix.isr = "putch"
    /\ \E b \in Byte : data' = [data EXCEPT ![tail] = b]
    /\ tail' = IF NextIndex(tail) = head THEN tail ELSE NextIndex(tail)
    /\ UNCHANGED <<head, mix, pc, buf, len, out>>

\* xbee_cbuf_getch()
IsrGetch ==
    /\ mix.isr = "getch" /\ head # tail
    /\ \E b \in ByteAt(head) : out' = <<b>>
    /\ head' = NextIndex(head)
    /\ UNCHANGED <<tail, data, mix, pc, buf, len>>
-----------------------------------------------------------------------------
(* xbee_cbuf_putch() in the main program: the byte is written before the     *)
(* buffer is known to have room for it.                                      *)

PutchStore(b) ==
    /\ Calls("putch")
    /\ data' = [data EXCEPT ![tail] = b]
    /\ pc' = "putch_check" /\ buf' = <<b>>
    /\ UNCHANGED <<head, tail, mix, len, out>>

PutchCheck ==
    /\ pc = "putch_check"
    /\ IF NextIndex(tail) = head THEN pc' = "idle" /\ buf' = <<>>
       ELSE pc' = "putch_tail" /\ UNCHANGED buf
    /\ UNCHANGED <<head, tail, data, mix, len, out>>

PutchTail ==
    /\ pc = "putch_tail"
    /\ tail' = NextIndex(tail)
    /\ pc' = "idle" /\ buf' = <<>>
    /\ UNCHANGED <<head, data, mix, len, out>>
-----------------------------------------------------------------------------
(* xbee_cbuf_put() *)

PutBegin(s) ==
    /\ Calls("put")
    /\ buf' = SubSeq(s, 1, MinOf(Len(s), Free))
    /\ pc' = IF Len(buf') >= Size - tail THEN "put_wrap" ELSE "put_copy"
    /\ UNCHANGED <<head, tail, data, mix, len, out>>

\* The part that reaches the end of the array ...
PutWrap ==
    /\ pc = "put_wrap"
    /\ data' = CopiedIn(tail, SubSeq(buf, 1, Size - tail))
    /\ pc' = "put_zero"
    /\ UNCHANGED <<head, tail, mix, buf, len, out>>

PutZero ==
    /\ pc = "put_zero"
    /\ buf' = SubSeq(buf, Size - tail + 1, Len(buf))
    /\ tail' = 0
    /\ pc' = "put_copy"
    /\ UNCHANGED <<head, data, mix, len, out>>

\* ... and the part that does not.
PutCopy ==
    /\ pc = "put_copy"
    /\ data' = CopiedIn(tail, buf)
    /\ pc' = "put_tail"
    /\ UNCHANGED <<head, tail, mix, buf, len, out>>

PutTail ==
    /\ pc = "put_tail"
    /\ tail' = tail + Len(buf)
    /\ pc' = "idle" /\ buf' = <<>>
    /\ UNCHANGED <<head, data, mix, len, out>>
-----------------------------------------------------------------------------
(* xbee_cbuf_getch() in the main program *)

GetchBegin ==
    /\ Calls("getch") /\ head # tail
    /\ pc' = "getch_load"
    /\ UNCHANGED <<head, tail, data, mix, buf, len, out>>

GetchLoad ==
    /\ pc = "getch_load"
    /\ \E b \in ByteAt(head) : buf' = <<b>>
    /\ pc' = "getch_head"
    /\ UNCHANGED <<head, tail, data, mix, len, out>>

GetchHead ==
    /\ pc = "getch_head"
    /\ head' = NextIndex(head)
    /\ out' = buf /\ buf' = <<>>
    /\ pc' = "idle"
    /\ UNCHANGED <<tail, data, mix, len>>
-----------------------------------------------------------------------------
(* xbee_cbuf_get().  A read that ends with the array does not wrap: it leaves *)
(* head = Size, where xbee_cbuf_used() and the next get find 0.               *)

GetBegin(n) ==
    /\ Calls("get")
    /\ len' = MinOf(n, Used)
    /\ pc' = IF len' > Size - head THEN "get_wrap" ELSE "get_copy"
    /\ UNCHANGED <<head, tail, data, mix, buf, out>>

GetWrap ==
    /\ pc = "get_wrap"
    /\ buf' = CopiedOut(head, Size - head)
    /\ pc' = "get_zero"
    /\ UNCHANGED <<head, tail, data, mix, len, out>>

GetZero ==
    /\ pc = "get_zero"
    /\ len' = len - (Size - head)
    /\ head' = 0
    /\ out' = buf /\ buf' = <<>>
    /\ pc' = "get_copy"
    /\ UNCHANGED <<tail, data, mix>>

GetCopy ==
    /\ pc = "get_copy"
    /\ buf' = CopiedOut(head, len)
    /\ pc' = "get_head"
    /\ UNCHANGED <<head, tail, data, mix, len, out>>

GetHead ==
    /\ pc = "get_head"
    /\ head' = head + len
    /\ out' = buf /\ buf' = <<>> /\ len' = 0
    /\ pc' = "idle"
    /\ UNCHANGED <<tail, data, mix>>
-----------------------------------------------------------------------------
(* xbee_cbuf_flush(): called by the main program at either end of the buffer *)

FlushBegin ==
    /\ Calls("flush")
    /\ len' = tail
    /\ pc' = "flush_head"
    /\ UNCHANGED <<head, tail, data, mix, buf, out>>

FlushHead ==
    /\ pc = "flush_head"
    /\ head' = len
    /\ len' = 0 /\ pc' = "idle"
    /\ UNCHANGED <<tail, data, mix, buf, out>>
-----------------------------------------------------------------------------

Isr == IsrPutch \/ IsrGetch

Block == UNION {[1 .. n -> Byte] : n \in 0 .. MaxBlock}

Main ==
    \/ \E b \in Byte : PutchStore(b)
    \/ PutchCheck \/ PutchTail
    \/ \E s \in Block : PutBegin(s)
    \/ PutWrap \/ PutZero \/ PutCopy \/ PutTail
    \/ GetchBegin \/ GetchLoad \/ GetchHead
    \/ \E n \in 0 .. MaxBlock : GetBegin(n)
    \/ GetWrap \/ GetZero \/ GetCopy \/ GetHead
    \/ FlushBegin \/ FlushHead

Next == Isr \/ Main

Spec == Init /\ [][Next]_vars
-----------------------------------------------------------------------------
(* Properties *)

Pc == {"idle", "putch_check", "putch_tail", "put_wrap", "put_zero", "put_copy",
       "put_tail", "getch_load", "getch_head", "get_wrap", "get_zero", "get_copy",
       "get_head", "flush_head"}

TypeOK ==
    /\ head \in 0 .. Size
    /\ tail \in Index
    /\ data \in [Index -> Byte]
    /\ mix \in Mixes
    /\ pc \in Pc
    /\ buf \in Seq(Byte)
    /\ len \in 0 .. Size
    /\ out \in Seq(Byte)

\* The bytes in the buffer, and those a call has found room for.
Ring(h, t, d) == [k \in 1 .. ((t - h) % Size) |-> d[(h + k - 1) % Size]]
Contents == Ring(head, tail, data)
Offered == IF pc \in {"putch_tail", "put_wrap", "put_zero", "put_copy", "put_tail"}
           THEN buf ELSE <<>>

Queue == INSTANCE Fifo WITH Capacity <- Size - 1, q <- Contents, offer <- Offered

\* The buffer is a bounded queue, whatever the handler does between two accesses
\* of the main program: no byte is lost once it is accepted, none is read twice,
\* out of order or before it is written, and none is accepted by a full buffer.
Implements == Queue!Spec
=============================================================================
