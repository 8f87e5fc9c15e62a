--------------------------------- MODULE Fifo ---------------------------------
(***************************************************************************)
(* What src/include/xbee/cbuf.h promises of a circular buffer: a first-in  *)
(* first-out queue of at most Capacity bytes.  A block that is appended    *)
(* may come in several parts, and the bytes that are read may leave in     *)
(* several parts, but always in order and only once.                       *)
(***************************************************************************)
EXTENDS Integers, Sequences

CONSTANTS Byte, Capacity

VARIABLES
    q,      \* the bytes in the buffer
    offer,  \* bytes of a call that found room for them, yet to be appended
    out     \* the bytes that were read last

vars == <<q, offer, out>>

Room == Capacity - Len(q)

Init == q = <<>> /\ offer = <<>> /\ out = <<>>

\* A call with the bytes s finds room for them; it refuses the others it has.
Offer(s) ==
    /\ offer = <<>> /\ Len(s) <= Room
    /\ offer' = s
    /\ UNCHANGED <<q, out>>

\* The next n bytes that were offered are in the buffer.
Accept(n) ==
    /\ Len(q) + n <= Capacity
    /\ q' = q \o SubSeq(offer, 1, n)
    /\ offer' = SubSeq(offer, n + 1, Len(offer))
    /\ UNCHANGED out

\* A byte is appended at once; there is room for it.
Append1(b) ==
    /\ Room > 0
    /\ q' = Append(q, b)
    /\ UNCHANGED <<offer, out>>

\* The n oldest bytes are read ...
Take(n) ==
    /\ out' = SubSeq(q, 1, n)
    /\ q' = SubSeq(q, n + 1, Len(q))
    /\ UNCHANGED offer

\* ... or dropped.
Discard(n) ==
    /\ q' = SubSeq(q, n + 1, Len(q))
    /\ UNCHANGED <<offer, out>>

Next ==
    \/ \E n \in 0 .. Room : \E s \in [1 .. n -> Byte] : Offer(s)
    \/ \E n \in 1 .. Len(offer) : Accept(n)
    \/ \E b \in Byte : Append1(b)
    \/ \E n \in 0 .. Len(q) : Take(n) \/ Discard(n)

Spec == Init /\ [][Next]_vars
=============================================================================
