------------------------------ MODULE FrameLinkMC ------------------------------
(* Instances of FrameLink for TLC. *)
EXTENDS FrameLink

\* One handler for modem status frames, one for all frames with an id of 2.
TwoHandlers == <<[type |-> 1, id |-> 0], [type |-> 0, id |-> 2]>>

\* A good line, whose payloads hold start markers; a line that damages a byte,
\* of frames that hold none but as the checksum that ends one; an application that writes.
GoodLine == [payloads |-> {<<1, 2>>, <<2, 5, 5>>, <<5, 0, 2, 3>>}, frames |-> 3,
             faults |-> 0, writes |-> 0, sizes |-> {}]
NoisyLine == [payloads |-> {<<1, 2>>, <<2, 4, 0>>}, frames |-> 4,
              faults |-> 1, writes |-> 0, sizes |-> {}]
Writing == [payloads |-> {<<1, 1>>}, frames |-> 1,
            faults |-> 0, writes |-> 2, sizes |-> {6, 8, 9}]

LinkUses == {GoodLine, NoisyLine, Writing}
WriteUses == {Writing}
=============================================================================
