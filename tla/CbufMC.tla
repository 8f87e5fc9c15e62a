-------------------------------- MODULE CbufMC --------------------------------
(* Instances of Cbuf for TLC. *)
EXTENDS Cbuf

\* The receive buffer read byte by byte, the transmit buffer, and the buffer of
\* the OTA client, which no interrupt handler touches.
SoundMixes ==
    {[isr |-> "putch", main |-> {"getch", "flush"}],
     [isr |-> "getch", main |-> {"putch", "put", "flush"}],
     [isr |-> "none", main |-> {"put", "get", "flush"}]}

\* The receive buffer as xbee_ser_read() reads it.
ReadMixes == {[isr |-> "putch", main |-> {"get"}]}

=============================================================================
