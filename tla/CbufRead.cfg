\* The receive buffer of a port as xbee_ser_read() reads it.
SPECIFICATION Spec
CONSTANTS
    Size = 4
    Byte = {0, 1}
    MaxBlock = 2
    Mixes <- ReadMixes
PROPERTY Implements
