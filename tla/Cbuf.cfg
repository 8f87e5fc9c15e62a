\* The smallest buffer xbee_cbuf_init() accepts holds three bytes.
SPECIFICATION Spec
CONSTANTS
    Size = 4
    Byte = {0, 1}
    MaxBlock = 4
    Mixes <- SoundMixes
PROPERTY Implements
