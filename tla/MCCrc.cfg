SPECIFICATION Spec
CONSTANTS
    RegBits = 3
    ByteBits = 3
    CrcWidths = {2, 3}
    MaxBytes = 2
INVARIANTS
    SregIsRemainder
    ReturnedIsSettled
