CONSTANTS
    SizeMod = 65536
    Sample <- MCSample
    MaxLen = 5
SPECIFICATION Spec
INVARIANTS
    EncodeCorrect
    RoundTrip
    Frameable
CHECK_DEADLOCK FALSE
