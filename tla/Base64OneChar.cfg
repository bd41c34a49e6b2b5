CONSTANTS
    SizeMod = 65536
    Sample <- MCSample
    MaxLen = 5
SPECIFICATION Spec
INVARIANTS
    InBounds
CHECK_DEADLOCK FALSE
