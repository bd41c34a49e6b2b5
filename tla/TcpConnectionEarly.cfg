CONSTANTS
    t1 = t1
    t2 = t2
    empty = empty
    text = text
    Msg = {empty, text}
    Size <- MCSize
    Quantum = 2
    Thread = {t1, t2}
    MaxSends = 2
    PeerByte = {}
    MaxIn = 0
    EarlyUse = TRUE
SPECIFICATION Spec
INVARIANTS
    NoStranded
CHECK_DEADLOCK FALSE
