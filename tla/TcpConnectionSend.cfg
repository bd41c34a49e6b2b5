CONSTANTS
    t1 = t1
    t2 = t2
    empty = empty
    text = text
    Msg = {text}
    Size <- MCSize
    Quantum = 1
    Thread = {t1, t2}
    MaxSends = 3
    PeerByte <- MCPeerByte
    MaxIn = 2
    EarlyUse = FALSE
SPECIFICATION FairSpec
INVARIANTS
    TypeOK
    WireInOrder
    WriteIsFront
    NoStranded
    NoSilentLoss
PROPERTIES
    EveryMessageLeaves
CHECK_DEADLOCK FALSE
