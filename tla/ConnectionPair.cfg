CONSTANTS
    t1 = t1
    t2 = t2
    empty = empty
    text = text
    Msg = {empty, text}
    Size <- MCSize
    Quantum = 2
    Thread = {t1}
    MaxSends = 2
    PeerByte <- MCPeerByte
    MaxIn = 6
SPECIFICATION FairSpec
INVARIANTS
    ChunkingIrrelevant
PROPERTIES
    FramesDelivered
    EofReported
    ImplementsChannel
    AudibleArrive
CHECK_DEADLOCK FALSE
