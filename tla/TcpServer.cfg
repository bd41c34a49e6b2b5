CONSTANTS
    c1 = c1
    c2 = c2
    a1 = a1
    Io = Io
    Nobody = Nobody
    Conn = {c1, c2}
    App = {a1}
    MaxCalls = 2
SPECIFICATION FairSpec
INVARIANTS
    TypeOK
    AcceptedFirst
    GoneWhenAnnounced
    ListedIsWatched
PROPERTIES
    EndedIsForgotten
    DisconnectCompletes
CHECK_DEADLOCK FALSE
