CONSTANTS
    c1 = c1
    c2 = c2
    Conn = {c1, c2}
    Nobody = Nobody
    MaxTry = 2
    Prompt = TRUE
    MaxStarts = 2
    MaxUnread = 1
SPECIFICATION FairSpec
INVARIANTS
    TypeOK
    AliveWhenUsed
    QuietAfterStop
PROPERTIES
    ReplacedAtRest
    CallsReturn
    AnswerArrives
    ImplementsRunner
CHECK_DEADLOCK FALSE
