CONSTANTS
    Kinds = {"server", "client"}
    MaxTry = 30
    Prompt = TRUE
    MaxStarts = 2
SPECIFICATION FairSpec
INVARIANTS
    TypeOK
    QuietAfterStop
    ServesOnce
    ServerSurvives
PROPERTIES
    CallsReturn
CHECK_DEADLOCK FALSE
