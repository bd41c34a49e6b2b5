CONSTANTS
    Kinds = {"server"}
    MaxTry = 30
    Prompt = TRUE
    MaxStarts = 2
SPECIFICATION Spec
INVARIANTS
    RunsAfterStart
CHECK_DEADLOCK FALSE
