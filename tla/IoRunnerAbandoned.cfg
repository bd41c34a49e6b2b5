CONSTANTS
    Kinds = {"client"}
    MaxTry = 30
    Prompt = TRUE
    MaxStarts = 1
SPECIFICATION Spec
INVARIANTS
    NeverTerminates
CHECK_DEADLOCK FALSE
