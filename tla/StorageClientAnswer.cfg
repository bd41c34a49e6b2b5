CONSTANTS
    c1 = c1
    c2 = c2
    Conn = {c1}
    Nobody = Nobody
    MaxTry = 2
    Prompt = TRUE
    MaxStarts = 1
    MaxUnread = 1
SPECIFICATION Spec
INVARIANTS
    AnswerGuarded
CHECK_DEADLOCK FALSE
