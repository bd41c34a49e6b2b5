CONSTANTS
    u1 = u1
    u2 = u2
    k1 = k1
    k2 = k2
    v1 = v1
    v2 = v2
    Absent = Absent
    NotText = NotText
    Key = {k1, k2}
    Value = {v1, v2}
    User = {u1, u2}
    Typed <- MCTyped
    MaxCalls = 2
    MaxPolls = 1
    TornReads = FALSE
SPECIFICATION Spec
INVARIANTS
    TypeOK
    OneVerdict
PROPERTIES
    ImplementsStore
CHECK_DEADLOCK FALSE
