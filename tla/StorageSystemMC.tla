-------------------------- MODULE StorageSystemMC --------------------------
(* Small instances of StorageSystem. *)
EXTENDS StorageSystem

CONSTANTS u1, u2, k1, k2, v1, v2

Typing(request, key, value) == [request |-> request, key |-> key, value |-> value]

\* A request for every branch of the handler, and two that conflict.
MCTyped ==
    {Typing("read", k1, Absent), Typing("read", k2, Absent),
     Typing("write", k1, v1), Typing("write", k1, v2),
     Typing("write", k1, Absent), Typing("write", k1, NotText),
     Typing("other", k1, v1), Typing("read", Absent, Absent),
     Typing(Absent, Absent, v1), Typing(NotText, NotText, NotText)}

============================================================================
