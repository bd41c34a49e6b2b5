--------------------------- MODULE StorageRequests ---------------------------
(***************************************************************************)
(* The requests and answers of the storage protocol                        *)
(* (core/include/Storage/StorageCommon.h), JSON objects of which only the  *)
(* three fields the server looks at matter.                                *)
(***************************************************************************)
CONSTANTS
    Key,
    Value,
    Absent,   \* the field, or the key, is not there
    NotText   \* the field is there and is no JSON string.  A text that is no
              \* JSON at all is answered like a request whose fields are all
              \* NotText, one that is no JSON object like an empty object.

ASSUME RequestAssumption ==
    /\ Absent \notin Value \cup Key /\ NotText \notin Value \cup Key
    /\ Absent # NotText
    /\ Absent \notin {"read", "write", "other"}
    /\ NotText \notin {"read", "write", "other"}

Request == [request : {"read", "write", "other", Absent, NotText},
            key : Key \cup {Absent, NotText},
            value : Value \cup {Absent, NotText}]

IsRead(r) == r.request = "read" /\ r.key \in Key
IsWrite(r) == r.request = "write" /\ r.key \in Key /\ r.value \in Value

\* What an answer tells: its status, and the value of a successful read.
Outcome == [status : {"ok", "error"}, value : Value \cup {Absent}]
Ok(v) == [status |-> "ok", value |-> v]
Error == [status |-> "error", value |-> Absent]
Nothing == [status |-> "none", value |-> Absent]
============================================================================
