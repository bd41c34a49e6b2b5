--------------------------- MODULE KeyValueStore ---------------------------
(***************************************************************************)
(* What the storage promises its users: every request takes effect at      *)
(* most once, at one moment between its invocation and its answer; a user  *)
(* issues the next request when the last one is answered or given up.      *)
(***************************************************************************)
EXTENDS Naturals, Sequences, StorageRequests

CONSTANTS
    User,
    Typed,      \* the requests users issue
    MaxCalls    \* bound: requests issued

VARIABLES
    store,      \* the value of each key, Absent if it has none
    ops         \* the requests issued, in order

storeVars == <<store, ops>>

Init ==
    /\ store = [k \in Key |-> Absent]
    /\ ops = <<>>

Invoke(u, r) ==
    /\ Len(ops) < MaxCalls
    /\ \A n \in DOMAIN ops : ops[n].user = u => ops[n].done
    /\ ops' = Append(ops, [user |-> u, req |-> r, result |-> Nothing,
                           shown |-> Nothing, done |-> FALSE])
    /\ UNCHANGED store

Result(n, outcome) ==
    /\ ops[n].result = Nothing
    /\ ops' = [ops EXCEPT ![n].result = outcome]

Read(n) ==
    /\ IsRead(ops[n].req)
    /\ store[ops[n].req.key] # Absent
    /\ Result(n, Ok(store[ops[n].req.key]))
    /\ UNCHANGED store

Write(n) ==
    /\ IsWrite(ops[n].req)
    /\ Result(n, Ok(Absent))
    /\ store' = [store EXCEPT ![ops[n].req.key] = ops[n].req.value]

Reject(n) ==
    /\ ~IsWrite(ops[n].req)
    /\ IsRead(ops[n].req) => store[ops[n].req.key] = Absent
    /\ Result(n, Error)
    /\ UNCHANGED store

Return(n) ==
    /\ ~ops[n].done
    /\ ops[n].result # Nothing
    /\ ops' = [ops EXCEPT ![n].done = TRUE, ![n].shown = ops[n].result]
    /\ UNCHANGED store

GiveUp(n) ==
    /\ ~ops[n].done
    /\ ops' = [ops EXCEPT ![n].done = TRUE]
    /\ UNCHANGED store

Next ==
    \/ \E u \in User, r \in Typed : Invoke(u, r)
    \/ \E n \in DOMAIN ops :
          Read(n) \/ Write(n) \/ Reject(n) \/ Return(n) \/ GiveUp(n)

Spec == Init /\ [][Next]_storeVars
============================================================================
