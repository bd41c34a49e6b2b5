--------------------------- MODULE TcpServerProof ---------------------------
(***************************************************************************)
(* The invariants of TcpServer, for any connections, threads and calls.    *)
(***************************************************************************)
EXTENDS TcpServer, SequenceTheorems, TLAPS

\* Io alone accepts and forwards, application threads alone disconnect, and
\* do nothing else; all work on a connection.
Roles ==
    /\ at[Io].place \notin {"lookup", "emit", "post"}
    /\ \A t \in App : /\ at[t].place \notin {"list", "watch", "accepted", "forward"}
                      /\ at[t].event = "disconnected"
    /\ \A t \in Thread : at[t].place \in {"idle", "lookup"} \/ at[t].conn \in Conn

\* server_sync is held through the end of handle_accept.
Lock == server_sync <=> at[Io].place \in {"watch", "accepted"}

\* Nobody knows a connection that has not been accepted.
Fresh == \A c \in Conn : stream[c] = "none" => ~Listed(c) /\ heard[c] = {}

\* handle_accept works on a connection nobody has been told was accepted.
Accepting ==
    at[Io].place \in {"list", "watch", "accepted"} =>
        /\ stream[at[Io].conn] # "none"
        /\ "accepted" \notin heard[at[Io].conn]

\* The other threads find a connection only after onAccepted.
Known ==
    /\ \A t \in Thread :
          \/ at[t].place \in {"emit", "post", "forward", "unslot", "erase", "tell"}
          \/ t \in App /\ at[t].place = "find"
          => "accepted" \in heard[at[t].conn]
    /\ \A c \in Conn : Listed(c) =>
          \/ "accepted" \in heard[c]
          \/ at[Io].place \in {"watch", "accepted"} /\ at[Io].conn = c

\* A disconnection is announced after the removal.
Told == \A t \in Thread : at[t].place = "tell" => ~Listed(at[t].conn)

\* c is not listed, or a thread is about to remove it.
Going(c) ==
    Listed(c) => \E t \in Thread : at[t].place = "erase" /\ at[t].conn = c

\* A socket that is to be closed belongs to a connection that is going.
Closing ==
    /\ \A c \in Conn : posted[c] => "accepted" \in heard[c] /\ Going(c)
    /\ \A t \in Thread : at[t].place = "post" => Going(at[t].conn)

Inv ==
    /\ TypeOK /\ Roles /\ Lock
    /\ Fresh /\ Accepting /\ Known /\ AcceptedFirst
    /\ Told /\ GoneWhenAnnounced
    /\ Closing /\ ListedIsWatched
----------------------------------------------------------------------------
(* The list *)

LEMMA ListUnchanged ==
    ASSUME UNCHANGED connections
    PROVE  \A c : Listed(c)' <=> Listed(c)
  BY DEF Listed, Contains

LEMMA ListAppend ==
    ASSUME connections \in Seq(Conn), IsInjective(connections),
           NEW c \in Conn, ~Listed(c), connections' = Append(connections, c)
    PROVE  /\ connections' \in Seq(Conn)
           /\ IsInjective(connections)'
           /\ \A d : Listed(d)' <=> Listed(d) \/ d = c
<1>1. /\ connections' \in Seq(Conn)
      /\ Len(connections') = Len(connections) + 1
      /\ Len(connections) \in Nat
  OBVIOUS
<1>2. \A i \in 1 .. Len(connections) : connections'[i] = connections[i]
  OBVIOUS
<1>3. connections'[Len(connections) + 1] = c
  OBVIOUS
<1>4. \A d : Listed(d)' <=> Listed(d) \/ d = c
  BY <1>1, <1>2, <1>3 DEF Listed, Contains
<1>5. IsInjective(connections)'
  <2>1. /\ DOMAIN connections = 1 .. Len(connections)
        /\ DOMAIN connections' = 1 .. Len(connections) + 1
    BY <1>1
  <2>2. \A i \in 1 .. Len(connections) : connections[i] # c
    BY DEF Listed, Contains
  <2> QED
    BY <1>1, <1>2, <1>3, <2>1, <2>2 DEF IsInjective
<1> QED
  BY <1>1, <1>4, <1>5

LEMMA ListRemove ==
    ASSUME connections \in Seq(Conn), IsInjective(connections),
           NEW c \in Conn, IsWithout(connections', c)
    PROVE  /\ connections' \in Seq(Conn)
           /\ IsInjective(connections)'
           /\ \A d : Listed(d)' <=> Listed(d) /\ d # c
<1>1. CASE ~Listed(c)
  <2>1. connections' = connections
    BY <1>1 DEF IsWithout
  <2> QED
    BY <1>1, <2>1 DEF Listed, Contains
<1>2. CASE Listed(c)
  <2> DEFINE n == Len(connections)
  <2>1. PICK i \in 1 .. n : /\ connections[i] = c
                            /\ connections' = RemoveAt(connections, i)
    BY <1>2 DEF IsWithout
  <2>2. n \in Nat /\ DOMAIN connections = 1 .. n
    OBVIOUS
  <2>3. /\ connections' \in Seq(Conn)
        /\ Len(connections') = n - 1
        /\ \A j \in 1 .. i - 1 : connections'[j] = connections[j]
        /\ \A j \in i .. n - 1 : connections'[j] = connections[j + 1]
    <3> DEFINE a == SubSeq(connections, 1, i - 1)
               b == SubSeq(connections, i + 1, n)
    <3>1. /\ a \in Seq(Conn) /\ Len(a) = i - 1
          /\ \A j \in 1 .. i - 1 : a[j] = connections[j]
      BY <2>2
    <3>2. /\ b \in Seq(Conn) /\ Len(b) = n - i
          /\ \A j \in 1 .. n - i : b[j] = connections[j + i]
      <4>1. \A j \in i + 1 .. n : connections[j] \in Conn
        BY <2>2
      <4>2. i + 1 \in Int /\ n \in Int
        BY <2>2
      <4>3. /\ b \in Seq(Conn)
            /\ Len(b) = IF i + 1 <= n THEN n - (i + 1) + 1 ELSE 0
            /\ \A j \in 1 .. n - (i + 1) + 1 : b[j] = connections[(i + 1) + j - 1]
        <5> HIDE DEF n
        <5> QED
          BY <4>1, <4>2, SubSeqProperties
      <4> HIDE DEF b, n
      <4> QED
        BY <2>2, <4>3
    <3>3. connections' = a \o b
      BY <2>1 DEF RemoveAt
    <3> HIDE DEF a, b, n
    <3>4. connections' \in Seq(Conn) /\ Len(connections') = n - 1
      <4>1. connections' \in Seq(Conn) /\ Len(connections') = Len(a) + Len(b)
        BY <3>1, <3>2, <3>3, ConcatProperties
      <4> QED
        BY <2>2, <3>1, <3>2, <4>1
    <3>5. \A j \in 1 .. i - 1 : connections'[j] = connections[j]
      BY <2>2, <3>1, <3>2, <3>3
    <3>6. \A j \in i .. n - 1 : connections'[j] = connections[j + 1]
      <4> SUFFICES ASSUME NEW j \in i .. n - 1
                   PROVE  connections'[j] = connections[j + 1]
        OBVIOUS
      <4>1. connections'[j] = b[j - (i - 1)]
        BY <2>2, <3>1, <3>2, <3>3
      <4>2. j - (i - 1) \in 1 .. n - i /\ (j - (i - 1)) + i = j + 1
        BY <2>2
      <4> QED
        BY <3>2, <4>1, <4>2
    <3> QED
      BY <3>4, <3>5, <3>6
  <2>4. DOMAIN connections' = 1 .. n - 1
    BY <2>3
  <2>5. \A j, k \in 1 .. n : connections[j] = connections[k] => j = k
    BY <2>2 DEF IsInjective
  <2> HIDE DEF n
  <2>6. \A j \in 1 .. n - 1 : \E k \in 1 .. n \ {i} :
            /\ connections'[j] = connections[k]
            /\ k = IF j < i THEN j ELSE j + 1
    BY <2>1, <2>2, <2>3
  <2>7. IsInjective(connections)'
    BY <2>1, <2>2, <2>4, <2>5, <2>6 DEF IsInjective
  <2>8. \A k \in 1 .. n \ {i} : \E j \in 1 .. n - 1 : connections'[j] = connections[k]
    <3> SUFFICES ASSUME NEW k \in 1 .. n \ {i}
                 PROVE  \E j \in 1 .. n - 1 : connections'[j] = connections[k]
      OBVIOUS
    <3>1. CASE k < i
      BY <2>1, <2>2, <2>3, <3>1
    <3>2. CASE k > i
      <4>1. k - 1 \in i .. n - 1 /\ (k - 1) + 1 = k
        BY <2>1, <2>2, <3>2
      <4>2. connections'[k - 1] = connections[k]
        BY <4>1, <2>3
      <4> QED
        BY <4>1, <4>2, <2>1, <2>2
    <3> QED
      BY <2>1, <2>2, <3>1, <3>2
  <2>9. ASSUME NEW d
        PROVE  Listed(d)' <=> Listed(d) /\ d # c
    <3>1. Listed(d) <=> \E k \in 1 .. n : connections[k] = d
      BY DEF Listed, Contains, n
    <3>2. Listed(d)' <=> \E j \in 1 .. n - 1 : connections'[j] = d
      BY <2>3 DEF Listed, Contains
    <3> QED
      BY <2>1, <2>5, <2>6, <2>8, <3>1, <3>2
  <2> QED
    BY <2>3, <2>7, <2>9
<1> QED
  BY <1>1, <1>2
----------------------------------------------------------------------------
(* Where the threads are *)

LEMMA TaskTypes ==
    /\ Idle \in Task
    /\ \A p \in Place, c \in Conn \cup {Nobody},
          e \in {"message", "error", "disconnected"} :
          [place |-> p, conn |-> c, event |-> e] \in Task
  BY DEF Idle, Task, Place

LEMMA GotoEffect ==
    ASSUME at \in [Thread -> Task], NEW t \in Thread, NEW p \in Place, Goto(t, p)
    PROVE  /\ at' \in [Thread -> Task]
           /\ at'[t].place = p
           /\ at'[t].conn = at[t].conn
           /\ at'[t].event = at[t].event
           /\ \A u \in Thread : u # t => at'[u] = at[u]
<1>1. at' = [at EXCEPT ![t] = [at[t] EXCEPT !.place = p]]
  BY DEF Goto
<1>2. at[t] \in Task
  OBVIOUS
<1>3. /\ [at[t] EXCEPT !.place = p] \in Task
      /\ [at[t] EXCEPT !.place = p].place = p
      /\ [at[t] EXCEPT !.place = p].conn = at[t].conn
      /\ [at[t] EXCEPT !.place = p].event = at[t].event
  BY <1>2 DEF Task
<1> QED
  BY <1>1, <1>3

LEMMA BeginEffect ==
    ASSUME at \in [Thread -> Task], NEW t \in Thread, NEW p \in Place,
           NEW c \in Conn \cup {Nobody},
           NEW e \in {"message", "error", "disconnected"}, Begin(t, p, c, e)
    PROVE  /\ at' \in [Thread -> Task]
           /\ at'[t].place = p
           /\ at'[t].conn = c
           /\ at'[t].event = e
           /\ \A u \in Thread : u # t => at'[u] = at[u]
<1> DEFINE task == [place |-> p, conn |-> c, event |-> e]
<1>1. task \in Task /\ task.place = p /\ task.conn = c /\ task.event = e
  BY TaskTypes
<1>2. at' = [at EXCEPT ![t] = task]
  BY DEF Begin
<1> HIDE DEF task
<1> QED
  BY <1>1, <1>2

LEMMA LeaveEffect ==
    ASSUME at \in [Thread -> Task], NEW t \in Thread, Leave(t)
    PROVE  /\ at' \in [Thread -> Task]
           /\ at'[t].place = "idle"
           /\ at'[t].event = "disconnected"
           /\ \A u \in Thread : u # t => at'[u] = at[u]
<1>1. Idle \in Task /\ Idle.place = "idle" /\ Idle.event = "disconnected"
  BY TaskTypes DEF Idle
<1>2. at' = [at EXCEPT ![t] = Idle]
  BY DEF Leave
<1> HIDE DEF Idle
<1> QED
  BY <1>1, <1>2
----------------------------------------------------------------------------
(* Initially *)

LEMMA InitInv == Init => Inv
<1> SUFFICES ASSUME Init PROVE Inv
  OBVIOUS
<1> USE ServerAssumption
<1>1. \A c : ~Listed(c)
  BY DEF Init, Listed, Contains
<1>2. \A t \in Thread : at[t] = Idle
  BY DEF Init
<1>3. \A t \in Thread : at[t].place = "idle" /\ at[t].event = "disconnected"
  BY <1>2 DEF Idle
<1>4. TypeOK
  <2>1. connections \in Seq(Conn) /\ IsInjective(connections)
    BY DEF Init, IsInjective
  <2>2. at \in [Thread -> Task]
    BY TaskTypes DEF Init
  <2>3. stream \in [Conn -> {"none", "up", "ended", "failed"}]
    BY DEF Init
  <2>4. reading \in [Conn -> {"off", "armed", "over"}]
    BY DEF Init
  <2>5. /\ server_sync \in BOOLEAN
        /\ slots \in [Conn -> BOOLEAN]
        /\ posted \in [Conn -> BOOLEAN]
    BY DEF Init
  <2>6. todo \in [App -> Seq(Conn)]
    BY DEF Init
  <2>7. calls \in 0 .. MaxCalls
    BY DEF Init
  <2>8. heard \in [Conn -> SUBSET Heard]
    BY DEF Init
  <2> QED
    BY <2>1, <2>2, <2>3, <2>4, <2>5, <2>6, <2>7, <2>8 DEF TypeOK
<1>5. Io \in Thread /\ App \subseteq Thread
  BY DEF Thread
<1>6. Roles /\ Lock
  BY <1>3, <1>5 DEF Init, Roles, Lock
<1>7. Fresh /\ Accepting /\ Known /\ AcceptedFirst
  BY <1>1, <1>3, <1>5 DEF Init, Fresh, Accepting, Known, AcceptedFirst
<1>8. Told /\ GoneWhenAnnounced
  BY <1>1, <1>3 DEF Told, GoneWhenAnnounced
<1>9. Closing /\ ListedIsWatched
  BY <1>1, <1>3 DEF Init, Closing, Going, ListedIsWatched
<1> QED
  BY <1>4, <1>6, <1>7, <1>8, <1>9 DEF Inv
----------------------------------------------------------------------------
(* Steps that only move a thread, outside handle_accept and the removal *)

Safe == /\ Roles /\ Lock /\ Fresh /\ Accepting /\ Known /\ AcceptedFirst
        /\ Told /\ GoneWhenAnnounced /\ Closing /\ ListedIsWatched

LEMMA Moves ==
    ASSUME Inv, NEW t \in Thread,
           UNCHANGED <<connections, server_sync, slots, stream, posted, heard>>,
           at' \in [Thread -> Task],
           \A u \in Thread : u # t => at'[u] = at[u],
           at[t].place \notin {"list", "watch", "accepted", "erase"},
           at'[t].place \notin {"list", "watch", "accepted", "tell"},
           at'[t].place \in {"idle", "lookup"} \/ at'[t].conn \in Conn,
           t = Io => at'[t].place \notin {"lookup", "emit", "post"},
           t # Io => at'[t].place # "forward" /\ at'[t].event = "disconnected",
           \/ at'[t].place \in {"emit", "post", "forward", "unslot", "erase"}
           \/ t # Io /\ at'[t].place = "find"
           => "accepted" \in heard[at'[t].conn],
           at'[t].place = "post" => Going(at'[t].conn)
    PROVE  Safe'
<1> USE ServerAssumption
<1>1. \A c : Listed(c)' <=> Listed(c)
  BY ListUnchanged
<1>2. Io \in Thread /\ App \subseteq Thread /\ Io \notin App
  BY DEF Thread
<1>3. \A c : Going(c) => Going(c)'
  BY <1>1 DEF Going
<1>4. (Roles /\ Lock)'
  BY <1>2 DEF Inv, Roles, Lock, Thread
<1>5. (Fresh /\ Accepting)'
  BY <1>1, <1>2 DEF Inv, Fresh, Accepting
<1>6. Known'
  BY <1>1, <1>2 DEF Inv, Known, Thread
<1>7. (AcceptedFirst /\ Told /\ GoneWhenAnnounced)'
  BY <1>1 DEF Inv, AcceptedFirst, Told, GoneWhenAnnounced
<1>8. Closing'
  BY <1>3 DEF Inv, Closing
<1>9. ListedIsWatched'
  BY <1>1, <1>2 DEF Inv, ListedIsWatched
<1> QED
  BY <1>4, <1>5, <1>6, <1>7, <1>8, <1>9 DEF Safe

\* Io announces an event of c, or nobody listens.
LEMMA AnnounceKeeps ==
    ASSUME Inv, NEW c \in Conn, NEW e \in {"message", "error", "disconnected"},
           at[Io].place = "idle", Announce(c, e),
           UNCHANGED <<connections, server_sync, slots, stream, posted, heard>>
    PROVE  at' \in [Thread -> Task] /\ Safe'
<1> USE ServerAssumption
<1>1. Io \in Thread /\ at \in [Thread -> Task]
  BY DEF Inv, TypeOK, Thread
<1>2. CASE slots[c]
  <2>1. Begin(Io, "find", c, e)
    BY <1>2 DEF Announce
  <2>2. /\ at' \in [Thread -> Task]
        /\ at'[Io].place = "find" /\ at'[Io].conn = c
        /\ \A u \in Thread : u # Io => at'[u] = at[u]
    BY <1>1, <2>1, BeginEffect DEF Place
  <2> QED
    BY <1>1, <2>2, Moves
<1>3. CASE ~slots[c]
  <2>1. UNCHANGED at
    BY <1>3 DEF Announce
  <2> QED
    BY <1>1, <2>1, Moves
<1> QED
  BY <1>2, <1>3

LEMMA ReadMessageKeeps ==
    ASSUME Inv, NEW c \in Conn, ReadMessage(c)
    PROVE  TypeOK' /\ Safe'
<1>1. at' \in [Thread -> Task] /\ Safe'
  BY AnnounceKeeps DEF ReadMessage, listVars, connVars
<1> QED
  BY <1>1 DEF Inv, TypeOK, ReadMessage, listVars, connVars, callVars

LEMMA ReadEndsKeeps ==
    ASSUME Inv, NEW c \in Conn, ReadEnds(c)
    PROVE  TypeOK' /\ Safe'
<1>1. at' \in [Thread -> Task] /\ Safe'
  <2>1. (IF stream[c] = "ended" THEN "disconnected" ELSE "error")
          \in {"message", "error", "disconnected"}
    OBVIOUS
  <2> QED
    BY <2>1, AnnounceKeeps DEF ReadEnds, listVars
<1>2. reading' \in [Conn -> {"off", "armed", "over"}]
  BY DEF Inv, TypeOK, ReadEnds
<1> QED
  BY <1>1, <1>2 DEF Inv, TypeOK, ReadEnds, listVars, callVars

LEMMA WriteFailsKeeps ==
    ASSUME Inv, NEW c \in Conn, WriteFails(c)
    PROVE  TypeOK' /\ Safe'
<1>1. at' \in [Thread -> Task] /\ Safe'
  BY AnnounceKeeps DEF WriteFails, listVars, connVars
<1> QED
  BY <1>1 DEF Inv, TypeOK, WriteFails, listVars, connVars, callVars

\* A slot that returns does so with a connection that is going or gone.
LEMMA ReturnEffect ==
    ASSUME at \in [Thread -> Task], NEW t \in Thread, Return(t)
    PROVE  /\ at' \in [Thread -> Task]
           /\ \A u \in Thread : u # t => at'[u] = at[u]
           /\ t = Io => at'[t].place = "idle"
           /\ t # Io => /\ at'[t].place = "post"
                        /\ at'[t].conn = at[t].conn
                        /\ at'[t].event = at[t].event
<1>1. CASE t = Io
  <2>1. Leave(t)
    BY <1>1 DEF Return
  <2> QED
    BY <1>1, <2>1, LeaveEffect
<1>2. CASE t # Io
  <2>1. Goto(t, "post") /\ "post" \in Place
    BY <1>2 DEF Return, Place
  <2> QED
    BY <1>2, <2>1, GotoEffect
<1> QED
  BY <1>1, <1>2

LEMMA FindKeeps ==
    ASSUME Inv, NEW t \in Thread, Find(t)
    PROVE  TypeOK' /\ Safe'
<1> USE ServerAssumption
<1>1. /\ UNCHANGED <<connections, server_sync, slots, stream, posted, heard>>
      /\ UNCHANGED <<reading, todo, calls>>
      /\ at[t].place = "find"
  BY DEF Find, listVars, connVars, callVars
<1>2. /\ at \in [Thread -> Task]
      /\ at[t].conn \in Conn
      /\ t # Io => t \in App /\ at[t].event = "disconnected"
  BY <1>1 DEF Inv, TypeOK, Roles, Thread
<1>3. t # Io => "accepted" \in heard[at[t].conn]
  BY <1>1, <1>2 DEF Inv, Known
<1>4. CASE ~Listed(at[t].conn) /\ Return(t)
  <2>1. Going(at[t].conn)
    BY <1>4 DEF Going
  <2> QED
    BY <1>1, <1>2, <1>3, <1>4, <2>1, ReturnEffect, Moves DEF Inv, TypeOK
<1>5. ASSUME Listed(at[t].conn), at[t].event = "disconnected", Goto(t, "unslot")
      PROVE  TypeOK' /\ Safe'
  <2>1. "accepted" \in heard[at[t].conn]
    BY <1>1, <1>2, <1>3, <1>5 DEF Inv, Known
  <2>2. /\ at' \in [Thread -> Task]
        /\ at'[t].place = "unslot" /\ at'[t].conn = at[t].conn
        /\ at'[t].event = at[t].event
        /\ \A u \in Thread : u # t => at'[u] = at[u]
    BY <1>2, <1>5, GotoEffect DEF Place
  <2> QED
    BY <1>1, <1>2, <1>5, <2>1, <2>2, Moves DEF Inv, TypeOK
<1>6. ASSUME Listed(at[t].conn), at[t].event # "disconnected", Goto(t, "forward")
      PROVE  TypeOK' /\ Safe'
  <2>1. t = Io
    BY <1>2, <1>6
  <2>2. "accepted" \in heard[at[t].conn]
    BY <1>1, <1>2, <1>6, <2>1 DEF Inv, Known
  <2>3. /\ at' \in [Thread -> Task]
        /\ at'[t].place = "forward" /\ at'[t].conn = at[t].conn
        /\ \A u \in Thread : u # t => at'[u] = at[u]
    BY <1>2, <1>6, GotoEffect DEF Place
  <2> QED
    BY <1>1, <1>2, <2>1, <2>2, <2>3, Moves DEF Inv, TypeOK
<1> QED
  BY <1>4, <1>5, <1>6 DEF Find

LEMMA CallDisconnectKeeps ==
    ASSUME Inv, NEW t \in App, NEW c \in Conn, CallDisconnect(t, c)
    PROVE  TypeOK' /\ Safe'
<1> USE ServerAssumption
<1>1. /\ UNCHANGED <<connections, server_sync, slots, stream, posted, heard>>
      /\ UNCHANGED reading
      /\ at[t].place = "idle" /\ Goto(t, "lookup")
  BY DEF CallDisconnect, listVars, connVars
<1>2. /\ at \in [Thread -> Task]
      /\ t \in Thread /\ t # Io
      /\ at[t].event = "disconnected"
  BY DEF Inv, TypeOK, Roles, Thread
<1>3. /\ at' \in [Thread -> Task]
      /\ at'[t].place = "lookup" /\ at'[t].event = at[t].event
      /\ \A u \in Thread : u # t => at'[u] = at[u]
  BY <1>1, <1>2, GotoEffect DEF Place
<1>4. Safe'
  BY <1>1, <1>2, <1>3, Moves
<1>5. todo' \in [App -> Seq(Conn)]
  <2>1. <<c>> \in Seq(Conn)
    OBVIOUS
  <2> QED
    BY <2>1 DEF Inv, TypeOK, CallDisconnect
<1>6. calls' \in 0 .. MaxCalls
  BY DEF Inv, TypeOK, CallDisconnect
<1> QED
  BY <1>1, <1>3, <1>4, <1>5, <1>6 DEF Inv, TypeOK

LEMMA CallDisconnectAllKeeps ==
    ASSUME Inv, NEW t \in App, CallDisconnectAll(t)
    PROVE  TypeOK' /\ Safe'
<1> USE ServerAssumption
<1>1. /\ UNCHANGED <<connections, server_sync, slots, stream, posted, heard>>
      /\ UNCHANGED reading
      /\ at[t].place = "idle" /\ Goto(t, "lookup")
  BY DEF CallDisconnectAll, listVars, connVars
<1>2. /\ at \in [Thread -> Task]
      /\ t \in Thread /\ t # Io
      /\ at[t].event = "disconnected"
  BY DEF Inv, TypeOK, Roles, Thread
<1>3. /\ at' \in [Thread -> Task]
      /\ at'[t].place = "lookup" /\ at'[t].event = at[t].event
      /\ \A u \in Thread : u # t => at'[u] = at[u]
  BY <1>1, <1>2, GotoEffect DEF Place
<1>4. Safe'
  BY <1>1, <1>2, <1>3, Moves
<1>5. todo' \in [App -> Seq(Conn)]
  BY DEF Inv, TypeOK, CallDisconnectAll
<1>6. calls' \in 0 .. MaxCalls
  BY DEF Inv, TypeOK, CallDisconnectAll
<1> QED
  BY <1>1, <1>3, <1>4, <1>5, <1>6 DEF Inv, TypeOK

LEMMA LookupKeeps ==
    ASSUME Inv, NEW t \in App, Lookup(t)
    PROVE  TypeOK' /\ Safe'
<1> USE ServerAssumption
<1>1. /\ UNCHANGED <<connections, server_sync, slots, stream, posted, heard>>
      /\ UNCHANGED <<reading, calls>>
      /\ at[t].place = "lookup"
  BY DEF Lookup, listVars, connVars
<1>2. /\ at \in [Thread -> Task]
      /\ t \in Thread /\ t # Io
      /\ todo \in [App -> Seq(Conn)]
      /\ at[t].event = "disconnected"
  BY DEF Inv, TypeOK, Roles, Thread
<1>3. CASE todo[t] = <<>> /\ Leave(t) /\ UNCHANGED todo
  <2>1. Safe' /\ at' \in [Thread -> Task]
    BY <1>1, <1>2, <1>3, LeaveEffect, Moves
  <2> QED
    BY <1>1, <1>3, <2>1 DEF Inv, TypeOK
<1>4. ASSUME todo[t] # <<>>, ~server_sync,
             todo' = [todo EXCEPT ![t] = Tail(@)],
             IF Listed(Head(todo[t]))
             THEN Begin(t, "emit", Head(todo[t]), "disconnected")
             ELSE UNCHANGED at
      PROVE  TypeOK' /\ Safe'
  <2> DEFINE c == Head(todo[t])
  <2>1. c \in Conn /\ Tail(todo[t]) \in Seq(Conn)
    BY <1>2, <1>4
  <2>2. todo' \in [App -> Seq(Conn)]
    BY <1>2, <1>4, <2>1
  <2>3. CASE Listed(c)
    <3>1. "accepted" \in heard[c]
      <4>1. at[Io].place \notin {"watch", "accepted"}
        BY <1>4 DEF Inv, Lock
      <4> QED
        BY <2>1, <2>3, <4>1 DEF Inv, Known
    <3> HIDE DEF c
    <3>2. /\ at' \in [Thread -> Task]
          /\ at'[t].place = "emit" /\ at'[t].conn = c
          /\ at'[t].event = "disconnected"
          /\ \A u \in Thread : u # t => at'[u] = at[u]
      <4>1. Begin(t, "emit", c, "disconnected")
        BY <1>4, <2>3 DEF c
      <4> QED
        BY <1>2, <2>1, <4>1, BeginEffect DEF Place
    <3>3. Safe'
      BY <1>1, <1>2, <2>1, <3>1, <3>2, Moves
    <3> QED
      BY <1>1, <2>2, <3>2, <3>3 DEF Inv, TypeOK
  <2>4. CASE ~Listed(c)
    <3>1. UNCHANGED at
      BY <1>4, <2>4
    <3>2. Safe'
      BY <1>1, <1>2, <3>1, Moves
    <3> QED
      BY <1>1, <2>2, <3>1, <3>2 DEF Inv, TypeOK
  <2> QED
    BY <2>3, <2>4
<1> QED
  BY <1>3, <1>4 DEF Lookup

LEMMA EmitKeeps ==
    ASSUME Inv, NEW t \in App, Emit(t)
    PROVE  TypeOK' /\ Safe'
<1> USE ServerAssumption
<1>1. /\ UNCHANGED <<connections, server_sync, slots, stream, posted, heard>>
      /\ UNCHANGED <<reading, todo, calls>>
      /\ at[t].place = "emit"
  BY DEF Emit, listVars, connVars, callVars
<1>2. /\ at \in [Thread -> Task]
      /\ t \in Thread /\ t # Io
      /\ at[t].conn \in Conn
      /\ at[t].event = "disconnected"
  BY <1>1 DEF Inv, TypeOK, Roles, Thread
<1>3. "accepted" \in heard[at[t].conn]
  BY <1>1, <1>2 DEF Inv, Known
<1>4. CASE slots[at[t].conn]
  <2>1. Goto(t, "find")
    BY <1>4 DEF Emit
  <2>2. /\ at' \in [Thread -> Task]
        /\ at'[t].place = "find" /\ at'[t].conn = at[t].conn
        /\ at'[t].event = at[t].event
        /\ \A u \in Thread : u # t => at'[u] = at[u]
    BY <1>2, <2>1, GotoEffect DEF Place
  <2> QED
    BY <1>1, <1>2, <1>3, <2>2, Moves DEF Inv, TypeOK
<1>5. CASE ~slots[at[t].conn]
  <2>1. Goto(t, "post")
    BY <1>5 DEF Emit
  <2>2. /\ at' \in [Thread -> Task]
        /\ at'[t].place = "post" /\ at'[t].conn = at[t].conn
        /\ at'[t].event = at[t].event
        /\ \A u \in Thread : u # t => at'[u] = at[u]
    BY <1>2, <2>1, GotoEffect DEF Place
  <2>3. Going(at[t].conn)
    BY <1>2, <1>3, <1>5 DEF Inv, ListedIsWatched, Accepting, Going
  <2> QED
    BY <1>1, <1>2, <1>3, <2>2, <2>3, Moves DEF Inv, TypeOK
<1> QED
  BY <1>4, <1>5
----------------------------------------------------------------------------
(* handle_accept *)

LEMMA AcceptKeeps ==
    ASSUME Inv, NEW c \in Conn, Accept(c)
    PROVE  TypeOK' /\ Safe'
<1> USE ServerAssumption
<1>1. /\ UNCHANGED <<connections, server_sync, slots, reading, posted, todo, calls>>
      /\ at[Io].place = "idle" /\ stream[c] = "none"
  BY DEF Accept, listVars, callVars
<1>2. Io \in Thread /\ Io \notin App /\ at \in [Thread -> Task]
  BY DEF Inv, TypeOK, Thread
<1>3. /\ at' \in [Thread -> Task]
      /\ at'[Io].place = "list" /\ at'[Io].conn = c
      /\ \A u \in Thread : u # Io => at'[u] = at[u]
  <2>1. Begin(Io, "list", c, "disconnected")
    BY DEF Accept
  <2> QED
    BY <1>2, <2>1, BeginEffect DEF Place
<1>4. /\ stream' \in [Conn -> {"none", "up", "ended", "failed"}]
      /\ stream'[c] # "none"
      /\ \A d \in Conn : d # c => stream'[d] = stream[d]
  BY DEF Inv, TypeOK, Accept
<1>5. /\ heard' \in [Conn -> SUBSET Heard]
      /\ \A d \in Conn : d # c => heard'[d] = heard[d]
      /\ heard'[c] = {} \/ heard'[c] = {"acceptError"}
  <2>1. heard[c] = {} /\ heard \in [Conn -> SUBSET Heard]
    BY <1>1 DEF Inv, TypeOK, Fresh
  <2>2. CASE UNCHANGED heard
    BY <2>1, <2>2
  <2>3. CASE Tell(c, "acceptError")
    <3>1. heard' = [heard EXCEPT ![c] = heard[c] \cup {"acceptError"}]
      BY <2>3 DEF Tell
    <3>2. {"acceptError"} \in SUBSET Heard
      BY DEF Heard
    <3> QED
      BY <2>1, <3>1, <3>2
  <2> QED
    BY <2>2, <2>3 DEF Accept
<1>6. \A d : Listed(d)' <=> Listed(d)
  BY <1>1, ListUnchanged
<1>7. ~Listed(c) /\ heard[c] = {}
  BY <1>1 DEF Inv, Fresh
<1>8. \A d : Going(d) => Going(d)'
  BY <1>1, <1>2, <1>3, <1>6 DEF Going
<1>9. (Roles /\ Lock)'
  BY <1>1, <1>2, <1>3 DEF Inv, Roles, Lock, Thread
<1>10. (Fresh /\ Accepting)'
  BY <1>2, <1>3, <1>4, <1>5, <1>6 DEF Inv, Fresh, Accepting
<1>11. \A d \in Conn, h \in {"accepted", "disconnected", "forwarded"} :
          h \in heard'[d] <=> h \in heard[d]
  BY <1>5, <1>7
<1>12. Known'
  <2>1. \A u \in Thread : u # Io => u \in App
    BY DEF Thread
  <2>2. \A u \in Thread :
           \/ at[u].place \in {"emit", "post", "forward", "unslot", "erase", "tell"}
           \/ u \in App /\ at[u].place = "find"
           => at[u].conn \in Conn
    BY DEF Inv, Roles
  <2>3. \A u \in Thread :
           \/ at'[u].place \in {"emit", "post", "forward", "unslot", "erase", "tell"}
           \/ u \in App /\ at'[u].place = "find"
           => "accepted" \in heard'[at'[u].conn]
    <3> SUFFICES ASSUME NEW u \in Thread,
                        \/ at'[u].place \in {"emit", "post", "forward", "unslot", "erase", "tell"}
                        \/ u \in App /\ at'[u].place = "find"
                 PROVE  "accepted" \in heard'[at'[u].conn]
      OBVIOUS
    <3>1. u # Io /\ at'[u] = at[u]
      BY <1>2, <1>3
    <3>2. "accepted" \in heard[at[u].conn] /\ at[u].conn \in Conn
      BY <3>1, <2>2 DEF Inv, Known
    <3> QED
      BY <3>1, <3>2, <1>11
  <2>4. \A d \in Conn : Listed(d)' => "accepted" \in heard'[d]
    BY <1>1, <1>6, <1>11 DEF Inv, Known
  <2> QED
    BY <2>3, <2>4 DEF Known
<1>13. (AcceptedFirst /\ GoneWhenAnnounced)'
  BY <1>6, <1>11 DEF Inv, AcceptedFirst, GoneWhenAnnounced
<1>14. Told'
  BY <1>3, <1>6 DEF Inv, Told
<1>15. Closing'
  BY <1>1, <1>3, <1>8, <1>11 DEF Inv, Closing
<1>16. ListedIsWatched'
  BY <1>1, <1>2, <1>3, <1>6 DEF Inv, ListedIsWatched
<1> QED
  BY <1>1, <1>3, <1>4, <1>5, <1>9, <1>10, <1>12, <1>13, <1>14, <1>15, <1>16
     DEF Inv, TypeOK, Safe

LEMMA ListConnectionKeeps ==
    ASSUME Inv, ListConnection
    PROVE  TypeOK' /\ Safe'
<1> USE ServerAssumption
<1> DEFINE c == at[Io].conn
<1>1. /\ UNCHANGED <<slots, stream, reading, posted, todo, calls, heard>>
      /\ at[Io].place = "list" /\ Goto(Io, "watch")
      /\ connections' = Append(connections, c)
      /\ server_sync' = TRUE
  BY DEF ListConnection, connVars, callVars
<1>2. Io \in Thread /\ Io \notin App /\ at \in [Thread -> Task]
  BY DEF Inv, TypeOK, Thread
<1>3. /\ at' \in [Thread -> Task]
      /\ at'[Io].place = "watch" /\ at'[Io].conn = c
      /\ \A u \in Thread : u # Io => at'[u] = at[u]
  BY <1>1, <1>2, GotoEffect DEF Place
<1>4. c \in Conn /\ stream[c] # "none" /\ "accepted" \notin heard[c]
  BY <1>1, <1>2 DEF Inv, Roles, Accepting
<1>5. ~Listed(c)
  BY <1>1, <1>4 DEF Inv, Known
<1> HIDE DEF c
<1>6. /\ connections' \in Seq(Conn)
      /\ IsInjective(connections)'
      /\ \A d : Listed(d)' <=> Listed(d) \/ d = c
  BY <1>1, <1>4, <1>5, ListAppend DEF Inv, TypeOK
<1>7. \A d : d # c /\ Going(d) => Going(d)'
  BY <1>1, <1>3, <1>6 DEF Going
<1>8. (Roles /\ Lock)'
  BY <1>1, <1>2, <1>3, <1>4 DEF Inv, Roles, Lock, Thread
<1>9. (Fresh /\ Accepting)'
  BY <1>1, <1>3, <1>4, <1>6 DEF Inv, Fresh, Accepting
<1>10. Known'
  BY <1>1, <1>3, <1>6 DEF Inv, Known, Thread
<1>11. AcceptedFirst'
  BY <1>1 DEF Inv, AcceptedFirst
<1>12. GoneWhenAnnounced'
  BY <1>1, <1>4, <1>6 DEF Inv, AcceptedFirst, GoneWhenAnnounced
<1>13. \A u \in Thread : u # Io /\ at[u].place \in {"tell", "post"} => at[u].conn # c
  BY <1>4 DEF Inv, Known
<1>14. Told'
  BY <1>3, <1>6, <1>13 DEF Inv, Told
<1>15. Closing'
  BY <1>1, <1>3, <1>4, <1>7, <1>13 DEF Inv, Closing
<1>16. ListedIsWatched'
  BY <1>1, <1>2, <1>3, <1>6 DEF Inv, ListedIsWatched
<1> QED
  BY <1>1, <1>3, <1>6, <1>8, <1>9, <1>10, <1>11, <1>12, <1>14, <1>15, <1>16
     DEF Inv, TypeOK, Safe

LEMMA WatchKeeps ==
    ASSUME Inv, Watch
    PROVE  TypeOK' /\ Safe'
<1> USE ServerAssumption
<1> DEFINE c == at[Io].conn
<1>1. /\ UNCHANGED <<connections, server_sync, stream, posted, todo, calls, heard>>
      /\ at[Io].place = "watch" /\ Goto(Io, "accepted")
  BY DEF Watch, listVars, callVars
<1>2. Io \in Thread /\ Io \notin App /\ at \in [Thread -> Task]
  BY DEF Inv, TypeOK, Thread
<1>3. /\ at' \in [Thread -> Task]
      /\ at'[Io].place = "accepted" /\ at'[Io].conn = c
      /\ \A u \in Thread : u # Io => at'[u] = at[u]
  BY <1>1, <1>2, GotoEffect DEF Place
<1>4. c \in Conn /\ stream[c] # "none" /\ "accepted" \notin heard[c]
  BY <1>1, <1>2 DEF Inv, Roles, Accepting
<1>5. /\ slots' \in [Conn -> BOOLEAN]
      /\ slots'[c]
      /\ \A d \in Conn : d # c => (slots'[d] <=> slots[d])
  <2>1. slots' = [slots EXCEPT ![c] = TRUE] /\ slots \in [Conn -> BOOLEAN]
    BY DEF Watch, Inv, TypeOK
  <2> HIDE DEF c
  <2> QED
    BY <1>4, <2>1, Zenon
<1>6. reading' \in [Conn -> {"off", "armed", "over"}]
  BY DEF Watch, Inv, TypeOK
<1> HIDE DEF c
<1>7. \A d : Listed(d)' <=> Listed(d)
  BY <1>1, ListUnchanged
<1>8. \A d : Going(d) => Going(d)'
  BY <1>1, <1>2, <1>3, <1>7 DEF Going
<1>9. (Roles /\ Lock)'
  BY <1>1, <1>2, <1>3, <1>4 DEF Inv, Roles, Lock, Thread
<1>10. (Fresh /\ Accepting)'
  BY <1>1, <1>3, <1>4, <1>7 DEF Inv, Fresh, Accepting
<1>11. Known'
  BY <1>1, <1>3, <1>7 DEF Inv, Known, Thread, c
<1>12. (AcceptedFirst /\ GoneWhenAnnounced)'
  BY <1>1, <1>7 DEF Inv, AcceptedFirst, GoneWhenAnnounced
<1>13. Told'
  BY <1>3, <1>7 DEF Inv, Told
<1>14. Closing'
  BY <1>1, <1>3, <1>8 DEF Inv, Closing
<1>15. ListedIsWatched'
  BY <1>1, <1>2, <1>3, <1>5, <1>7 DEF Inv, ListedIsWatched, c
<1> QED
  BY <1>1, <1>3, <1>5, <1>6, <1>9, <1>10, <1>11, <1>12, <1>13, <1>14, <1>15
     DEF Inv, TypeOK, Safe

LEMMA TellEffect ==
    ASSUME heard \in [Conn -> SUBSET Heard], NEW c \in Conn, NEW h \in Heard,
           Tell(c, h)
    PROVE  /\ heard' \in [Conn -> SUBSET Heard]
           /\ heard'[c] = heard[c] \cup {h}
           /\ \A d \in Conn : d # c => heard'[d] = heard[d]
<1>1. heard' = [heard EXCEPT ![c] = heard[c] \cup {h}]
  BY DEF Tell
<1> QED
  BY <1>1

LEMMA AnnounceAcceptedKeeps ==
    ASSUME Inv, AnnounceAccepted
    PROVE  TypeOK' /\ Safe'
<1> USE ServerAssumption
<1> DEFINE c == at[Io].conn
<1>1. /\ UNCHANGED <<connections, slots, stream, reading, posted, todo, calls>>
      /\ at[Io].place = "accepted" /\ server_sync' = FALSE
  BY DEF AnnounceAccepted, connVars, callVars
<1>2. Io \in Thread /\ Io \notin App /\ at \in [Thread -> Task]
  BY DEF Inv, TypeOK, Thread
<1>3. /\ at' \in [Thread -> Task]
      /\ at'[Io].place = "idle"
      /\ \A u \in Thread : u # Io => at'[u] = at[u]
  BY <1>2, LeaveEffect DEF AnnounceAccepted
<1>4. c \in Conn /\ stream[c] # "none"
  BY <1>1, <1>2 DEF Inv, Roles, Accepting
<1>5. /\ heard' \in [Conn -> SUBSET Heard]
      /\ heard'[c] = heard[c] \cup {"accepted"}
      /\ \A d \in Conn : d # c => heard'[d] = heard[d]
  <2>1. "accepted" \in Heard
    BY DEF Heard
  <2> QED
    BY <1>4, <2>1, TellEffect DEF AnnounceAccepted, Inv, TypeOK
<1>6. \A d \in Conn : heard[d] \subseteq heard'[d]
  BY <1>5
<1>7. \A d : Listed(d)' <=> Listed(d)
  BY <1>1, ListUnchanged
<1>8. \A d : Going(d) => Going(d)'
  BY <1>1, <1>2, <1>3, <1>7 DEF Going
<1>9. (Roles /\ Lock)'
  BY <1>1, <1>2, <1>3 DEF Inv, Roles, Lock, Thread
<1>10. (Fresh /\ Accepting)'
  BY <1>1, <1>3, <1>4, <1>5, <1>7 DEF Inv, Fresh, Accepting
<1>11. Known'
  <2>1. \A u \in Thread :
           \/ at'[u].place \in {"emit", "post", "forward", "unslot", "erase", "tell"}
           \/ u \in App /\ at'[u].place = "find"
           => "accepted" \in heard'[at'[u].conn]
    BY <1>2, <1>3, <1>6 DEF Inv, Known, Roles
  <2>2. \A d \in Conn : Listed(d)' => "accepted" \in heard'[d]
    BY <1>5, <1>6, <1>7 DEF Inv, Known
  <2> QED
    BY <2>1, <2>2 DEF Known
<1>12. (AcceptedFirst /\ GoneWhenAnnounced)'
  BY <1>5, <1>7 DEF Inv, AcceptedFirst, GoneWhenAnnounced
<1>13. Told'
  BY <1>3, <1>7 DEF Inv, Told
<1>14. Closing'
  BY <1>1, <1>3, <1>6, <1>8 DEF Inv, Closing
<1>15. ListedIsWatched'
  BY <1>1, <1>2, <1>3, <1>7 DEF Inv, ListedIsWatched
<1> QED
  BY <1>1, <1>3, <1>5, <1>9, <1>10, <1>11, <1>12, <1>13, <1>14, <1>15
     DEF Inv, TypeOK, Safe
----------------------------------------------------------------------------
(* The slots, and the closing *)

\* A thread tells the application of a connection it has heard of and, if of
\* a disconnection, one that is not listed.
LEMMA TellsKeep ==
    ASSUME Inv, NEW t \in Thread, NEW h \in {"forwarded", "disconnected"},
           at[t].place \in {"forward", "tell"},
           Tell(at[t].conn, h),
           \/ h = "forwarded" /\ t = Io
           \/ h = "disconnected" /\ ~Listed(at[t].conn),
           Return(t),
           UNCHANGED <<connections, server_sync, slots, stream, posted>>
    PROVE  /\ at' \in [Thread -> Task]
           /\ heard' \in [Conn -> SUBSET Heard]
           /\ Safe'
<1> USE ServerAssumption
<1> DEFINE c == at[t].conn
<1>1. Io \in Thread /\ Io \notin App /\ at \in [Thread -> Task]
  BY DEF Inv, TypeOK, Thread
<1>2. c \in Conn /\ "accepted" \in heard[c]
  BY DEF Inv, Roles, Known
<1>3. /\ heard' \in [Conn -> SUBSET Heard]
      /\ heard'[c] = heard[c] \cup {h}
      /\ \A d \in Conn : d # c => heard'[d] = heard[d]
  <2>1. h \in Heard
    BY DEF Heard
  <2> QED
    BY <1>2, <2>1, TellEffect DEF Inv, TypeOK
<1>4. /\ at' \in [Thread -> Task]
      /\ \A u \in Thread : u # t => at'[u] = at[u]
      /\ t = Io => at'[t].place = "idle"
      /\ t # Io => /\ at'[t].place = "post"
                   /\ at'[t].conn = at[t].conn
                   /\ at'[t].event = at[t].event
  BY <1>1, ReturnEffect
<1>5. \A d : Listed(d)' <=> Listed(d)
  BY ListUnchanged
<1>6. \A d : Going(d) => Going(d)'
  BY <1>4, <1>5 DEF Going
<1>7. \A d \in Conn : heard[d] \subseteq heard'[d]
  BY <1>3
<1>8. (Roles /\ Lock)'
  BY <1>1, <1>2, <1>4 DEF Inv, Roles, Lock, Thread
<1>9. Fresh'
  BY <1>2, <1>3, <1>5 DEF Inv, Fresh
<1>10. Accepting'
  BY <1>1, <1>2, <1>3, <1>4 DEF Inv, Accepting, Roles
<1>11. Known'
  <2>1. \A u \in Thread :
           \/ at'[u].place \in {"emit", "post", "forward", "unslot", "erase", "tell"}
           \/ u \in App /\ at'[u].place = "find"
           => "accepted" \in heard'[at'[u].conn]
    BY <1>1, <1>2, <1>4, <1>7 DEF Inv, Known, Roles
  <2>2. \A d \in Conn : Listed(d)' =>
            \/ "accepted" \in heard'[d]
            \/ at'[Io].place \in {"watch", "accepted"} /\ at'[Io].conn = d
    BY <1>1, <1>4, <1>5, <1>7 DEF Inv, Known
  <2> QED
    BY <2>1, <2>2 DEF Known
<1>12. AcceptedFirst'
  BY <1>2, <1>3 DEF Inv, AcceptedFirst
<1>13. GoneWhenAnnounced'
  BY <1>3, <1>5 DEF Inv, GoneWhenAnnounced
<1>14. Told'
  BY <1>4, <1>5 DEF Inv, Told
<1>15. Closing'
  <2>1. (at[t].place = "post" => Going(at[t].conn))'
    BY <1>4, <1>5 DEF Going
  <2> QED
    BY <1>4, <1>6, <1>7, <2>1 DEF Inv, Closing
<1>16. ListedIsWatched'
  BY <1>1, <1>4, <1>5 DEF Inv, ListedIsWatched
<1> QED
  BY <1>3, <1>4, <1>8, <1>9, <1>10, <1>11, <1>12, <1>13, <1>14, <1>15, <1>16
     DEF Safe

LEMMA ForwardKeeps ==
    ASSUME Inv, Forward
    PROVE  TypeOK' /\ Safe'
<1>1. /\ Io \in Thread /\ at[Io].place = "forward"
      /\ UNCHANGED <<connections, server_sync, slots, stream, posted>>
      /\ Tell(at[Io].conn, "forwarded") /\ Return(Io)
  BY DEF Forward, Thread, listVars, connVars, Return
<1>2. /\ at' \in [Thread -> Task]
      /\ heard' \in [Conn -> SUBSET Heard]
      /\ Safe'
  BY <1>1, TellsKeep
<1> QED
  BY <1>2 DEF Inv, TypeOK, Forward, listVars, connVars, callVars

LEMMA AnnounceDisconnectedKeeps ==
    ASSUME Inv, NEW t \in Thread, AnnounceDisconnected(t)
    PROVE  TypeOK' /\ Safe'
<1>1. /\ at[t].place = "tell"
      /\ UNCHANGED <<connections, server_sync, slots, stream, posted>>
      /\ Tell(at[t].conn, "disconnected") /\ Return(t)
  BY DEF AnnounceDisconnected, listVars, connVars
<1>2. ~Listed(at[t].conn)
  BY <1>1 DEF Inv, Told
<1>3. /\ at' \in [Thread -> Task]
      /\ heard' \in [Conn -> SUBSET Heard]
      /\ Safe'
  BY <1>1, <1>2, TellsKeep
<1> QED
  BY <1>3 DEF Inv, TypeOK, AnnounceDisconnected, listVars, connVars, callVars

LEMMA UnslotKeeps ==
    ASSUME Inv, NEW t \in Thread, Unslot(t)
    PROVE  TypeOK' /\ Safe'
<1> USE ServerAssumption
<1> DEFINE c == at[t].conn
<1>1. /\ UNCHANGED <<connections, server_sync, stream, reading, posted>>
      /\ UNCHANGED <<todo, calls, heard>>
      /\ at[t].place = "unslot" /\ Goto(t, "erase")
  BY DEF Unslot, listVars, callVars
<1>2. Io \in Thread /\ Io \notin App /\ at \in [Thread -> Task]
  BY DEF Inv, TypeOK, Thread
<1>3. /\ at' \in [Thread -> Task]
      /\ at'[t].place = "erase" /\ at'[t].conn = c
      /\ at'[t].event = at[t].event
      /\ \A u \in Thread : u # t => at'[u] = at[u]
  BY <1>1, <1>2, GotoEffect DEF Place
<1>4. c \in Conn /\ "accepted" \in heard[c]
  BY <1>1 DEF Inv, Roles, Known
<1>5. /\ slots' \in [Conn -> BOOLEAN]
      /\ \A d \in Conn : d # c => (slots'[d] <=> slots[d])
  <2>1. slots' = [slots EXCEPT ![c] = FALSE] /\ slots \in [Conn -> BOOLEAN]
    BY DEF Unslot, Inv, TypeOK
  <2> HIDE DEF c
  <2> QED
    BY <1>4, <2>1, Zenon
<1> HIDE DEF c
<1>6. \A d : Listed(d)' <=> Listed(d)
  BY <1>1, ListUnchanged
<1>7. \A d : Going(d) => Going(d)'
  BY <1>1, <1>3, <1>6 DEF Going
<1>8. (Roles /\ Lock)'
  BY <1>1, <1>2, <1>3, <1>4 DEF Inv, Roles, Lock, Thread
<1>9. (Fresh /\ Accepting)'
  BY <1>1, <1>2, <1>3, <1>6 DEF Inv, Fresh, Accepting
<1>10. Known'
  BY <1>1, <1>2, <1>3, <1>4, <1>6 DEF Inv, Known
<1>11. (AcceptedFirst /\ GoneWhenAnnounced)'
  BY <1>1, <1>6 DEF Inv, AcceptedFirst, GoneWhenAnnounced
<1>12. Told'
  BY <1>3, <1>6 DEF Inv, Told
<1>13. Closing'
  BY <1>1, <1>3, <1>7 DEF Inv, Closing
<1>14. ListedIsWatched'
  BY <1>1, <1>2, <1>3, <1>5, <1>6 DEF Inv, ListedIsWatched
<1> QED
  BY <1>1, <1>3, <1>5, <1>8, <1>9, <1>10, <1>11, <1>12, <1>13, <1>14
     DEF Inv, TypeOK, Safe

LEMMA EraseKeeps ==
    ASSUME Inv, NEW t \in Thread, Erase(t)
    PROVE  TypeOK' /\ Safe'
<1> USE ServerAssumption
<1> DEFINE c == at[t].conn
<1>1. /\ UNCHANGED <<server_sync, slots, stream, reading, posted>>
      /\ UNCHANGED <<todo, calls, heard>>
      /\ at[t].place = "erase" /\ Goto(t, "tell")
      /\ IsWithout(connections', c)
  BY DEF Erase, connVars, callVars
<1>2. Io \in Thread /\ Io \notin App /\ at \in [Thread -> Task]
  BY DEF Inv, TypeOK, Thread
<1>3. /\ at' \in [Thread -> Task]
      /\ at'[t].place = "tell" /\ at'[t].conn = c
      /\ at'[t].event = at[t].event
      /\ \A u \in Thread : u # t => at'[u] = at[u]
  BY <1>1, <1>2, GotoEffect DEF Place
<1>4. c \in Conn /\ "accepted" \in heard[c]
  BY <1>1 DEF Inv, Roles, Known
<1> HIDE DEF c
<1>5. /\ connections' \in Seq(Conn)
      /\ IsInjective(connections)'
      /\ \A d : Listed(d)' <=> Listed(d) /\ d # c
  BY <1>1, <1>4, ListRemove DEF Inv, TypeOK
<1>6. \A d : Going(d) => Going(d)'
  BY <1>3, <1>5 DEF Going, c
<1>7. (Roles /\ Lock)'
  BY <1>1, <1>2, <1>3, <1>4 DEF Inv, Roles, Lock, Thread
<1>8. (Fresh /\ Accepting)'
  BY <1>1, <1>2, <1>3, <1>5 DEF Inv, Fresh, Accepting
<1>9. Known'
  BY <1>1, <1>2, <1>3, <1>4, <1>5 DEF Inv, Known
<1>10. (AcceptedFirst /\ GoneWhenAnnounced)'
  BY <1>1, <1>5 DEF Inv, AcceptedFirst, GoneWhenAnnounced
<1>11. Told'
  BY <1>3, <1>5 DEF Inv, Told
<1>12. Closing'
  BY <1>1, <1>3, <1>6 DEF Inv, Closing
<1>13. ListedIsWatched'
  BY <1>1, <1>2, <1>3, <1>5 DEF Inv, ListedIsWatched, c
<1> QED
  BY <1>1, <1>3, <1>5, <1>7, <1>8, <1>9, <1>10, <1>11, <1>12, <1>13
     DEF Inv, TypeOK, Safe

LEMMA PostKeeps ==
    ASSUME Inv, NEW t \in App, Post(t)
    PROVE  TypeOK' /\ Safe'
<1> USE ServerAssumption
<1> DEFINE c == at[t].conn
<1>1. /\ UNCHANGED <<connections, server_sync, slots, stream, reading>>
      /\ UNCHANGED <<todo, calls, heard>>
      /\ at[t].place = "post"
  BY DEF Post, listVars, callVars
<1>2. /\ Io \in Thread /\ t \in Thread /\ t # Io
      /\ at \in [Thread -> Task]
  BY DEF Inv, TypeOK, Thread
<1>3. /\ at' \in [Thread -> Task]
      /\ at'[t].place = "lookup" /\ at'[t].event = "disconnected"
      /\ \A u \in Thread : u # t => at'[u] = at[u]
  BY <1>2, BeginEffect DEF Post, Place
<1>4. c \in Conn /\ "accepted" \in heard[c] /\ Going(c)
  BY <1>1, <1>2 DEF Inv, Roles, Known, Closing
<1>5. /\ posted' \in [Conn -> BOOLEAN]
      /\ \A d \in Conn : d # c => (posted'[d] <=> posted[d])
  <2>1. posted' = [posted EXCEPT ![c] = TRUE] /\ posted \in [Conn -> BOOLEAN]
    BY DEF Post, Inv, TypeOK
  <2> HIDE DEF c
  <2> QED
    BY <1>4, <2>1, Zenon
<1> HIDE DEF c
<1>6. \A d : Listed(d)' <=> Listed(d)
  BY <1>1, ListUnchanged
<1>7. \A d : Going(d) => Going(d)'
  BY <1>1, <1>3, <1>6 DEF Going
<1>8. (Roles /\ Lock)'
  BY <1>1, <1>2, <1>3 DEF Inv, Roles, Lock, Thread
<1>9. (Fresh /\ Accepting)'
  BY <1>1, <1>2, <1>3, <1>6 DEF Inv, Fresh, Accepting
<1>10. Known'
  BY <1>1, <1>2, <1>3, <1>6 DEF Inv, Known
<1>11. (AcceptedFirst /\ GoneWhenAnnounced)'
  BY <1>1, <1>6 DEF Inv, AcceptedFirst, GoneWhenAnnounced
<1>12. Told'
  BY <1>3, <1>6 DEF Inv, Told
<1>13. Closing'
  BY <1>1, <1>3, <1>4, <1>5, <1>7 DEF Inv, Closing
<1>14. ListedIsWatched'
  BY <1>1, <1>2, <1>3, <1>6 DEF Inv, ListedIsWatched
<1> QED
  BY <1>1, <1>3, <1>5, <1>8, <1>9, <1>10, <1>11, <1>12, <1>13, <1>14
     DEF Inv, TypeOK, Safe

LEMMA RunCloseKeeps ==
    ASSUME Inv, NEW c \in Conn, RunClose(c)
    PROVE  TypeOK' /\ Safe'
<1> USE ServerAssumption
<1>1. /\ UNCHANGED <<connections, server_sync, reading, at, todo, calls, heard>>
      /\ at[Io].place = "idle" /\ posted[c]
  BY DEF RunClose, listVars, callVars
<1>2. stream' \in [Conn -> {"none", "up", "ended", "failed"}]
  BY DEF RunClose, Inv, TypeOK
<1>3. \A d \in Conn : stream'[d] = "none" => stream[d] = "none"
  BY DEF RunClose, Inv, TypeOK
<1>4. /\ posted' \in [Conn -> BOOLEAN]
      /\ ~posted'[c]
      /\ \A d \in Conn : d # c => (posted'[d] <=> posted[d])
  <2>1. posted' = [posted EXCEPT ![c] = FALSE] /\ posted \in [Conn -> BOOLEAN]
    BY DEF RunClose, Inv, TypeOK
  <2> QED
    BY <2>1, Zenon
<1>5. /\ slots' \in [Conn -> BOOLEAN]
      /\ \A d \in Conn : d # c => (slots'[d] <=> slots[d])
  <2>1. slots' = [slots EXCEPT ![c] = FALSE] /\ slots \in [Conn -> BOOLEAN]
    BY DEF RunClose, Inv, TypeOK
  <2> QED
    BY <2>1, Zenon
<1>6. \A d : Listed(d)' <=> Listed(d)
  BY <1>1, ListUnchanged
<1>7. \A d : Going(d)' <=> Going(d)
  BY <1>1, <1>6 DEF Going
<1>8. (Roles /\ Lock)'
  BY <1>1 DEF Inv, Roles, Lock
<1>9. (Fresh /\ Accepting)'
  BY <1>1, <1>3, <1>6 DEF Inv, Fresh, Accepting
<1>10. Known'
  BY <1>1, <1>6 DEF Inv, Known
<1>11. (AcceptedFirst /\ GoneWhenAnnounced /\ Told)'
  BY <1>1, <1>6 DEF Inv, AcceptedFirst, GoneWhenAnnounced, Told
<1>12. Closing'
  BY <1>1, <1>4, <1>7 DEF Inv, Closing
<1>13. ListedIsWatched'
  <2>1. Going(c)
    BY <1>1 DEF Inv, Closing
  <2> QED
    BY <1>1, <1>5, <1>6, <2>1 DEF Inv, ListedIsWatched, Going
<1> QED
  BY <1>1, <1>2, <1>4, <1>5, <1>8, <1>9, <1>10, <1>11, <1>12, <1>13
     DEF Inv, TypeOK, Safe

LEMMA StreamEndsKeeps ==
    ASSUME Inv, NEW c \in Conn, StreamEnds(c)
    PROVE  TypeOK' /\ Safe'
<1>1. UNCHANGED <<connections, server_sync, slots, reading, posted, at,
                  todo, calls, heard>>
  BY DEF StreamEnds, listVars, callVars
<1>2. stream' \in [Conn -> {"none", "up", "ended", "failed"}]
  BY DEF StreamEnds, Inv, TypeOK
<1>3. \A d \in Conn : stream'[d] = "none" => stream[d] = "none"
  BY DEF StreamEnds, Inv, TypeOK
<1>4. \A d : Listed(d)' <=> Listed(d)
  BY <1>1, ListUnchanged
<1>5. \A d : Going(d)' <=> Going(d)
  BY <1>1, <1>4 DEF Going
<1>6. (Roles /\ Lock)'
  BY <1>1 DEF Inv, Roles, Lock
<1>7. Fresh'
  BY <1>1, <1>3, <1>4 DEF Inv, Fresh
<1>8. Accepting'
  BY <1>1, <1>3 DEF Inv, Accepting, Roles, Thread
<1>9. (Known /\ AcceptedFirst /\ GoneWhenAnnounced /\ Told)'
  BY <1>1, <1>4 DEF Inv, Known, AcceptedFirst, GoneWhenAnnounced, Told
<1>10. (Closing /\ ListedIsWatched)'
  BY <1>1, <1>4, <1>5 DEF Inv, Closing, ListedIsWatched
<1> QED
  BY <1>1, <1>2, <1>6, <1>7, <1>8, <1>9, <1>10 DEF Inv, TypeOK, Safe
----------------------------------------------------------------------------
(* All steps *)

LEMMA StepInv == Inv /\ [Next]_vars => Inv'
<1> SUFFICES ASSUME Inv, [Next]_vars PROVE TypeOK' /\ Safe'
  BY DEF Inv, Safe
<1>1. CASE IoStep
  <2>1. Io \in Thread
    BY DEF Thread
  <2> QED
    BY <1>1, <2>1, ListConnectionKeeps, WatchKeeps, AnnounceAcceptedKeeps,
       FindKeeps, ForwardKeeps, UnslotKeeps, EraseKeeps, AnnounceDisconnectedKeeps
       DEF IoStep
<1>2. ASSUME NEW c \in Conn,
             \/ Accept(c) \/ ReadMessage(c) \/ ReadEnds(c) \/ WriteFails(c)
             \/ RunClose(c) \/ StreamEnds(c)
      PROVE  TypeOK' /\ Safe'
  BY <1>2, AcceptKeeps, ReadMessageKeeps, ReadEndsKeeps, WriteFailsKeeps,
     RunCloseKeeps, StreamEndsKeeps
<1>3. ASSUME NEW t \in App, AppStep(t)
      PROVE  TypeOK' /\ Safe'
  <2>1. t \in Thread
    BY DEF Thread
  <2> QED
    BY <1>3, <2>1, LookupKeeps, EmitKeeps, PostKeeps, FindKeeps, UnslotKeeps,
       EraseKeeps, AnnounceDisconnectedKeeps DEF AppStep
<1>4. ASSUME NEW t \in App,
             CallDisconnectAll(t) \/ \E c \in Conn : CallDisconnect(t, c)
      PROVE  TypeOK' /\ Safe'
  BY <1>4, CallDisconnectAllKeeps, CallDisconnectKeeps
<1>5. CASE UNCHANGED vars
  <2>1. UNCHANGED <<connections, server_sync, slots, stream, reading, posted,
                    at, todo, calls, heard>>
    BY <1>5 DEF vars
  <2>2. \A d : Listed(d)' <=> Listed(d)
    BY <2>1, ListUnchanged
  <2>3. (Roles /\ Lock)'
    BY <2>1 DEF Inv, Roles, Lock
  <2>4. (Fresh /\ Accepting /\ Known)'
    BY <2>1, <2>2 DEF Inv, Fresh, Accepting, Known
  <2>5. (AcceptedFirst /\ GoneWhenAnnounced /\ Told)'
    BY <2>1, <2>2 DEF Inv, AcceptedFirst, GoneWhenAnnounced, Told
  <2>6. (Closing /\ ListedIsWatched)'
    BY <2>1, <2>2 DEF Inv, Closing, Going, ListedIsWatched
  <2> QED
    BY <2>1, <2>3, <2>4, <2>5, <2>6 DEF Inv, TypeOK, Safe
<1> QED
  BY <1>1, <1>2, <1>3, <1>4, <1>5 DEF Next

LEMMA Invariant == Spec => []Inv
  BY InitInv, StepInv, PTL DEF Spec

\* No connection is listed twice, and all the types.
THEOREM TypeCorrect == Spec => []TypeOK
<1>1. Inv => TypeOK
  BY DEF Inv
<1> QED
  BY <1>1, Invariant, PTL

\* The application hears that a connection was accepted before anything that
\* the slots or the disconnecting threads tell of it.
THEOREM AnnouncedInOrder == Spec => []AcceptedFirst
<1>1. Inv => AcceptedFirst
  BY DEF Inv
<1> QED
  BY <1>1, Invariant, PTL

\* A connection announced as disconnected has left the list for good.
THEOREM RemovedBeforeAnnounced == Spec => []GoneWhenAnnounced
<1>1. Inv => GoneWhenAnnounced
  BY DEF Inv
<1> QED
  BY <1>1, Invariant, PTL

\* Only a connection about to get its slots or to be removed has none.
THEOREM AlwaysWatched == Spec => []ListedIsWatched
<1>1. Inv => ListedIsWatched
  BY DEF Inv
<1> QED
  BY <1>1, Invariant, PTL
=============================================================================
