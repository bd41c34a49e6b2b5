----------------------------- MODULE TcpServer -----------------------------
(***************************************************************************)
(* The connections of a running tcp_server (core/src/TCP/TCPServer.cpp):   *)
(* the list, the handlers that accept connections and forward their events *)
(* to the application, and the application's threads that disconnect them. *)
(*                                                                         *)
(* The handlers run one at a time on the io_service thread, Io.  A step is *)
(* one critical section of server_sync, or what a thread does between two. *)
(* Only handle_accept holds server_sync for more than a step, so the other *)
(* sections are steps that wait for it to be free.  What a connection does *)
(* with bytes is TcpConnection's; here it has a peer, a read, and slots.   *)
(***************************************************************************)
EXTENDS Naturals, Sequences, SequencesExt

CONSTANTS
    Conn,       \* the connections the acceptor will make
    App,        \* application threads
    Io,         \* the io_service thread
    Nobody,     \* no connection
    MaxCalls    \* bound: calls of disconnect() and disconnectAll()

ASSUME ServerAssumption ==
    /\ Io \notin App
    /\ Nobody \notin Conn
    /\ MaxCalls \in Nat

Thread == App \cup {Io}

VARIABLES
    connections,  \* the list
    server_sync,  \* is it held?
    slots,        \* slots[c]: are the server's slots connected to c's signals?
    stream,       \* stream[c]: "none" before c is accepted, then "up", "ended"
                  \* by the peer, or "failed" for any other reason
    reading,      \* reading[c]: "off" before start(), "armed", or "over"
    posted,       \* posted[c]: has stop() posted the closing of c's socket?
    at,           \* at[t]: where t is, with which connection, announcing what
    todo,         \* todo[t]: connections t has yet to disconnect
    calls,        \* calls made
    heard         \* heard[c]: what the application was told of c, a history

vars == <<connections, server_sync, slots, stream, reading, posted,
          at, todo, calls, heard>>
listVars == <<connections, server_sync>>
connVars == <<slots, stream, reading, posted>>
callVars == <<todo, calls>>

Place == {"idle",
          "list", "watch", "accepted",                  \* in handle_accept
          "lookup", "emit", "post",                     \* in disconnect
          "find", "forward", "unslot", "erase", "tell"} \* in the slots

Listed(c) == Contains(connections, c)

Task == [place : Place, conn : Conn \cup {Nobody},
         event : {"message", "error", "disconnected"}]
Idle == [place |-> "idle", conn |-> Nobody, event |-> "disconnected"]

Begin(t, place, c, e) ==
    at' = [at EXCEPT ![t] = [place |-> place, conn |-> c, event |-> e]]
Goto(t, place) == at' = [at EXCEPT ![t].place = place]
Leave(t) == at' = [at EXCEPT ![t] = Idle]

\* The application is told of c.
Heard == {"acceptError", "accepted", "forwarded", "disconnected"}
Tell(c, what) == heard' = [heard EXCEPT ![c] = @ \cup {what}]

Init ==
    /\ connections = <<>>
    /\ server_sync = FALSE
    /\ slots = [c \in Conn |-> FALSE]
    /\ stream = [c \in Conn |-> "none"]
    /\ reading = [c \in Conn |-> "off"]
    /\ posted = [c \in Conn |-> FALSE]
    /\ at = [t \in Thread |-> Idle]
    /\ todo = [t \in App |-> <<>>]
    /\ calls = 0
    /\ heard = [c \in Conn |-> {}]
----------------------------------------------------------------------------
(* handle_accept *)

\* Mutant: start_accept() passes the same connection again.
AcceptAgain(c) ==
    /\ at[Io].place = "idle"
    /\ stream' = [stream EXCEPT ![c] = "up"]
    /\ Begin(Io, "list", c, "disconnected")
    /\ UNCHANGED <<listVars, slots, reading, posted, callVars, heard>>

\* async_accept completes.  An error is announced and nothing else: the
\* handler goes on with a connection that has no peer.
Accept(c) ==
    /\ at[Io].place = "idle"
    /\ stream[c] = "none"
    /\ \/ stream' = [stream EXCEPT ![c] = "up"] /\ UNCHANGED heard
       \/ stream' = [stream EXCEPT ![c] = "failed"] /\ Tell(c, "acceptError")
    /\ Begin(Io, "list", c, "disconnected")
    /\ UNCHANGED <<listVars, slots, reading, posted, callVars>>

\* Mutant: the lock is held for push_back only.
ListConnectionUnlocked ==
    /\ at[Io].place = "list" /\ ~server_sync
    /\ connections' = Append(connections, at[Io].conn)
    /\ Goto(Io, "watch")
    /\ UNCHANGED <<server_sync, connVars, callVars, heard>>

ListConnection ==
    /\ at[Io].place = "list" /\ ~server_sync
    /\ server_sync' = TRUE
    /\ connections' = Append(connections, at[Io].conn)
    /\ Goto(Io, "watch")
    /\ UNCHANGED <<connVars, callVars, heard>>

\* Mutant: a connection with an error gets no slots.
WatchIfUp ==
    /\ at[Io].place = "watch"
    /\ slots' = [slots EXCEPT ![at[Io].conn] = stream[at[Io].conn] = "up"]
    /\ reading' = [reading EXCEPT ![at[Io].conn] = "armed"]
    /\ Goto(Io, "accepted")
    /\ UNCHANGED <<listVars, stream, posted, callVars, heard>>

\* Connect the four signals, start().
Watch ==
    /\ at[Io].place = "watch"
    /\ slots' = [slots EXCEPT ![at[Io].conn] = TRUE]
    /\ reading' = [reading EXCEPT ![at[Io].conn] = "armed"]
    /\ Goto(Io, "accepted")
    /\ UNCHANGED <<listVars, stream, posted, callVars, heard>>

\* onAccepted; the lock is released, the next accept is started.
AnnounceAccepted ==
    /\ at[Io].place = "accepted"
    /\ Tell(at[Io].conn, "accepted")
    /\ server_sync' = FALSE
    /\ Leave(Io)
    /\ UNCHANGED <<connections, connVars, callVars>>
----------------------------------------------------------------------------
(* The slots of a connection's signals *)

\* Io announces e of c: its slot, if there is one, looks the connection up.
Announce(c, e) ==
    IF slots[c] THEN Begin(Io, "find", c, e) ELSE UNCHANGED at

\* handle_read with a message; the read is armed again.
ReadMessage(c) ==
    /\ at[Io].place = "idle"
    /\ reading[c] = "armed"
    /\ stream[c] \in {"up", "ended"}
    /\ Announce(c, "message")
    /\ UNCHANGED <<listVars, connVars, callVars, heard>>

\* Mutant: the end of the stream is an error like another.
ReadEndsAlike(c) ==
    /\ at[Io].place = "idle"
    /\ reading[c] = "armed"
    /\ stream[c] # "up"
    /\ reading' = [reading EXCEPT ![c] = "over"]
    /\ Announce(c, "error")
    /\ UNCHANGED <<listVars, slots, stream, posted, callVars, heard>>

\* handle_read with an error: the last thing read.
ReadEnds(c) ==
    /\ at[Io].place = "idle"
    /\ reading[c] = "armed"
    /\ stream[c] # "up"
    /\ reading' = [reading EXCEPT ![c] = "over"]
    /\ Announce(c, IF stream[c] = "ended" THEN "disconnected" ELSE "error")
    /\ UNCHANGED <<listVars, slots, stream, posted, callVars, heard>>

\* handle_write with an error.
WriteFails(c) ==
    /\ at[Io].place = "idle"
    /\ reading[c] # "off"
    /\ stream[c] # "up"
    /\ Announce(c, "error")
    /\ UNCHANGED <<listVars, connVars, callVars, heard>>

\* The slot returns: to the run loop, or to stop().
Return(t) == IF t = Io THEN Leave(t) ELSE Goto(t, "post")

\* getConnectionByUUID in the slot.
Find(t) ==
    /\ at[t].place = "find" /\ ~server_sync
    /\ \/ ~Listed(at[t].conn) /\ Return(t)
       \/ /\ Listed(at[t].conn)
          /\ Goto(t, IF at[t].event = "disconnected"
                     THEN "unslot" ELSE "forward")
    /\ UNCHANGED <<listVars, connVars, callVars, heard>>

Forward ==
    /\ at[Io].place = "forward"
    /\ Tell(at[Io].conn, "forwarded")
    /\ Leave(Io)
    /\ UNCHANGED <<listVars, connVars, callVars>>

\* handle_tcp_connection_disconnected, after the look-up.
Unslot(t) ==
    /\ at[t].place = "unslot"
    /\ slots' = [slots EXCEPT ![at[t].conn] = FALSE]
    /\ Goto(t, "erase")
    /\ UNCHANGED <<listVars, stream, reading, posted, callVars, heard>>

\* The list without the first occurrence of c.
IsWithout(list, c) ==
    IF Listed(c)
    THEN \E i \in 1 .. Len(connections) :
            /\ connections[i] = c
            /\ \A j \in 1 .. i - 1 : connections[j] # c
            /\ list = RemoveAt(connections, i)
    ELSE list = connections

\* Mutant: the first connection goes.
EraseFirst(t) ==
    /\ at[t].place = "erase" /\ ~server_sync
    /\ connections' = IF Listed(at[t].conn) THEN Tail(connections)
                      ELSE connections
    /\ Goto(t, "tell")
    /\ UNCHANGED <<server_sync, connVars, callVars, heard>>

\* removeConnectionByUUID, which looks again and finds nothing: no uuid is
\* listed twice.
Erase(t) ==
    /\ at[t].place = "erase" /\ ~server_sync
    /\ IsWithout(connections', at[t].conn)
    /\ Goto(t, "tell")
    /\ UNCHANGED <<server_sync, connVars, callVars, heard>>

AnnounceDisconnected(t) ==
    /\ at[t].place = "tell"
    /\ Tell(at[t].conn, "disconnected")
    /\ Return(t)
    /\ UNCHANGED <<listVars, connVars, callVars>>
----------------------------------------------------------------------------
(* Application threads *)

\* disconnect() of a connection that the application was told of.
CallDisconnect(t, c) ==
    /\ at[t].place = "idle"
    /\ calls < MaxCalls
    /\ heard[c] # {}
    /\ todo' = [todo EXCEPT ![t] = <<c>>]
    /\ Goto(t, "lookup")
    /\ calls' = calls + 1
    /\ UNCHANGED <<listVars, connVars, heard>>

\* disconnectAll() works on a copy of the list.
CallDisconnectAll(t) ==
    /\ at[t].place = "idle" /\ ~server_sync
    /\ calls < MaxCalls
    /\ todo' = [todo EXCEPT ![t] = connections]
    /\ Goto(t, "lookup")
    /\ calls' = calls + 1
    /\ UNCHANGED <<listVars, connVars, heard>>

\* Mutant: the loop ends at a connection that has gone.
LookupOrStop(t) ==
    /\ at[t].place = "lookup"
    /\ \/ todo[t] = <<>> /\ Leave(t) /\ UNCHANGED todo
       \/ /\ todo[t] # <<>> /\ ~server_sync
          /\ todo' = [todo EXCEPT ![t] =
                        IF Listed(Head(@)) THEN Tail(@) ELSE <<>>]
          /\ IF Listed(Head(todo[t]))
             THEN Begin(t, "emit", Head(todo[t]), "disconnected")
             ELSE UNCHANGED at
    /\ UNCHANGED <<listVars, connVars, calls, heard>>

\* disconnectByUUID of the next connection, if it is listed still.
Lookup(t) ==
    /\ at[t].place = "lookup"
    /\ \/ todo[t] = <<>> /\ Leave(t) /\ UNCHANGED todo
       \/ /\ todo[t] # <<>> /\ ~server_sync
          /\ todo' = [todo EXCEPT ![t] = Tail(@)]
          /\ IF Listed(Head(todo[t]))
             THEN Begin(t, "emit", Head(todo[t]), "disconnected")
             ELSE UNCHANGED at
    /\ UNCHANGED <<listVars, connVars, calls, heard>>

\* tcp_connection::stop() announces the disconnection,
Emit(t) ==
    /\ at[t].place = "emit"
    /\ Goto(t, IF slots[at[t].conn] THEN "find" ELSE "post")
    /\ UNCHANGED <<listVars, connVars, callVars, heard>>

\* then posts the closing of the socket,
Post(t) ==
    /\ at[t].place = "post"
    /\ posted' = [posted EXCEPT ![at[t].conn] = TRUE]
    /\ Begin(t, "lookup", Nobody, "disconnected")
    /\ UNCHANGED <<listVars, slots, stream, reading, callVars, heard>>

\* which Io runs.
RunClose(c) ==
    /\ at[Io].place = "idle"
    /\ posted[c]
    /\ posted' = [posted EXCEPT ![c] = FALSE]
    /\ stream' = [stream EXCEPT ![c] = "failed"]
    /\ slots' = [slots EXCEPT ![c] = FALSE]
    /\ UNCHANGED <<listVars, reading, at, callVars, heard>>
----------------------------------------------------------------------------
\* The peer closes, or the network fails.
StreamEnds(c) ==
    /\ stream[c] = "up"
    /\ \E how \in {"ended", "failed"} : stream' = [stream EXCEPT ![c] = how]
    /\ UNCHANGED <<listVars, slots, reading, posted, at, callVars, heard>>

\* A handler of Io that has begun goes on.
IoStep ==
    \/ ListConnection \/ Watch \/ AnnounceAccepted
    \/ Find(Io) \/ Forward
    \/ Unslot(Io) \/ Erase(Io) \/ AnnounceDisconnected(Io)

AppStep(t) ==
    \/ Lookup(t) \/ Emit(t) \/ Post(t)
    \/ Find(t) \/ Unslot(t) \/ Erase(t) \/ AnnounceDisconnected(t)

Next ==
    \/ IoStep
    \/ \E c \in Conn :
          \/ Accept(c) \/ ReadMessage(c) \/ ReadEnds(c) \/ WriteFails(c)
          \/ RunClose(c) \/ StreamEnds(c)
    \/ \E t \in App :
          \/ AppStep(t)
          \/ CallDisconnectAll(t) \/ \E c \in Conn : CallDisconnect(t, c)

Spec == Init /\ [][Next]_vars

\* The threads are scheduled, and the run loop takes the handlers that are
\* ready in turn: a read that has ended is not passed over for ever, however
\* many other handlers run.
Fairness ==
    /\ WF_vars(IoStep)
    /\ \A t \in App : WF_vars(AppStep(t))
    /\ \A c \in Conn : SF_vars(ReadEnds(c))

FairSpec == Spec /\ Fairness
----------------------------------------------------------------------------
\* Types, and no connection is listed twice.
TypeOK ==
    /\ connections \in Seq(Conn)
    /\ IsInjective(connections)
    /\ server_sync \in BOOLEAN
    /\ slots \in [Conn -> BOOLEAN]
    /\ stream \in [Conn -> {"none", "up", "ended", "failed"}]
    /\ reading \in [Conn -> {"off", "armed", "over"}]
    /\ posted \in [Conn -> BOOLEAN]
    /\ at \in [Thread -> Task]
    /\ todo \in [App -> Seq(Conn)]
    /\ calls \in 0 .. MaxCalls
    /\ heard \in [Conn -> SUBSET Heard]

\* The application hears of a connection's events only after it has heard
\* that the connection was accepted.  It is in the list before that:
\* server_sync, held until onAccepted has run, keeps other threads from
\* finding it there.
AcceptedFirst ==
    \A c \in Conn :
        heard[c] \cap {"forwarded", "disconnected"} # {} => "accepted" \in heard[c]

\* When the application is told of a disconnection, the connection is not in
\* the list, and never will be again.
GoneWhenAnnounced ==
    \A c \in Conn : "disconnected" \in heard[c] => ~Listed(c)

\* A listed connection without slots, whose end nobody would notice, is
\* about to get them or about to go.
ListedIsWatched ==
    \A c \in Conn : Listed(c) /\ ~slots[c] =>
        \/ at[Io].place = "watch" /\ at[Io].conn = c
        \/ \E t \in Thread : at[t].place = "erase" /\ at[t].conn = c

\* A connection whose peer has closed leaves the list and is announced, even
\* if other threads disconnect it at the same time.
EndedIsForgotten ==
    \A c \in Conn :
        stream[c] = "ended" /\ Listed(c)
            ~> ~Listed(c) /\ "disconnected" \in heard[c]

\* What disconnect() and disconnectAll() set out to disconnect leaves the
\* list, whoever else removes connections meanwhile.
DisconnectCompletes ==
    \A t \in App : \A c \in Conn :
        Contains(todo[t], c) /\ Listed(c) ~> ~Listed(c)
============================================================================
