---------------------------- MODULE StorageClient ----------------------------
(***************************************************************************)
(* A StorageClient (core/src/Storage/StorageClient.cpp) with the           *)
(* connections of its tcp_client (core/src/TCP/TCPClient.cpp): one thread, *)
(* the owner, makes the calls, and the thread of the io_service runs the   *)
(* handlers.  Starting, stopping and destroying is IoRunner's, whose       *)
(* actions are taken here together with what they do to the connections.   *)
(*                                                                         *)
(* What matters of a connection is who still refers to it: tcp_conn, the   *)
(* reads and writes, which hold a shared pointer; but async_connect and    *)
(* the closing that stop() posts hold a plain `this`.                      *)
(***************************************************************************)
EXTENDS Naturals

CONSTANTS
    Conn,       \* the connections that connect() will make
    Nobody,     \* no connection
    MaxTry, Prompt, MaxStarts,      \* IoRunner's
    MaxUnread   \* bound: replies that wait to be read

ASSUME ClientAssumption ==
    /\ Nobody \notin Conn
    /\ MaxTry \in Nat \ {0}
    /\ Prompt \in BOOLEAN
    /\ MaxStarts \in Nat
    /\ MaxUnread \in Nat

VARIABLES
    owner, call, starts, tries, server_thread, started_status, stopped,
    within,      \* the call of StorageClient that the owner is in, "none"
                 \* outside and in the destructor
    tcp_conn,
    socket,      \* socket[c]: "none" before connect(), then "connecting",
                 \* "refused", "up", "ended" by the peer, "failed", "closed"
    connecting,  \* connecting[c]: is an async_connect or its handler pending?
    reading,     \* reading[c]: from start() to the end of the last handle_read
    writing,     \* writing[c]: is an async_write or its handler pending?
    posted,      \* posted[c]: closings that stop() posted
    slots,       \* slots[c]: are tcp_client's slots connected to c's signals?
    unread,      \* unread[c]: replies that c's peer sent and nobody read
    at,          \* the connection whose message is being assigned to `answer`
    answer       \* the connection whose reply `answer` is, if it is one

runnerVars == <<owner, call, starts, tries, server_thread, started_status, stopped>>
connVars == <<tcp_conn, socket, connecting, reading, writing, posted, slots, unread>>
answerVars == <<at, answer>>
vars == <<runnerVars, within, connVars, answerVars>>

\* run() stays in its loop while any operation is pending.
HasWork == \E c \in Conn : connecting[c] \/ reading[c] \/ writing[c] \/ posted[c] > 0

Runner == INSTANCE IoRunner WITH Kinds <- {"client"},
                               work <- IF HasWork THEN "some" ELSE "none"

Init ==
    /\ owner = "out" /\ call = "none" /\ starts = 0 /\ tries = 0
    /\ server_thread = "none" /\ started_status = FALSE /\ stopped = FALSE
    /\ within = "none"
    /\ tcp_conn = Nobody
    /\ socket = [c \in Conn |-> "none"]
    /\ connecting = [c \in Conn |-> FALSE]
    /\ reading = [c \in Conn |-> FALSE]
    /\ writing = [c \in Conn |-> FALSE]
    /\ posted = [c \in Conn |-> 0]
    /\ slots = [c \in Conn |-> FALSE]
    /\ unread = [c \in Conn |-> 0]
    /\ at = Nobody
    /\ answer = Nobody
----------------------------------------------------------------------------
(* The owner *)

Outside == owner = "out" /\ within = "none"
Exists == call # "destroy" /\ owner # "terminated"

\* Mutant: tcp_client does not connect its slots.
TcpConnectUnwatched(c) ==
    /\ socket[c] = "none"
    /\ tcp_conn' = c
    /\ socket' = [socket EXCEPT ![c] = "connecting"]
    /\ connecting' = [connecting EXCEPT ![c] = TRUE]
    /\ UNCHANGED <<reading, writing, posted, slots, unread>>

\* tcp_client::connect and tcp_connection::connect.
TcpConnect(c) ==
    /\ socket[c] = "none"
    /\ tcp_conn' = c
    /\ socket' = [socket EXCEPT ![c] = "connecting"]
    /\ connecting' = [connecting EXCEPT ![c] = TRUE]
    /\ slots' = [slots EXCEPT ![c] = TRUE]
    /\ UNCHANGED <<reading, writing, posted, unread>>

\* Mutant: Connect() does not ask whether the client is started.
ConnectAnyway ==
    /\ Outside
    /\ starts < MaxStarts
    /\ \E c \in Conn : TcpConnect(c)
    /\ within' = "connect"
    /\ Runner!CallOther
    /\ UNCHANGED answerVars

\* Connect() of a client that is not started; otherwise it does nothing.
Connect ==
    /\ Outside /\ ~started_status
    /\ starts < MaxStarts
    /\ \E c \in Conn : TcpConnect(c)
    /\ within' = "connect"
    /\ Runner!CallOther
    /\ UNCHANGED answerVars

Start ==
    /\ within = "connect" /\ within' = "none"
    /\ UNCHANGED <<connVars, answerVars>>
    /\ Runner!CallStart

\* Mutant: the client lets go of its connection.
TcpDisconnectAndForget ==
    /\ posted' = IF tcp_conn = Nobody THEN posted
                 ELSE [posted EXCEPT ![tcp_conn] = @ + 1]
    /\ tcp_conn' = Nobody
    /\ UNCHANGED <<socket, connecting, reading, writing, slots, unread>>

\* tcp_client::disconnect: the connection, if there is one, posts its
\* closing.  handle_disconnected, called first, only logs.
TcpDisconnect ==
    /\ posted' = IF tcp_conn = Nobody THEN posted
                 ELSE [posted EXCEPT ![tcp_conn] = @ + 1]
    /\ UNCHANGED <<tcp_conn, socket, connecting, reading, writing, slots, unread>>

\* Disconnect() of a started client.
Disconnect ==
    /\ Outside /\ started_status
    /\ TcpDisconnect
    /\ within' = "disconnect"
    /\ Runner!CallOther
    /\ UNCHANGED answerVars

Stop ==
    /\ within = "disconnect" /\ within' = "none"
    /\ UNCHANGED <<connVars, answerVars>>
    /\ Runner!CallStop

\* send(): the connection starts a write, unless sendStart, which is set
\* during a write and uninitialized before start(), is set.
Send ==
    /\ Outside /\ tcp_conn # Nobody
    /\ writing' \in {writing, [writing EXCEPT ![tcp_conn] = TRUE]}
    /\ UNCHANGED <<tcp_conn, socket, connecting, reading, posted, slots, unread>>
    /\ Runner!CallOther
    /\ UNCHANGED <<within, answerVars>>

\* getAnswer() copies `answer`, without a lock.
BeginGetAnswer ==
    /\ Outside
    /\ within' = "getAnswer"
    /\ UNCHANGED <<runnerVars, connVars, answerVars>>

EndGetAnswer ==
    /\ within = "getAnswer" /\ within' = "none"
    /\ UNCHANGED <<runnerVars, connVars, answerVars>>

\* The destructor destroys `answer`, then tcpClient, whose destructor calls
\* stop().
Destroy ==
    /\ Outside
    /\ UNCHANGED <<within, connVars, answerVars>>
    /\ Runner!CallDestructor

\* Steps of tcp_client::start, stop and the destructor.
CallStep ==
    /\ UNCHANGED <<within, answerVars>>
    /\ \/ TcpDisconnect /\ Runner!Disconnect
       \/ /\ UNCHANGED connVars
          /\ \/ Runner!Spawn \/ Runner!WaitStart
             \/ Runner!StopService \/ Runner!WaitStop \/ Runner!Join
             \/ Runner!Destructor

OwnerStep == Start \/ Stop \/ EndGetAnswer \/ CallStep
----------------------------------------------------------------------------
(* The thread of the io_service *)

\* Mutant: run_one() instead of run().
ThreadStepOnce ==
    /\ at = Nobody
    /\ UNCHANGED <<within, connVars, answerVars>>
    /\ \/ Runner!ThreadSteps
       \/ /\ server_thread = "running"
          /\ server_thread' = "leaving" /\ stopped' = TRUE
          /\ UNCHANGED <<owner, call, starts, tries, started_status>>

\* run() returns between two handlers.
ThreadStep ==
    /\ at = Nobody
    /\ UNCHANGED <<within, connVars, answerVars>>
    /\ Runner!ThreadSteps

\* run() takes the next handler.
Runs == server_thread = "running" /\ ~stopped /\ at = Nobody /\ Runner!Alive

\* A handler ends; it may have been the last.
Handled ==
    /\ UNCHANGED <<within, tcp_conn>>
    /\ IF HasWork' THEN UNCHANGED runnerVars ELSE Runner!WorkFinishes

\* handle_connect: timed out if the socket is closed, an error, or success.
HandleConnect(c) ==
    /\ Runs
    /\ connecting[c] /\ socket[c] # "connecting"
    /\ connecting' = [connecting EXCEPT ![c] = FALSE]
    /\ \/ /\ socket[c] = "closed"
          /\ UNCHANGED <<socket, reading>>
       \/ /\ socket[c] = "refused"
          /\ socket' = [socket EXCEPT ![c] = "closed"]
          /\ UNCHANGED reading
       \/ /\ socket[c] \in {"up", "ended", "failed"}
          /\ reading' = [reading EXCEPT ![c] = TRUE]
          /\ UNCHANGED socket
    /\ UNCHANGED <<writing, posted, slots, unread, answerVars>>
    /\ Handled

\* handle_write.  The next message of the queue is one more write.
HandleWrite(c) ==
    /\ Runs
    /\ writing[c]
    /\ writing' \in {writing, [writing EXCEPT ![c] = FALSE]}
    /\ UNCHANGED <<socket, connecting, reading, posted, slots, unread, answerVars>>
    /\ Handled

\* The closing that stop() posted.
RunClose(c) ==
    /\ Runs
    /\ posted[c] > 0
    /\ posted' = [posted EXCEPT ![c] = @ - 1]
    /\ socket' = [socket EXCEPT ![c] = "closed"]
    /\ slots' = [slots EXCEPT ![c] = FALSE]
    /\ UNCHANGED <<connecting, reading, writing, unread, answerVars>>
    /\ Handled

\* The filter of tcp_client's slots.
IsCurrent(c) == slots[c] /\ tcp_conn = c

\* Mutant: a message is announced once more.
ReadMessageAgain(c) ==
    /\ Runs
    /\ reading[c]
    /\ socket[c] \in {"up", "ended"}
    /\ unread' = [unread EXCEPT ![c] = @ - 1]
    /\ at' = IF IsCurrent(c) THEN c ELSE Nobody
    /\ UNCHANGED <<socket, connecting, reading, writing, posted, slots, answer>>
    /\ Handled

\* handle_read with a message, up to StorageClient::handle_read_message.
ReadMessage(c) ==
    /\ Runs
    /\ reading[c] /\ unread[c] > 0
    /\ socket[c] \in {"up", "ended"}
    /\ unread' = [unread EXCEPT ![c] = @ - 1]
    /\ at' = IF IsCurrent(c) THEN c ELSE Nobody
    /\ UNCHANGED <<socket, connecting, reading, writing, posted, slots, answer>>
    /\ Handled

\* The assignment, and the rest of handle_read.
AssignAnswer ==
    /\ at # Nobody
    /\ Runner!Alive
    /\ answer' = at
    /\ at' = Nobody
    /\ UNCHANGED <<runnerVars, within, connVars>>

\* handle_read with an error, which is only logged.
ReadEnds(c) ==
    /\ Runs
    /\ reading[c]
    /\ \/ socket[c] \in {"failed", "closed"}
       \/ socket[c] = "ended" /\ unread[c] = 0
    /\ reading' = [reading EXCEPT ![c] = FALSE]
    /\ UNCHANGED <<socket, connecting, writing, posted, slots, unread, answerVars>>
    /\ Handled

Handler(c) ==
    \/ HandleConnect(c) \/ HandleWrite(c) \/ RunClose(c)
    \/ ReadMessage(c) \/ ReadEnds(c)
----------------------------------------------------------------------------
(* The network and the server *)

KernelConnect(c) ==
    /\ socket[c] = "connecting"
    /\ \E how \in {"up", "refused"} : socket' = [socket EXCEPT ![c] = how]
    /\ UNCHANGED <<runnerVars, within, tcp_conn, connecting, reading, writing>>
    /\ UNCHANGED <<posted, slots, unread, answerVars>>

StreamEnds(c) ==
    /\ socket[c] = "up"
    /\ \E how \in {"ended", "failed"} : socket' = [socket EXCEPT ![c] = how]
    /\ UNCHANGED <<runnerVars, within, tcp_conn, connecting, reading, writing>>
    /\ UNCHANGED <<posted, slots, unread, answerVars>>

Reply(c) ==
    /\ socket[c] = "up"
    /\ unread[c] < MaxUnread
    /\ unread' = [unread EXCEPT ![c] = @ + 1]
    /\ UNCHANGED <<runnerVars, within, tcp_conn, socket, connecting, reading>>
    /\ UNCHANGED <<writing, posted, slots, answerVars>>
----------------------------------------------------------------------------
Next ==
    \/ Exists /\ (Connect \/ Disconnect \/ Send \/ BeginGetAnswer \/ Destroy)
    \/ OwnerStep
    \/ ThreadStep \/ AssignAnswer
    \/ \E c \in Conn : Handler(c) \/ KernelConnect(c) \/ StreamEnds(c) \/ Reply(c)

Spec == Init /\ [][Next]_vars

\* The threads are scheduled, connects are answered, and the run loop takes
\* ready handlers in turn.
Fairness ==
    /\ WF_vars(OwnerStep)
    /\ WF_vars(ThreadStep) /\ WF_vars(AssignAnswer)
    /\ \A c \in Conn :
          /\ WF_vars(HandleConnect(c)) /\ SF_vars(ReadMessage(c))
          /\ WF_vars(KernelConnect(c))

FairSpec == Spec /\ Fairness
----------------------------------------------------------------------------
Socket == {"none", "connecting", "refused", "up", "ended", "failed", "closed"}

\* Types.  Nothing was read that the peer has not sent.
TypeOK ==
    /\ within \in {"none", "connect", "disconnect", "getAnswer"}
    /\ tcp_conn \in Conn \cup {Nobody}
    /\ socket \in [Conn -> Socket]
    /\ connecting \in [Conn -> BOOLEAN]
    /\ reading \in [Conn -> BOOLEAN]
    /\ writing \in [Conn -> BOOLEAN]
    /\ posted \in [Conn -> Nat]
    /\ slots \in [Conn -> BOOLEAN]
    /\ unread \in [Conn -> 0..MaxUnread]
    /\ at \in Conn \cup {Nobody}
    /\ answer \in Conn \cup {Nobody}

\* Somebody holds a shared pointer to c.
Held(c) == tcp_conn = c \/ reading[c] \/ writing[c]

\* A handler that holds a plain pointer to a connection and may still run
\* finds it alive.
AliveWhenUsed ==
    ~stopped => \A c \in Conn : connecting[c] \/ posted[c] > 0 => Held(c)

\* tcp_conn, which the slots read on the io_service thread without a lock,
\* is replaced only while that thread is not there.
ReplacedAtRest ==
    [][tcp_conn' # tcp_conn => server_thread \in {"none", "done"}]_vars

\* After Disconnect() or the destructor no handler runs or goes on.
QuietAfterStop ==
    (Outside /\ call = "stop") \/ owner = "destroyed"
        => server_thread \in {"none", "done"} /\ at = Nobody

\* Every call returns or ends the program: stop() waits for a handler that
\* ends.
CallsReturn ==
    []<>(Outside \/ owner \in {"destroyed", "terminated"})

\* A reply that reaches the client of a connection that stays up becomes its
\* answer, unless the client is stopped: start() came in time, the slots
\* were connected, and the filter let it through.
AnswerArrives ==
    \A c \in Conn :
        unread[c] > 0 ~> \/ answer = c
                         \/ socket[c] \notin {"up", "ended"}
                         \/ stopped \/ owner = "terminated"

\* `answer` is assigned only while it exists and nobody reads it.
AnswerGuarded == at # Nobody => within # "getAnswer" /\ call # "destroy"

\* The client starts, stops and ends like any IoRunner: what its pending
\* operations do to HasWork are steps of the runner's `work`.
ImplementsRunner == Runner!Spec
============================================================================
