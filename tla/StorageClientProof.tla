------------------------ MODULE StorageClientProof ------------------------
(***************************************************************************)
(* A StorageClient starts, stops and ends like any IoRunner, and, when a   *)
(* new thread runs before waitStart gives up (Prompt), no handler uses a   *)
(* connection that has gone, tcp_conn is replaced only while no handler    *)
(* can read it, and nothing runs after Disconnect(); for any number of     *)
(* connections, calls and replies.                                         *)
(***************************************************************************)
EXTENDS StorageClient, TLAPS

USE ClientAssumption
----------------------------------------------------------------------------
(* Types *)

\* Every call, handler and event keeps the types.
LEMMA TypeStep == TypeOK /\ [Next]_vars => TypeOK'
<1> SUFFICES ASSUME TypeOK, [Next]_vars PROVE TypeOK'
    OBVIOUS
<1> USE DEF TypeOK, Socket
<1>1. CASE Connect
    BY <1>1 DEF Connect, TcpConnect, answerVars
<1>2. CASE Disconnect
    BY <1>2 DEF Disconnect, TcpDisconnect, answerVars
<1>3. CASE Send
    BY <1>3 DEF Send, answerVars
<1>4. CASE BeginGetAnswer \/ EndGetAnswer \/ Destroy \/ Start \/ Stop
    BY <1>4 DEF BeginGetAnswer, EndGetAnswer, Destroy, Start, Stop, connVars,
       answerVars
<1>5. CASE CallStep
    BY <1>5 DEF CallStep, TcpDisconnect, connVars, answerVars
<1>6. CASE ThreadStep
    BY <1>6 DEF ThreadStep, connVars, answerVars
<1>7. CASE AssignAnswer
    BY <1>7 DEF AssignAnswer, connVars
<1>8. ASSUME NEW c \in Conn, HandleConnect(c) PROVE TypeOK'
    BY <1>8 DEF HandleConnect, Handled, answerVars
<1>9. ASSUME NEW c \in Conn, HandleWrite(c) PROVE TypeOK'
    BY <1>9 DEF HandleWrite, Handled, answerVars
<1>10. ASSUME NEW c \in Conn, RunClose(c) PROVE TypeOK'
    BY <1>10 DEF RunClose, Handled, answerVars
<1>11. ASSUME NEW c \in Conn, ReadMessage(c) PROVE TypeOK'
    BY <1>11 DEF ReadMessage, Handled
<1>12. ASSUME NEW c \in Conn, ReadEnds(c) PROVE TypeOK'
    BY <1>12 DEF ReadEnds, Handled, answerVars
<1>13. ASSUME NEW c \in Conn, KernelConnect(c) \/ StreamEnds(c) PROVE TypeOK'
    BY <1>13 DEF KernelConnect, StreamEnds, answerVars
<1>14. ASSUME NEW c \in Conn, Reply(c) PROVE TypeOK'
    BY <1>14 DEF Reply, answerVars
<1>15. CASE UNCHANGED vars
    BY <1>15 DEF vars, connVars, answerVars
<1> QED
    BY <1>1, <1>2, <1>3, <1>4, <1>5, <1>6, <1>7, <1>8, <1>9, <1>10, <1>11,
       <1>12, <1>13, <1>14, <1>15
    DEF Next, OwnerStep, Handler

\* Types, however late threads run.
THEOREM TypeCorrect == Spec => []TypeOK
<1>1. Init => TypeOK
    BY DEF Init, TypeOK, Socket
<1> QED BY <1>1, TypeStep, PTL DEF Spec
----------------------------------------------------------------------------
(* The client is an IoRunner. *)

\* The work of the run loop depends on the pending operations only.
LEMMA SameWork ==
    ASSUME UNCHANGED <<connecting, reading, writing, posted>>
    PROVE  HasWork' <=> HasWork
BY DEF HasWork

\* A step that leaves the run loop and the pending operations alone.
LEMMA RunnerStutters ==
    ASSUME UNCHANGED runnerVars, HasWork' <=> HasWork
    PROVE  UNCHANGED Runner!vars
BY DEF runnerVars, Runner!vars, Runner!ownerVars

\* A handler that was pending runs to its end.
LEMMA HandlerOfRunner ==
    ASSUME HasWork, Handled
    PROVE  Runner!Next \/ UNCHANGED Runner!vars
<1>1. CASE HasWork'
    BY <1>1, RunnerStutters DEF Handled
<1>2. CASE ~HasWork'
    BY <1>2 DEF Handled, Runner!Next
<1> QED BY <1>1, <1>2

\* Every step is one of the IoRunner or leaves it alone.
LEMMA StepOfRunner == TypeOK /\ [Next]_vars => [Runner!Next]_(Runner!vars)
<1> SUFFICES ASSUME TypeOK, [Next]_vars
             PROVE  Runner!Next \/ UNCHANGED Runner!vars
    OBVIOUS
<1>1. CASE Connect \/ Disconnect \/ Send
    BY <1>1 DEF Connect, Disconnect, Send, Runner!Next
<1>2. CASE BeginGetAnswer \/ EndGetAnswer
    BY <1>2, SameWork, RunnerStutters DEF BeginGetAnswer, EndGetAnswer, connVars
<1>3. CASE Destroy \/ Start \/ Stop
    BY <1>3 DEF Destroy, Start, Stop, Runner!Next
<1>4. CASE CallStep \/ ThreadStep
    BY <1>4 DEF CallStep, ThreadStep, Runner!Next, Runner!CallSteps
<1>5. CASE AssignAnswer
    BY <1>5, SameWork, RunnerStutters DEF AssignAnswer, connVars
<1>6. ASSUME NEW c \in Conn, Handler(c) PROVE Runner!Next \/ UNCHANGED Runner!vars
    <2>1. HasWork
        BY <1>6 DEF Handler, HandleConnect, HandleWrite, RunClose, ReadMessage,
           ReadEnds, HasWork
    <2>2. Handled
        BY <1>6 DEF Handler, HandleConnect, HandleWrite, RunClose, ReadMessage,
           ReadEnds
    <2> QED BY <2>1, <2>2, HandlerOfRunner
<1>7. ASSUME NEW c \in Conn, KernelConnect(c) \/ StreamEnds(c) \/ Reply(c)
      PROVE  UNCHANGED Runner!vars
    BY <1>7, SameWork, RunnerStutters DEF KernelConnect, StreamEnds, Reply
<1>8. CASE UNCHANGED vars
    BY <1>8, SameWork, RunnerStutters DEF vars, connVars
<1> QED BY <1>1, <1>2, <1>3, <1>4, <1>5, <1>6, <1>7, <1>8 DEF Next, OwnerStep

\* The client starts, stops and ends like any IoRunner: what is proved of
\* IoRunner holds of it.
THEOREM Refinement == Spec => ImplementsRunner
<1>1. Init => Runner!Init
    <2> SUFFICES ASSUME Init PROVE Runner!Init
        OBVIOUS
    <2>1. ~HasWork
        BY DEF Init, HasWork
    <2> QED BY <2>1 DEF Init, Runner!Init
<1>2. TypeOK /\ [Next]_vars => [Runner!Next]_(Runner!vars)
    BY StepOfRunner
<1> QED BY <1>1, <1>2, TypeCorrect, PTL DEF Spec, ImplementsRunner, Runner!Spec
----------------------------------------------------------------------------
(* What the run loop contributes *)

\* Only waitStart sees a thread that has not run, nothing runs after a
\* completed stop(), and a loop that has been left stays stopped.
RunnerInv ==
    /\ Runner!TypeOK
    /\ server_thread = "new" => owner = "waitStart" /\ tries < MaxTry
    /\ owner \in {"destructor", "destroyed"} => call = "destroy"
    /\ owner \in {"spawn", "waitStart"} => call = "start"
    /\ owner \in {"disconnect", "stopService", "waitStop", "join"}
           => call \in {"start", "stop", "destroy"}
    /\ Runner!QuietAfterStop
    /\ server_thread \in {"leaving", "done"} => stopped
    /\ owner \in {"waitStop", "join"} => stopped

\* Every step of the run loop and its owner keeps this.
LEMMA RunnerInvStep ==
    ASSUME Prompt, RunnerInv, [Runner!Next]_(Runner!vars)
    PROVE  RunnerInv'
<1> USE DEF RunnerInv, Runner!TypeOK, Runner!QuietAfterStop
<1>1. CASE Runner!CallStart
    BY <1>1 DEF Runner!CallStart, Runner!BeginStop
<1>2. CASE Runner!CallStop
    BY <1>2 DEF Runner!CallStop, Runner!BeginStop
<1>3. CASE Runner!CallDestructor
    BY <1>3 DEF Runner!CallDestructor, Runner!BeginStop
<1>4. CASE Runner!CallOther
    BY <1>4 DEF Runner!CallOther
<1>5. CASE Runner!Spawn
    BY <1>5 DEF Runner!Spawn
<1>6. CASE Runner!WaitStart
    <2>1. CASE started_status /\ owner' = "out" /\ UNCHANGED tries
        BY <1>6, <2>1 DEF Runner!WaitStart
    <2>2. CASE tries = MaxTry /\ owner' = "out" /\ UNCHANGED tries
        BY <1>6, <2>2 DEF Runner!WaitStart
    <2>3. CASE ~started_status /\ tries < MaxTry /\ tries' = tries + 1 /\ UNCHANGED owner
        BY <1>6, <2>3 DEF Runner!WaitStart
    <2> QED BY <1>6, <2>1, <2>2, <2>3 DEF Runner!WaitStart
<1>7. CASE Runner!Disconnect
    BY <1>7 DEF Runner!Disconnect
<1>8. CASE Runner!StopService
    BY <1>8 DEF Runner!StopService
<1>9. CASE Runner!WaitStop
    BY <1>9 DEF Runner!WaitStop
<1>10. CASE Runner!Join
    BY <1>10 DEF Runner!Join, Runner!AfterStop
<1>11. CASE Runner!Destructor
    BY <1>11 DEF Runner!Destructor
<1>12. CASE Runner!ThreadStarts
    BY <1>12 DEF Runner!ThreadStarts, Runner!ownerVars
<1>13. CASE Runner!RunReturns
    BY <1>13 DEF Runner!RunReturns, Runner!ownerVars
<1>14. CASE Runner!ThreadEnds
    BY <1>14 DEF Runner!ThreadEnds, Runner!ownerVars
<1>15. CASE Runner!WorkFinishes
    BY <1>15 DEF Runner!WorkFinishes, Runner!ownerVars
<1>16. CASE UNCHANGED Runner!vars
    BY <1>16 DEF Runner!vars, Runner!ownerVars
<1> QED BY <1>1, <1>2, <1>3, <1>4, <1>5, <1>6, <1>7, <1>8, <1>9, <1>10, <1>11,
           <1>12, <1>13, <1>14, <1>15, <1>16
        DEF Runner!Next, Runner!CallSteps, Runner!ThreadSteps

\* Nothing calls io_service::reset().
LEMMA StaysStopped ==
    ASSUME stopped, [Runner!Next]_(Runner!vars)
    PROVE  stopped'
BY DEF Runner!Next, Runner!CallSteps, Runner!ThreadSteps, Runner!CallStart,
   Runner!CallStop, Runner!CallDestructor, Runner!CallOther, Runner!Spawn,
   Runner!WaitStart, Runner!Disconnect, Runner!StopService, Runner!WaitStop,
   Runner!Join, Runner!Destructor, Runner!ThreadStarts, Runner!RunReturns,
   Runner!ThreadEnds, Runner!WorkFinishes, Runner!vars, Runner!ownerVars
----------------------------------------------------------------------------
(* The connections *)

\* While the service is not stopped, the operations that hold a plain `this`
\* are those of the current connection;
Current ==
    ~stopped => \A c \in Conn : connecting[c] \/ posted[c] > 0 => tcp_conn = c

\* a service that has not run has no connection, but for a Connect() that is
\* about to start it;
Fresh ==
    ~stopped /\ server_thread = "none"
        => \/ tcp_conn = Nobody
           \/ owner = "out" /\ within = "connect"
           \/ owner = "spawn"

\* and only a loop that runs is in the middle of a message.
InHandler == at # Nobody => server_thread = "running"

ClientInv == TypeOK /\ RunnerInv /\ Current /\ Fresh /\ InHandler

\* Connect() finds no thread that could read tcp_conn, and no connection
\* unless the service is stopped.
LEMMA ConnectAtRest ==
    ASSUME ClientInv, Outside, ~started_status
    PROVE  server_thread \in {"none", "done"} /\ (~stopped => tcp_conn = Nobody)
BY DEF ClientInv, RunnerInv, Runner!TypeOK, Fresh, Outside

\* Steps that add no operation with a plain `this`.
LEMMA CurrentKept ==
    ASSUME TypeOK, Current, stopped => stopped', tcp_conn' = tcp_conn,
           \A c \in Conn : connecting'[c] => connecting[c],
           \A c \in Conn : posted'[c] > 0 => posted[c] > 0
    PROVE  Current'
BY DEF Current

\* disconnect() posts the closing of the current connection.
LEMMA CurrentDisconnect ==
    ASSUME TypeOK, Current, stopped => stopped', TcpDisconnect
    PROVE  Current'
<1>1. \A c \in Conn : posted'[c] > 0 => posted[c] > 0 \/ tcp_conn = c
    BY DEF TcpDisconnect, TypeOK
<1> QED BY <1>1 DEF TcpDisconnect, Current, TypeOK

\* A handler leaves the run loop and its owner where they are.
LEMMA HandlerStays ==
    ASSUME Handled
    PROVE  UNCHANGED <<owner, call, server_thread, stopped, started_status,
                       within, tcp_conn>>
BY DEF Handled, runnerVars, Runner!WorkFinishes, Runner!ownerVars

\* Every step keeps the invariant.
LEMMA ClientStep ==
    ASSUME Prompt, ClientInv, [Next]_vars
    PROVE  ClientInv'
<1>1. TypeOK' /\ TypeOK
    BY TypeStep DEF ClientInv
<1>2. [Runner!Next]_(Runner!vars)
    BY StepOfRunner DEF ClientInv
<1>3. RunnerInv' /\ RunnerInv
    BY <1>2, RunnerInvStep DEF ClientInv
<1>4. stopped => stopped'
    BY <1>2, StaysStopped
<1>5. Current /\ Fresh /\ InHandler
    BY DEF ClientInv
<1> SUFFICES Current' /\ Fresh' /\ InHandler'
    BY <1>1, <1>3 DEF ClientInv
<1>6. CASE Connect
    <2>1. PICK c \in Conn : TcpConnect(c)
        BY <1>6 DEF Connect
    <2>2. server_thread \in {"none", "done"} /\ (~stopped => tcp_conn = Nobody)
        BY <1>6, ConnectAtRest DEF Connect
    <2>3. /\ owner' = "out" /\ within' = "connect" /\ UNCHANGED answerVars
          /\ UNCHANGED <<server_thread, stopped>>
        BY <1>6 DEF Connect, Runner!CallOther, Outside
    <2>4. Current'
        <3>1. tcp_conn' = c /\ posted' = posted
              /\ connecting' = [connecting EXCEPT ![c] = TRUE]
            BY <2>1 DEF TcpConnect
        <3> SUFFICES ASSUME ~stopped', NEW d \in Conn,
                            connecting'[d] \/ posted'[d] > 0
                     PROVE  tcp_conn' = d
            BY DEF Current
        <3>2. ~(connecting[d] \/ posted[d] > 0)
            BY <1>5, <2>2, <2>3 DEF Current
        <3> QED BY <1>1, <3>1, <3>2 DEF TypeOK
    <2>5. Fresh' /\ InHandler'
        BY <1>5, <2>2, <2>3 DEF Fresh, InHandler, answerVars
    <2> QED BY <2>4, <2>5
<1>7. CASE Disconnect
    <2>1. Current'
        BY <1>1, <1>4, <1>5, <1>7, CurrentDisconnect DEF Disconnect
    <2>2. Fresh' /\ InHandler'
        BY <1>3, <1>5, <1>7 DEF Disconnect, TcpDisconnect, Outside, Fresh, InHandler,
           answerVars, Runner!CallOther, RunnerInv, Runner!TypeOK
    <2> QED BY <2>1, <2>2
<1>8. CASE Send
    <2>1. Current'
        BY <1>1, <1>4, <1>5, <1>8, CurrentKept DEF Send
    <2>2. Fresh' /\ InHandler'
        BY <1>5, <1>8 DEF Send, Fresh, InHandler, answerVars, Runner!CallOther
    <2> QED BY <2>1, <2>2
<1>9. CASE BeginGetAnswer \/ EndGetAnswer
    <2>1. UNCHANGED <<runnerVars, connVars, answerVars>>
        BY <1>9 DEF BeginGetAnswer, EndGetAnswer
    <2>2. Current'
        BY <1>1, <1>4, <1>5, <2>1, CurrentKept DEF connVars
    <2>3. Fresh' /\ InHandler'
        BY <1>5, <1>9, <2>1 DEF BeginGetAnswer, EndGetAnswer, Outside, Fresh,
           InHandler, runnerVars, connVars, answerVars
    <2> QED BY <2>2, <2>3
<1>10. CASE Destroy \/ Start \/ Stop
    <2>1. UNCHANGED <<connVars, answerVars>>
        BY <1>10 DEF Destroy, Start, Stop
    <2>2. Current'
        BY <1>1, <1>4, <1>5, <2>1, CurrentKept DEF connVars
    <2>3. Fresh' /\ InHandler'
        BY <1>3, <1>5, <1>10, <2>1
        DEF Destroy, Start, Stop, Outside, Fresh, InHandler, connVars, answerVars,
            RunnerInv, Runner!TypeOK, Runner!CallStart, Runner!CallStop,
            Runner!CallDestructor, Runner!BeginStop
    <2> QED BY <2>2, <2>3
<1>11. CASE CallStep
    <2>1. Current'
        <3>1. CASE TcpDisconnect
            BY <1>1, <1>4, <1>5, <3>1, CurrentDisconnect
        <3>2. CASE UNCHANGED connVars
            BY <1>1, <1>4, <1>5, <3>2, CurrentKept DEF connVars
        <3> QED BY <1>11, <3>1, <3>2 DEF CallStep
    <2>2. tcp_conn' = tcp_conn /\ UNCHANGED <<within, at>>
        BY <1>11 DEF CallStep, TcpDisconnect, connVars, answerVars
    <2>3. Fresh' /\ InHandler'
        BY <1>3, <1>5, <1>11, <2>2
        DEF CallStep, Fresh, InHandler, RunnerInv, Runner!TypeOK, Runner!Disconnect,
            Runner!Spawn, Runner!WaitStart, Runner!StopService, Runner!WaitStop,
            Runner!Join, Runner!Destructor
    <2> QED BY <2>1, <2>3
<1>12. CASE ThreadStep
    <2>1. Current'
        BY <1>1, <1>4, <1>5, <1>12, CurrentKept DEF ThreadStep, connVars
    <2>2. Fresh' /\ InHandler'
        BY <1>12 DEF ThreadStep, Fresh, InHandler, answerVars, Runner!ThreadSteps,
           Runner!ThreadStarts, Runner!RunReturns, Runner!ThreadEnds
    <2> QED BY <2>1, <2>2
<1>13. CASE AssignAnswer
    <2>1. Current'
        BY <1>1, <1>4, <1>5, <1>13, CurrentKept DEF AssignAnswer, connVars
    <2>2. Fresh' /\ InHandler'
        BY <1>5, <1>13 DEF AssignAnswer, Fresh, InHandler, runnerVars, connVars
    <2> QED BY <2>1, <2>2
<1>14. ASSUME NEW c \in Conn, Handler(c) PROVE Current' /\ Fresh' /\ InHandler'
    <2>1. Runs /\ Handled
        BY <1>14 DEF Handler, HandleConnect, HandleWrite, RunClose, ReadMessage,
           ReadEnds
    <2>2. UNCHANGED <<owner, call, server_thread, stopped, started_status,
                      within, tcp_conn>>
        BY <2>1, HandlerStays
    <2>3. \A d \in Conn : connecting'[d] => connecting[d]
        BY <1>1, <1>14 DEF Handler, HandleConnect, HandleWrite, RunClose,
           ReadMessage, ReadEnds, TypeOK
    <2>4. \A d \in Conn : posted'[d] > 0 => posted[d] > 0
        BY <1>1, <1>14 DEF Handler, HandleConnect, HandleWrite, RunClose,
           ReadMessage, ReadEnds, TypeOK
    <2>5. Current'
        BY <1>1, <1>4, <1>5, <2>2, <2>3, <2>4, CurrentKept
    <2>6. Fresh' /\ InHandler'
        BY <2>1, <2>2 DEF Runs, Fresh, InHandler
    <2> QED BY <2>5, <2>6
<1>15. ASSUME NEW c \in Conn, KernelConnect(c) \/ StreamEnds(c) \/ Reply(c)
       PROVE  Current' /\ Fresh' /\ InHandler'
    <2>1. UNCHANGED <<runnerVars, within, tcp_conn, connecting, posted, answerVars>>
        BY <1>15 DEF KernelConnect, StreamEnds, Reply
    <2> QED BY <1>5, <2>1 DEF Current, Fresh, InHandler, runnerVars, answerVars
<1>16. CASE UNCHANGED vars
    BY <1>5, <1>16 DEF vars, runnerVars, connVars, answerVars, Current, Fresh,
       InHandler
<1> QED
    BY <1>6, <1>7, <1>8, <1>9, <1>10, <1>11, <1>12, <1>13, <1>14, <1>15, <1>16
    DEF Next, OwnerStep

\* The connections follow the run loop, when threads run in time.
THEOREM ClientInvariant ==
    ASSUME Prompt
    PROVE  Spec => []ClientInv
<1>1. Init => ClientInv
    <2> SUFFICES ASSUME Init PROVE ClientInv
        OBVIOUS
    <2>1. TypeOK
        BY DEF Init, TypeOK, Socket
    <2>2. RunnerInv
        <3>1. ~stopped /\ ~started_status /\ stopped \in BOOLEAN /\ started_status \in BOOLEAN
            BY Zenon DEF Init
        <3>2. /\ owner = "out" /\ call = "none" /\ starts = 0 /\ tries = 0
              /\ server_thread = "none"
            BY Zenon DEF Init
        <3> QED BY <3>1, <3>2 DEF RunnerInv, Runner!TypeOK, Runner!QuietAfterStop
    <2>3. Current /\ Fresh /\ InHandler
        BY DEF Init, Current, Fresh, InHandler
    <2> QED BY <2>1, <2>2, <2>3 DEF ClientInv
<1>2. ClientInv /\ [Next]_vars => ClientInv'
    BY ClientStep
<1> QED BY <1>1, <1>2, PTL DEF Spec

\* async_connect and the closing that stop() posts never run on a connection
\* that has gone.
THEOREM NoDanglingThis ==
    ASSUME Prompt
    PROVE  Spec => []AliveWhenUsed
<1>1. ClientInv => AliveWhenUsed
    BY DEF ClientInv, Current, AliveWhenUsed, Held
<1> QED BY <1>1, ClientInvariant, PTL

\* No handler runs, or goes on, after Disconnect() or the destructor.
THEOREM ClientQuiets ==
    ASSUME Prompt
    PROVE  Spec => []QuietAfterStop
<1>1. ClientInv => QuietAfterStop
    BY DEF ClientInv, RunnerInv, Runner!QuietAfterStop, InHandler, Outside,
       QuietAfterStop
<1> QED BY <1>1, ClientInvariant, PTL

\* Only Connect() replaces tcp_conn, and no handler is there to read it.
LEMMA OnlyAtRest ==
    ASSUME ClientInv, [Next]_vars, tcp_conn' # tcp_conn
    PROVE  server_thread \in {"none", "done"}
<1>1. Connect
    <2>1. ASSUME NEW c \in Conn, Handler(c) PROVE FALSE
        <3>1. Handled
            BY <2>1 DEF Handler, HandleConnect, HandleWrite, RunClose, ReadMessage,
               ReadEnds
        <3> QED BY <3>1, HandlerStays
    <2> QED
        BY <2>1 DEF Next, OwnerStep, Disconnect, Send, BeginGetAnswer, Destroy, Start,
           Stop, EndGetAnswer, CallStep, ThreadStep, AssignAnswer, TcpDisconnect,
           KernelConnect, StreamEnds, Reply, connVars, vars
<1> QED BY <1>1, ConnectAtRest DEF Connect

\* The slots never read tcp_conn while it is replaced.
THEOREM ReplacedUnread ==
    ASSUME Prompt
    PROVE  Spec => ReplacedAtRest
<1>1. ClientInv /\ [Next]_vars
          => [tcp_conn' # tcp_conn => server_thread \in {"none", "done"}]_vars
    BY OnlyAtRest
<1> QED BY <1>1, ClientInvariant, PTL DEF Spec, ReplacedAtRest
============================================================================
