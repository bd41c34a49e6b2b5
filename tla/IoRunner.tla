------------------------------ MODULE IoRunner ------------------------------
(***************************************************************************)
(* start(), stop() and the destructor of tcp_server and tcp_client         *)
(* (core/src/TCP/TCPServer.cpp, TCPClient.cpp), which are the same code:   *)
(* the owner of the object makes one call after another, and a thread of   *)
(* its own runs io_service::run().                                         *)
(*                                                                         *)
(* A handler or slot that throws is not modelled: it would end the run     *)
(* loop like work that runs out.                                           *)
(***************************************************************************)
EXTENDS Naturals

CONSTANTS
    Kinds,        \* "server", "client" or both: what the object may be
    MaxTry,       \* MAX_TRY of waitStart and waitStop, in seconds
    Prompt,       \* does a new thread run within MaxTry seconds?
    MaxStarts     \* bound: calls of start()

ASSUME RunnerAssumption ==
    /\ Kinds \subseteq {"server", "client"}
    /\ MaxTry \in Nat \ {0}
    /\ Prompt \in BOOLEAN
    /\ MaxStarts \in Nat

VARIABLES
    owner,           \* where the owner is in the call
    call,            \* the call in progress, or the last one
    starts,          \* calls of start() so far
    tries,           \* seconds waited in waitStart or waitStop
    server_thread,   \* "none" if not joinable, else the state of the thread
    started_status,
    stopped,         \* the io_service has been stopped, or ran out of work
    work             \* what is pending on the io_service: "accept", for ever,
                     \* of a server; of a client "some" operation or "none"

ownerVars == <<owner, call, starts, tries>>
vars == <<ownerVars, server_thread, started_status, stopped, work>>

Init ==
    /\ owner = "out"
    /\ call = "none"
    /\ starts = 0
    /\ tries = 0
    /\ server_thread = "none"
    /\ started_status = FALSE
    /\ stopped = FALSE
    /\ work \in {IF kind = "server" THEN "accept" ELSE "none" : kind \in Kinds}
----------------------------------------------------------------------------
(* The calls *)

\* stop() does nothing unless started_status says there is a thread to stop.
BeginStop(next) ==
    owner' = IF started_status THEN "disconnect" ELSE next

\* An operation may be left with the io_service.
MayAddWork == work' \in {work, IF work = "accept" THEN "accept" ELSE "some"}

\* Where stop() returns to.
AfterStop == CASE call = "start" -> "spawn"
               [] call = "stop" -> "out"
               [] call = "destroy" -> "destructor"

CallStart ==
    /\ owner = "out"
    /\ starts < MaxStarts
    /\ starts' = starts + 1
    /\ call' = "start"
    /\ BeginStop("spawn")
    /\ UNCHANGED <<tries, server_thread, started_status, stopped, work>>

CallStop ==
    /\ owner = "out"
    /\ call' = "stop"
    /\ BeginStop("out")
    /\ UNCHANGED <<starts, tries, server_thread, started_status, stopped, work>>

CallDestructor ==
    /\ owner = "out"
    /\ call' = "destroy"
    /\ BeginStop("destructor")
    /\ UNCHANGED <<starts, tries, server_thread, started_status, stopped, work>>

\* A call that may leave an operation with the io_service: connect() of a
\* client, send() and disconnect() of either.
CallOther ==
    /\ owner = "out"
    /\ call' = "other"
    /\ MayAddWork
    /\ UNCHANGED <<owner, starts, tries, server_thread, started_status, stopped>>

\* Assigning to a joinable std::thread terminates the program.
Spawn ==
    /\ owner = "spawn"
    /\ IF server_thread = "none"
       THEN server_thread' = "new" /\ owner' = "waitStart" /\ tries' = 0
       ELSE owner' = "terminated" /\ UNCHANGED <<server_thread, tries>>
    /\ UNCHANGED <<call, starts, started_status, stopped, work>>

\* Mutant: start() does not wait.
DoNotWait ==
    /\ owner = "waitStart"
    /\ owner' = "out"
    /\ UNCHANGED <<call, starts, tries, server_thread, started_status, stopped, work>>

\* One turn of waitStart.
WaitStart ==
    /\ owner = "waitStart"
    /\ \/ /\ started_status \/ tries = MaxTry
          /\ owner' = "out" /\ UNCHANGED tries
       \/ /\ ~started_status /\ tries < MaxTry
          /\ ~(Prompt /\ server_thread = "new" /\ tries = MaxTry - 1)
          /\ tries' = tries + 1 /\ UNCHANGED owner
    /\ UNCHANGED <<call, starts, server_thread, started_status, stopped, work>>

\* disconnect(): the closing of the connections is posted.
Disconnect ==
    /\ owner = "disconnect"
    /\ owner' = "stopService"
    /\ MayAddWork
    /\ UNCHANGED <<call, starts, tries, server_thread, started_status, stopped>>

\* Mutant: only the connections are closed.
KeepService ==
    /\ owner = "stopService"
    /\ owner' = "waitStop"
    /\ tries' = 0
    /\ UNCHANGED <<call, starts, server_thread, started_status, stopped, work>>

\* io_service::stop().  Nothing ever calls io_service::reset().
StopService ==
    /\ owner = "stopService"
    /\ owner' = "waitStop"
    /\ tries' = 0
    /\ stopped' = TRUE
    /\ UNCHANGED <<call, starts, server_thread, started_status, work>>

\* One turn of waitStop.
WaitStop ==
    /\ owner = "waitStop"
    /\ \/ /\ ~started_status \/ tries = MaxTry
          /\ owner' = "join" /\ UNCHANGED tries
       \/ /\ started_status /\ tries < MaxTry
          /\ tries' = tries + 1 /\ UNCHANGED owner
    /\ UNCHANGED <<call, starts, server_thread, started_status, stopped, work>>

\* Mutant: waitStop alone.
NoJoin ==
    /\ owner = "join"
    /\ owner' = AfterStop
    /\ UNCHANGED <<call, starts, tries, server_thread, started_status, stopped, work>>

Join ==
    /\ owner = "join"
    /\ server_thread \in {"none", "done"}
    /\ server_thread' = "none"
    /\ owner' = AfterStop
    /\ UNCHANGED <<call, starts, tries, started_status, stopped, work>>

\* Destroying a joinable std::thread terminates the program.
Destructor ==
    /\ owner = "destructor"
    /\ owner' = IF server_thread = "none" THEN "destroyed" ELSE "terminated"
    /\ UNCHANGED <<call, starts, tries, server_thread, started_status, stopped, work>>
----------------------------------------------------------------------------
(* The thread *)

Alive == owner # "terminated"

\* Mutant: the thread runs the loop first.
RunFirst ==
    /\ Alive
    /\ server_thread = "new"
    /\ server_thread' = "running"
    /\ UNCHANGED <<ownerVars, started_status, stopped, work>>

\* The thread of a client returns at once if the io_service pointer is null.
\* Only the destructor makes it so: a thread that has not run by then is
\* joinable, and ends the program in the next step of Destructor anyway.
ThreadStarts ==
    /\ Alive
    /\ server_thread = "new"
    /\ server_thread' = "running"
    /\ started_status' = TRUE
    /\ UNCHANGED <<ownerVars, stopped, work>>

\* A connect fails, a connection ends, a posted handler has run: nothing is
\* pending any more.
WorkFinishes ==
    /\ Alive
    /\ server_thread = "running"
    /\ ~stopped
    /\ work = "some"
    /\ work' = "none"
    /\ UNCHANGED <<ownerVars, server_thread, started_status, stopped>>

\* io_service::run() returns when the service is stopped, and stops it when
\* no work is left.
RunReturns ==
    /\ Alive
    /\ server_thread = "running"
    /\ stopped \/ work = "none"
    /\ server_thread' = "leaving"
    /\ stopped' = TRUE
    /\ UNCHANGED <<ownerVars, started_status, work>>

ThreadEnds ==
    /\ Alive
    /\ server_thread = "leaving"
    /\ server_thread' = "done"
    /\ started_status' = FALSE
    /\ UNCHANGED <<ownerVars, stopped, work>>
----------------------------------------------------------------------------
CallSteps ==
    \/ Spawn \/ WaitStart
    \/ Disconnect \/ StopService \/ WaitStop \/ Join
    \/ Destructor

ThreadSteps == ThreadStarts \/ RunReturns \/ ThreadEnds

Next ==
    \/ CallStart \/ CallStop \/ CallDestructor \/ CallOther
    \/ CallSteps
    \/ ThreadSteps \/ WorkFinishes

Spec == Init /\ [][Next]_vars

\* Threads are scheduled, and sleep_for ends.
FairSpec == Spec /\ WF_vars(CallSteps) /\ WF_vars(ThreadSteps)
----------------------------------------------------------------------------
\* Types.  started_status is set exactly while the thread is in its loop,
\* and the loop only returns on a stopped service.
TypeOK ==
    /\ owner \in {"out", "spawn", "waitStart", "disconnect", "stopService",
                  "waitStop", "join", "destructor", "destroyed", "terminated"}
    /\ call \in {"none", "other", "start", "stop", "destroy"}
    /\ starts \in 0..MaxStarts
    /\ tries \in 0..MaxTry
    /\ server_thread \in {"none", "new", "running", "leaving", "done"}
    /\ started_status \in BOOLEAN
    /\ started_status <=> server_thread \in {"running", "leaving"}
    /\ stopped \in BOOLEAN
    /\ work \in {"none", "some", "accept"}

\* After stop() has returned no handler runs, even if the owner then frees
\* what the handlers use.
QuietAfterStop ==
    (owner = "out" /\ call = "stop") \/ owner = "destroyed"
        => server_thread \in {"none", "done"}

\* The first start() of a server leaves the io_service running, and it stays
\* so until stop().
ServesOnce ==
    work = "accept" /\ starts = 1 /\ owner = "out" /\ call = "start"
        => server_thread = "running" /\ ~stopped

\* A server that is started at most once neither assigns to a joinable
\* std::thread nor destroys one.
ServerSurvives == work = "accept" /\ starts <= 1 => owner # "terminated"

\* Any start() does so, of a server that has served before, too.
RunsAfterStart ==
    owner = "out" /\ call = "start"
        => server_thread = "running" /\ ~stopped

\* No joinable std::thread is assigned to or destroyed, of a client either.
NeverTerminates == owner # "terminated"

\* Every call returns, or ends the program: nobody waits for a thread that
\* waits for its own stop.
CallsReturn == []<>(owner \in {"out", "destroyed", "terminated"})
============================================================================
