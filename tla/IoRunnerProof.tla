--------------------------- MODULE IoRunnerProof ---------------------------
(***************************************************************************)
(* When a new thread runs before waitStart gives up (Prompt), nothing runs *)
(* after stop(), and a tcp_server that is started once serves until it is  *)
(* stopped and never terminates the program.                               *)
(***************************************************************************)
EXTENDS IoRunner, TLAPS

USE RunnerAssumption
----------------------------------------------------------------------------
\* Only waitStart sees a thread that has not run, the calls go through their
\* own steps, and QuietAfterStop.
QuietInv ==
    /\ TypeOK
    /\ server_thread = "new" => owner = "waitStart" /\ tries < MaxTry
    /\ owner \in {"spawn", "waitStart"} => call = "start"
    /\ owner \in {"destructor", "destroyed"} => call = "destroy"
    /\ owner \in {"disconnect", "stopService", "waitStop", "join"}
           => call \in {"start", "stop", "destroy"}
    /\ QuietAfterStop

\* What a server that is started at most once is doing, by where its owner
\* is.
Stage ==
    /\ owner # "terminated"
    /\ owner = "out" => \/ server_thread = "none" /\ call # "start"
                        \/ server_thread = "running" /\ ~stopped
    /\ owner = "spawn" => server_thread = "none" /\ starts = 1
    /\ owner = "waitStart" => server_thread \in {"new", "running"}
    /\ owner \in {"spawn", "waitStart"} => ~stopped
    /\ owner \in {"disconnect", "stopService"}
           => server_thread = "running" /\ ~stopped /\ call # "start"
    /\ owner \in {"waitStop", "join"} => call # "start"
    /\ owner \in {"destructor", "destroyed"} => server_thread = "none"
    /\ starts = 0 => server_thread = "none" /\ ~stopped

ServerInv == QuietInv /\ (work = "accept" /\ starts <= 1 => Stage)

\* The types, and where the steps of a call belong.
TypeInv ==
    /\ TypeOK
    /\ owner \in {"disconnect", "stopService", "waitStop", "join"}
           => call \in {"start", "stop", "destroy"}

\* started_status is set exactly while the thread is in its loop, however
\* late the thread runs and whatever the program starts, stops and connects.
THEOREM TypeCorrect == Spec => []TypeOK
<1>1. Init => TypeInv
    <2> SUFFICES ASSUME Init PROVE TypeInv
        OBVIOUS
    <2>1. stopped \in BOOLEAN /\ started_status \in BOOLEAN
        BY Zenon DEF Init
    <2>3. work \in {"none", "accept"}
        BY DEF Init
    <2>2. /\ owner = "out" /\ call = "none" /\ starts = 0 /\ tries = 0
          /\ server_thread = "none" /\ ~started_status
        BY Zenon DEF Init
    <2> QED BY <2>1, <2>2, <2>3 DEF TypeInv, TypeOK
<1>2. TypeInv /\ [Next]_vars => TypeInv'
    <2> SUFFICES ASSUME TypeInv, [Next]_vars PROVE TypeInv'
        OBVIOUS
    <2> USE DEF TypeInv, TypeOK
    <2>1. CASE CallStart \/ CallStop \/ CallDestructor
        BY <2>1 DEF CallStart, CallStop, CallDestructor, BeginStop
    <2>2. CASE CallOther
        BY <2>2 DEF CallOther, MayAddWork
    <2>3. CASE Spawn
        BY <2>3 DEF Spawn
    <2>4. CASE WaitStart
        BY <2>4 DEF WaitStart
    <2>5. CASE Disconnect
        BY <2>5 DEF Disconnect, MayAddWork
    <2>6. CASE StopService
        BY <2>6 DEF StopService
    <2>7. CASE WaitStop
        BY <2>7 DEF WaitStop
    <2>8. CASE Join
        BY <2>8 DEF Join, AfterStop
    <2>9. CASE Destructor
        BY <2>9 DEF Destructor
    <2>10. CASE ThreadSteps
        BY <2>10 DEF ThreadSteps, ThreadStarts, RunReturns, ThreadEnds, ownerVars
    <2>11. CASE WorkFinishes
        BY <2>11 DEF WorkFinishes, ownerVars
    <2>12. CASE UNCHANGED vars
        BY <2>12 DEF vars, ownerVars
    <2> QED BY <2>1, <2>2, <2>3, <2>4, <2>5, <2>6, <2>7, <2>8, <2>9,
               <2>10, <2>11, <2>12
            DEF Next, CallSteps
<1>3. TypeInv => TypeOK
    BY DEF TypeInv
<1> QED BY <1>1, <1>2, <1>3, PTL DEF Spec

\* What stop() promises is invariant when threads run in time.
THEOREM QuietInvariant ==
    ASSUME Prompt
    PROVE  Spec => []QuietInv
<1>1. Init => QuietInv
    <2> SUFFICES ASSUME Init PROVE QuietInv
        OBVIOUS
    <2>1. stopped \in BOOLEAN /\ started_status \in BOOLEAN
        BY Zenon DEF Init
    <2>3. work \in {"none", "accept"}
        BY DEF Init
    <2>2. /\ owner = "out" /\ call = "none" /\ starts = 0 /\ tries = 0
          /\ server_thread = "none" /\ ~started_status
        BY Zenon DEF Init
    <2> QED BY <2>1, <2>2, <2>3 DEF QuietInv, TypeOK, QuietAfterStop
<1>2. QuietInv /\ [Next]_vars => QuietInv'
    <2> SUFFICES ASSUME QuietInv, [Next]_vars PROVE QuietInv'
        OBVIOUS
    <2> USE DEF QuietInv, TypeOK, QuietAfterStop
    <2>1. CASE CallStart
        BY <2>1 DEF CallStart, BeginStop
    <2>2. CASE CallStop
        BY <2>2 DEF CallStop, BeginStop
    <2>3. CASE CallDestructor
        BY <2>3 DEF CallDestructor, BeginStop
    <2>4. CASE CallOther
        BY <2>4 DEF CallOther, MayAddWork
    <2>5. CASE Spawn
        BY <2>5 DEF Spawn
    <2>6. CASE WaitStart
        <3>1. CASE started_status /\ owner' = "out" /\ UNCHANGED tries
            BY <2>6, <3>1 DEF WaitStart
        <3>2. CASE tries = MaxTry /\ owner' = "out" /\ UNCHANGED tries
            BY <2>6, <3>2 DEF WaitStart
        <3>3. CASE ~started_status /\ tries < MaxTry /\ tries' = tries + 1 /\ UNCHANGED owner
            BY <2>6, <3>3 DEF WaitStart
        <3> QED BY <2>6, <3>1, <3>2, <3>3 DEF WaitStart
    <2>7. CASE Disconnect
        BY <2>7 DEF Disconnect, MayAddWork
    <2>8. CASE StopService
        BY <2>8 DEF StopService
    <2>9. CASE WaitStop
        BY <2>9 DEF WaitStop
    <2>10. CASE Join
        BY <2>10 DEF Join, AfterStop
    <2>11. CASE Destructor
        BY <2>11 DEF Destructor
    <2>12. CASE ThreadStarts
        BY <2>12 DEF ThreadStarts, ownerVars
    <2>13. CASE RunReturns
        BY <2>13 DEF RunReturns, ownerVars
    <2>14. CASE ThreadEnds
        BY <2>14 DEF ThreadEnds, ownerVars
    <2>15. CASE WorkFinishes
        BY <2>15 DEF WorkFinishes, ownerVars
    <2>16. CASE UNCHANGED vars
        BY <2>16 DEF vars, ownerVars
    <2> QED BY <2>1, <2>2, <2>3, <2>4, <2>5, <2>6, <2>7, <2>8,
               <2>9, <2>10, <2>11, <2>12, <2>13, <2>14, <2>15, <2>16
            DEF Next, CallSteps, ThreadSteps
<1> QED BY <1>1, <1>2, PTL DEF Spec

\* No handler runs after stop() has returned or the object is gone.
THEOREM StopQuiets ==
    ASSUME Prompt
    PROVE  Spec => []QuietAfterStop
<1>1. QuietInv => QuietAfterStop
    BY DEF QuietInv
<1> QED BY <1>1, QuietInvariant, PTL

\* A server that is started at most once goes through its stages.
THEOREM ServerInvariant ==
    ASSUME Prompt
    PROVE  Spec => []ServerInv
<1>1. Init /\ QuietInv => ServerInv
    <2> SUFFICES ASSUME Init, QuietInv PROVE ServerInv
        OBVIOUS
    <2>1. ~stopped
        BY Zenon DEF Init
    <2>2. /\ owner = "out" /\ call = "none" /\ starts = 0 /\ server_thread = "none"
        BY Zenon DEF Init
    <2> QED BY <2>1, <2>2 DEF ServerInv, Stage
<1>2. QuietInv' /\ ServerInv /\ [Next]_vars => ServerInv'
    <2> SUFFICES ASSUME QuietInv', ServerInv, [Next]_vars PROVE ServerInv'
        OBVIOUS
    <2> SUFFICES ASSUME (work = "accept")', (starts <= 1)' PROVE Stage'
        BY DEF ServerInv
    <2> USE DEF ServerInv, Stage, QuietInv, TypeOK
    <2>1. CASE CallStart
        BY <2>1 DEF CallStart, BeginStop
    <2>2. CASE CallStop
        BY <2>2 DEF CallStop, BeginStop
    <2>3. CASE CallDestructor
        BY <2>3 DEF CallDestructor, BeginStop
    <2>4. CASE CallOther
        BY <2>4 DEF CallOther, MayAddWork
    <2>5. CASE Spawn
        BY <2>5 DEF Spawn
    <2>6. CASE WaitStart
        BY <2>6 DEF WaitStart
    <2>7. CASE Disconnect
        BY <2>7 DEF Disconnect, MayAddWork
    <2>8. CASE StopService
        BY <2>8 DEF StopService
    <2>9. CASE WaitStop
        BY <2>9 DEF WaitStop
    <2>10. CASE Join
        BY <2>10 DEF Join, AfterStop
    <2>11. CASE Destructor
        BY <2>11 DEF Destructor
    <2>12. CASE ThreadStarts
        BY <2>12 DEF ThreadStarts, ownerVars
    <2>13. CASE RunReturns
        BY <2>13 DEF RunReturns, ownerVars
    <2>14. CASE ThreadEnds
        BY <2>14 DEF ThreadEnds, ownerVars
    <2>15. CASE WorkFinishes
        BY <2>15 DEF WorkFinishes, ownerVars
    <2>16. CASE UNCHANGED vars
        BY <2>16 DEF vars, ownerVars
    <2> QED BY <2>1, <2>2, <2>3, <2>4, <2>5, <2>6, <2>7, <2>8,
               <2>9, <2>10, <2>11, <2>12, <2>13, <2>14, <2>15, <2>16
            DEF Next, CallSteps, ThreadSteps
<1> QED BY <1>1, <1>2, QuietInvariant, PTL DEF Spec

\* It serves from its first start() until the next call.
THEOREM ServerRuns ==
    ASSUME Prompt
    PROVE  Spec => []ServesOnce
<1>1. ServerInv => ServesOnce
    BY DEF ServerInv, Stage, ServesOnce
<1> QED BY <1>1, ServerInvariant, PTL

\* It never destroys or overwrites a joinable thread.
THEOREM ServerNeverTerminates ==
    ASSUME Prompt
    PROVE  Spec => []ServerSurvives
<1>1. ServerInv => ServerSurvives
    BY DEF ServerInv, Stage, ServerSurvives
<1> QED BY <1>1, ServerInvariant, PTL
============================================================================
