--------------------------- MODULE ConnectionPair ---------------------------
(***************************************************************************)
(* Two connected tcp_connection objects, one way: A sends and B reads.     *)
(* Each is an instance of TcpConnection of which the other half is idle;   *)
(* what happens to A's bytes and to the end of its stream until B gets     *)
(* them is the network's.                                                  *)
(*                                                                         *)
(* B cannot know who writes to it: its peer may also be any other program, *)
(* which then sends bytes of its own.                                      *)
(***************************************************************************)
EXTENDS Naturals, Sequences

CONSTANTS
    Thread,     \* application threads of A
    Msg, Size, Quantum,
    MaxSends,   \* bound: messages A is given
    PeerByte,   \* bytes of another program
    MaxIn       \* bound: bytes of another program

ASSUME PairAssumption ==
    /\ Quantum \in Nat \ {0}
    /\ Size \in [Msg -> Nat]
    /\ \A m \in Msg : Size[m] % Quantum = 0
    /\ MaxSends \in Nat
    /\ PeerByte \subseteq Nat \X Nat
    /\ MaxIn \in Nat

VARIABLES
    peer,       \* who writes to B: "A", or a "stranger"
    \* A
    socketA, outcomeA, slots, closePosted, disconnectedA,
    pc, sendBuffer, sendStart, writes, accepted, wire, failed,
    \* B
    socketB, outcomeB, disconnected,
    partMessage, message_, reading, inbox, taken, delivered,
    \* what has arrived at B
    incoming, peerClosed

socketAVars == <<socketA, outcomeA, slots, closePosted, disconnectedA>>
sendVars == <<pc, sendBuffer, sendStart, writes, accepted, wire, failed>>
varsA == <<socketAVars, sendVars>>
readVars == <<partMessage, message_, reading, inbox, taken, delivered>>
ownVarsB == <<outcomeB, disconnected, readVars>>
varsB == <<socketB, ownVarsB, incoming, peerClosed>>
vars == <<peer, varsA, varsB>>

\* A is read from by nobody: its async_read_until waits for ever.
\* (TLC takes no plain FALSE or TRUE under UNCHANGED.)
A == INSTANCE TcpConnection WITH
        EarlyUse <- FALSE,
        socket <- socketA, outcome <- outcomeA, disconnected <- disconnectedA,
        reading <- "armed", partMessage <- <<>>, message_ <- <<>>,
        inbox <- <<>>, taken <- 0, delivered <- <<>>,
        incoming <- <<>>, peerClosed <- ~TRUE

\* B has nothing to send, and nobody stops it.
B == INSTANCE TcpConnection WITH
        Thread <- {}, EarlyUse <- FALSE,
        socket <- socketB, outcome <- outcomeB,
        slots <- ~FALSE, closePosted <- ~TRUE,
        pc <- <<>>, sendBuffer <- <<>>, sendStart <- ~TRUE, writes <- <<>>,
        accepted <- <<>>, wire <- <<>>, failed <- {}

Init ==
    /\ peer \in {"A", "stranger"}
    /\ socketA = "connecting" /\ disconnectedA = FALSE /\ A!SendInit
    /\ peer = "stranger" => ~sendStart     \* there is no A then
    /\ socketB = "connecting" /\ outcomeB = "pending" /\ B!ReadInit
----------------------------------------------------------------------------
(* The network *)

\* B accepts A, or A is refused.
Connect ==
    /\ peer = "A"
    /\ A!KernelConnect
    /\ socketB' = IF socketA' = "open" THEN "open" ELSE socketB
    /\ UNCHANGED <<peer, ownVarsB, incoming, peerClosed>>

\* A's next byte arrives.
Transmit ==
    /\ peer = "A"
    /\ Len(incoming) < Len(wire)
    /\ incoming' = Append(incoming, wire[Len(incoming) + 1])
    /\ UNCHANGED <<peer, varsA, socketB, ownVarsB, peerClosed>>

\* The end of A's stream arrives, behind its bytes.
TransmitEnd ==
    /\ peer = "A"
    /\ socketA = "closed"
    /\ incoming = wire
    /\ ~peerClosed
    /\ peerClosed' = TRUE
    /\ UNCHANGED <<peer, varsA, socketB, ownVarsB, incoming>>

\* A stranger connects, sends, closes.
StrangerActs ==
    /\ peer = "stranger"
    /\ B!KernelConnect \/ B!PeerSends \/ B!PeerCloses
    /\ UNCHANGED <<peer, varsA>>

Breaks ==
    /\ UNCHANGED peer
    /\ \/ A!ConnectionBreaks /\ UNCHANGED varsB
       \/ B!ConnectionBreaks /\ UNCHANGED varsA
----------------------------------------------------------------------------
(* The two connections *)

Sends(step) == step /\ UNCHANGED <<peer, varsB>>
Reads(step) == step /\ UNCHANGED <<peer, varsA>>

Network == Connect \/ Transmit \/ TransmitEnd

\* A's threads call send() and stop(), and go on inside send(),
CallsA ==
    /\ \E t \in Thread : A!SendPush(t) \/ A!Stop(t)
    /\ UNCHANGED <<peer, varsB>>

ThreadsA ==
    /\ \E t \in Thread : A!AsyncWriteInit(t)
    /\ UNCHANGED <<peer, varsB>>

\* A's handlers run,
CloseA == A!CloseSocket /\ UNCHANGED <<peer, varsB>>

HandlersA ==
    /\ peer = "A"
    /\ A!HandleConnect \/ A!WriteStep \/ A!WriteHandler
    /\ UNCHANGED <<peer, varsB>>

\* and B's handlers.
HandlersB ==
    /\ B!HandleConnect \/ B!ReadSome \/ B!ReadFail \/ B!ReadHandler
    /\ UNCHANGED <<peer, varsA>>

Next ==
    \/ Network \/ StrangerActs \/ Breaks
    \/ CallsA \/ ThreadsA \/ HandlersA \/ CloseA
    \/ HandlersB

Spec == Init /\ [][Next]_vars

\* The network transmits, and everybody goes on while it can.  A disjunction
\* is enough where no step can be taken for ever in place of the others.
FairSpec ==
    /\ Spec
    /\ WF_vars(Network) /\ WF_vars(HandlersA) /\ WF_vars(HandlersB)
    /\ WF_vars(ThreadsA) /\ WF_vars(CloseA)
----------------------------------------------------------------------------
ChunkingIrrelevant == B!ChunkingIrrelevant
FramesDelivered == B!FramesDelivered
EofReported == B!EofReported

Silent == {m \in Msg : Size[m] = 0}

\* The message whose text was announced: the first byte names it, and an
\* empty text is an empty message.
Named(text) ==
    IF text = <<>> THEN CHOOSE m \in Silent : TRUE ELSE accepted[text[1][1]]

Channel == INSTANCE MessageChannel WITH
              sent <- accepted,
              told <- IF peer = "A" THEN [k \in DOMAIN delivered |-> Named(delivered[k])]
                      ELSE <<>>

ImplementsChannel == Channel!Spec

\* While neither end fails or stops, every message that is not empty is
\* announced, however many empty ones are between.
AudibleArrive ==
    \A n \in 1..MaxSends :
        Len(Channel!Audible(accepted)) >= n
            ~> Len(delivered) >= n \/ socketA # "open" \/ socketB # "open"
============================================================================
