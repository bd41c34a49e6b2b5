------------------------ MODULE ConnectionPairProof ------------------------
(***************************************************************************)
(* A connection between two programs of this library keeps the promises of *)
(* MessageChannel.  The lemmas about one connection hold of both ends:     *)
(* AP and BP are TcpConnectionProof with the substitutions of A and B.     *)
(***************************************************************************)
EXTENDS ConnectionPair, SelectionProof

AP == INSTANCE TcpConnectionProof WITH
        EarlyUse <- FALSE,
        socket <- socketA, outcome <- outcomeA, disconnected <- disconnectedA,
        reading <- "armed", partMessage <- <<>>, message_ <- <<>>,
        inbox <- <<>>, taken <- 0, delivered <- <<>>,
        incoming <- <<>>, peerClosed <- ~TRUE

BP == INSTANCE TcpConnectionProof WITH
        Thread <- {}, EarlyUse <- FALSE,
        socket <- socketB, outcome <- outcomeB,
        slots <- ~FALSE, closePosted <- ~TRUE,
        pc <- <<>>, sendBuffer <- <<>>, sendStart <- ~TRUE, writes <- <<>>,
        accepted <- <<>>, wire <- <<>>, failed <- {}

LEMMA Assumed == AP!ConnectionAssumption /\ BP!ConnectionAssumption
BY PairAssumption DEF AP!ConnectionAssumption, BP!ConnectionAssumption, AP!Byte, BP!Byte
----------------------------------------------------------------------------
(* Every step of the pair is a step of A or leaves A alone. *)

LEMMA StepsOfA ==
    ASSUME NEW t
    PROVE  /\ A!KernelConnect => AP!KernelConnect
           /\ A!HandleConnect => AP!HandleConnect
           /\ A!SendPush(t) => AP!SendPush(t)
           /\ A!AsyncWriteInit(t) => AP!AsyncWriteInit(t)
           /\ A!Stop(t) => AP!Stop(t)
           /\ A!WriteStep => AP!WriteStep
           /\ A!WriteHandler => AP!WriteHandler
           /\ A!CloseSocket => AP!CloseSocket
           /\ A!ConnectionBreaks => AP!ConnectionBreaks
<1> USE DEF A!sendVars, A!readVars, A!peerVars, A!stopVars,
            AP!sendVars, AP!readVars, AP!peerVars, AP!stopVars
<1>1. A!KernelConnect => AP!KernelConnect
    BY DEF A!KernelConnect, AP!KernelConnect
<1>2. A!HandleConnect => AP!HandleConnect
    BY DEF A!HandleConnect, AP!HandleConnect, A!IoFree, AP!IoFree, A!Start, AP!Start
<1>3. A!SendPush(t) => AP!SendPush(t)
    BY DEF A!SendPush, AP!SendPush, A!Usable, AP!Usable, A!Started, AP!Started
<1>4. A!AsyncWriteInit(t) => AP!AsyncWriteInit(t)
    BY DEF A!AsyncWriteInit, AP!AsyncWriteInit, A!WriteFront, AP!WriteFront,
       A!WriteOp, AP!WriteOp, A!FirstByte, AP!FirstByte
<1>5. A!Stop(t) => AP!Stop(t)
    BY DEF A!Stop, AP!Stop, A!Usable, AP!Usable, A!Started, AP!Started
<1>6. A!WriteStep => AP!WriteStep
    BY DEF A!WriteStep, AP!WriteStep, A!WriteByte, AP!WriteByte, A!WriteFail, AP!WriteFail,
       A!Garbage, AP!Garbage, A!IsDelimiter, AP!IsDelimiter, A!ByteAfter, AP!ByteAfter
<1>7. A!WriteHandler => AP!WriteHandler
    BY DEF A!WriteHandler, AP!WriteHandler, A!HandleWrite, AP!HandleWrite, A!IoFree,
       AP!IoFree, A!ReportError, AP!ReportError, A!AsyncWriteNext, AP!AsyncWriteNext,
       A!WriteFront, AP!WriteFront, A!WriteOp, AP!WriteOp, A!FirstByte, AP!FirstByte,
       A!RemoveAt, AP!RemoveAt
<1>8. A!CloseSocket => AP!CloseSocket
    BY DEF A!CloseSocket, AP!CloseSocket, A!IoFree, AP!IoFree
<1>9. A!ConnectionBreaks => AP!ConnectionBreaks
    BY DEF A!ConnectionBreaks, AP!ConnectionBreaks
<1> QED BY <1>1, <1>2, <1>3, <1>4, <1>5, <1>6, <1>7, <1>8, <1>9

LEMMA StepOfA == [Next]_vars => [AP!Next]_(AP!vars)
<1> SUFFICES ASSUME [Next]_vars PROVE AP!Next \/ UNCHANGED AP!vars
    OBVIOUS
<1>1. CASE UNCHANGED varsA
    BY <1>1 DEF varsA, socketAVars, sendVars, AP!vars, AP!sendVars, AP!readVars,
       AP!peerVars, AP!stopVars
<1>2. CASE \/ A!KernelConnect \/ A!HandleConnect \/ A!WriteStep \/ A!WriteHandler
           \/ A!CloseSocket \/ A!ConnectionBreaks
           \/ \E t \in Thread : A!SendPush(t) \/ A!Stop(t) \/ A!AsyncWriteInit(t)
    BY <1>2, StepsOfA DEF AP!Next
<1> QED BY <1>1, <1>2 DEF Next, Network, Connect, Transmit, TransmitEnd, StrangerActs, Breaks,
           CallsA, ThreadsA, HandlersA, CloseA, HandlersB, vars
----------------------------------------------------------------------------
(* Every step is a step of B, or of what arrives at it. *)

LEMMA StepsOfB ==
    /\ B!KernelConnect => BP!KernelConnect
    /\ B!HandleConnect => BP!HandleConnect
    /\ B!ReadSome => BP!ReadSome
    /\ B!ReadFail => BP!ReadFail
    /\ B!ReadHandler => BP!ReadHandler
    /\ B!PeerSends => BP!PeerSends
    /\ B!PeerCloses => BP!PeerCloses
    /\ B!ConnectionBreaks => BP!ConnectionBreaks
<1> USE DEF B!sendVars, B!readVars, B!peerVars, B!stopVars,
            BP!sendVars, BP!readVars, BP!peerVars, BP!stopVars
<1>1. B!KernelConnect => BP!KernelConnect
    BY DEF B!KernelConnect, BP!KernelConnect
<1>2. B!HandleConnect => BP!HandleConnect
    BY DEF B!HandleConnect, BP!HandleConnect, B!IoFree, BP!IoFree, B!Start, BP!Start
<1>3. B!ReadSome => BP!ReadSome
    BY DEF B!ReadSome, BP!ReadSome, B!Delimiters, BP!Delimiters, B!IsDelimiter, BP!IsDelimiter
<1>4. B!ReadFail => BP!ReadFail
    BY DEF B!ReadFail, BP!ReadFail
<1>5. B!HandleRead => BP!HandleRead
    <2> USE DEF B!IsDelimiter, BP!IsDelimiter, B!Delimiters, BP!Delimiters,
                B!Max, BP!Max, B!UnreceivedPart, BP!UnreceivedPart
    <2>2. ASSUME NEW msg PROVE B!UnreceivedPart(msg) = BP!UnreceivedPart(msg)
        BY Zenon
    <2>3. ASSUME NEW msg PROVE B!DecodeMessage(msg) = BP!DecodeMessage(msg)
        BY Zenon DEF B!DecodeMessage, BP!DecodeMessage, B!TextBefore, BP!TextBefore,
           B!Decodable, BP!Decodable, B!Selection, BP!Selection
    <2> HIDE DEF B!IsDelimiter, BP!IsDelimiter, B!Delimiters, BP!Delimiters,
                 B!Max, BP!Max, B!UnreceivedPart, BP!UnreceivedPart
    <2> QED BY <2>2, <2>3 DEF B!HandleRead, BP!HandleRead, B!ReadText, BP!ReadText
<1>6. B!ReadHandler => BP!ReadHandler
    BY <1>5 DEF B!ReadHandler, BP!ReadHandler, B!AnnounceMessage, BP!AnnounceMessage,
       B!Rearm, BP!Rearm, B!HandleReadError, BP!HandleReadError,
       B!IsDisconnection, BP!IsDisconnection
<1>7. (B!PeerSends => BP!PeerSends) /\ (B!PeerCloses => BP!PeerCloses)
      /\ (B!ConnectionBreaks => BP!ConnectionBreaks)
    BY DEF B!PeerSends, BP!PeerSends, B!PeerCloses, BP!PeerCloses,
       B!ConnectionBreaks, BP!ConnectionBreaks
<1> QED BY <1>1, <1>2, <1>3, <1>4, <1>6, <1>7

LEMMA StepOfB ==
    ASSUME [Next]_vars
    PROVE  \/ [BP!Next]_(BP!vars)
           \/ /\ UNCHANGED <<outcomeB, readVars, disconnected>>
              /\ UNCHANGED incoming \/ Transmit
              /\ peerClosed' \in {peerClosed, TRUE}
<1>1. CASE UNCHANGED varsB
    BY <1>1 DEF varsB, ownVarsB, readVars, BP!vars, BP!sendVars, BP!readVars,
       BP!peerVars, BP!stopVars
<1>2. CASE \/ B!KernelConnect \/ B!HandleConnect \/ B!ReadSome \/ B!ReadFail \/ B!ReadHandler
           \/ B!PeerSends \/ B!PeerCloses \/ B!ConnectionBreaks
    BY <1>2, StepsOfB DEF BP!Next
<1>3. CASE Network
    BY <1>3 DEF Network, Connect, Transmit, TransmitEnd, ownVarsB, readVars
<1> QED BY <1>1, <1>2, <1>3 DEF Next, StrangerActs, Breaks, CallsA, ThreadsA, HandlersA, CloseA,
           HandlersB, vars
----------------------------------------------------------------------------
(* The inductive invariant: that of each half, and of the network *)

\* What has arrived from A is a prefix of what A's socket took.
Arrived ==
    peer = "A" => /\ Len(incoming) <= Len(wire)
                  /\ \A i \in 1..Len(incoming) : incoming[i] = wire[i]

PairInv == AP!SendTypeOK /\ AP!SendInv /\ BP!ReadInv /\ Arrived

LEMMA PairInvInit == Init => PairInv
<1> SUFFICES ASSUME Init PROVE PairInv
    OBVIOUS
<1>1. AP!SendTypeOK /\ AP!SendInv
    <2>1. AP!SendInit
        BY DEF Init, A!SendInit, AP!SendInit
    <2>2. socketA \in {"connecting", "open"}
        BY DEF Init
    <2> QED BY <2>1, <2>2, Assumed, AP!SendInvInit
<1>2. BP!ReadInv
    <2>1. BP!ReadInit
        BY DEF Init, B!ReadInit, BP!ReadInit
    <2>2. outcomeB = "pending" /\ (~TRUE) = FALSE
        BY DEF Init
    <2> QED BY <2>1, <2>2, Assumed, BP!ReadInvInit
<1>3. Arrived
    <2>1. incoming = <<>>
        BY DEF Init, B!ReadInit
    <2>2. Len(incoming) = 0 /\ Len(wire) \in Nat
        BY <1>1, <2>1, EmptySeq DEF AP!SendTypeOK
    <2> QED BY <2>2 DEF Arrived
<1> QED BY <1>1, <1>2, <1>3 DEF PairInv

LEMMA PairInvStep == PairInv /\ [Next]_vars => PairInv'
<1> SUFFICES ASSUME PairInv, [Next]_vars PROVE PairInv'
    OBVIOUS
<1>1. AP!SendTypeOK /\ AP!SendInv /\ BP!ReadInv /\ Arrived
    BY DEF PairInv
<1>2. [AP!Next]_(AP!vars)
    BY StepOfA
<1>3. AP!SendTypeOK'
    BY <1>1, <1>2, Assumed, AP!SendTypeStep
<1>4. AP!SendInv'
    BY <1>1, <1>2, Assumed, AP!SendInvStep
<1>5. wire \in Seq(Nat \X Nat) /\ incoming \in Seq(Nat \X Nat)
    BY <1>1 DEF AP!SendTypeOK, AP!Byte, BP!ReadInv, BP!ReadTypeOK, BP!Byte
<1>6. ASSUME Transmit PROVE \E b \in BP!Byte : incoming' = Append(incoming, b)
    <2>1. Len(incoming) + 1 \in 1..Len(wire)
        BY <1>5, <1>6 DEF Transmit
    <2>2. wire[Len(incoming) + 1] \in Nat \X Nat
        BY <1>5, <2>1, ElementOfSeq, Zenon
    <2> QED BY <1>6, <2>2 DEF Transmit, BP!Byte
<1>7. BP!ReadInv'
    <2>1. CASE [BP!Next]_(BP!vars)
        BY <1>1, <2>1, Assumed, BP!ReadInvStep
    <2>2. CASE /\ UNCHANGED <<outcomeB, readVars, disconnected>>
               /\ UNCHANGED incoming \/ Transmit
               /\ peerClosed' \in {peerClosed, TRUE}
        <3>1. UNCHANGED <<outcomeB, BP!readVars>>
            BY <2>2 DEF readVars, BP!readVars
        <3>2. UNCHANGED incoming \/ \E b \in BP!Byte : incoming' = Append(incoming, b)
            BY <1>6, <2>2
        <3>3. peerClosed' \in BOOLEAN /\ disconnected' \in BOOLEAN /\ (~TRUE) \in BOOLEAN
            BY <1>1, <2>2 DEF BP!ReadInv, BP!ReadTypeOK
        <3> QED BY <1>1, <3>1, <3>2, <3>3, Assumed, BP!IncomingGrows
    <2> QED BY <2>1, <2>2, StepOfB
<1>8. Arrived'
    <2> SUFFICES ASSUME peer' = "A"
                 PROVE  /\ Len(incoming') <= Len(wire')
                        /\ \A i \in 1..Len(incoming') : incoming'[i] = wire'[i]
        BY DEF Arrived
    <2>1. peer = "A"
        BY DEF Next, Network, Connect, Transmit, TransmitEnd, StrangerActs, Breaks, CallsA,
           ThreadsA, HandlersA, CloseA, HandlersB, vars
    <2>2. Len(incoming) \in Nat /\ Len(wire) \in Nat /\ Len(incoming) <= Len(wire)
          /\ \A i \in 1..Len(incoming) : incoming[i] = wire[i]
        BY <1>1, <1>5, <2>1 DEF Arrived
    <2>3. CASE Transmit
        <3>1. wire' = wire /\ Len(incoming) + 1 <= Len(wire)
            BY <2>2, <2>3 DEF Transmit, varsA, sendVars
        <3>2. PICK b \in Nat \X Nat : b = wire[Len(incoming) + 1] /\ incoming' = Append(incoming, b)
            <4>1. Len(incoming) + 1 \in 1..Len(wire)
                BY <2>2, <3>1
            <4> QED BY <1>5, <2>3, <4>1, ElementOfSeq DEF Transmit
        <3>3. /\ Len(incoming') = Len(incoming) + 1
              /\ incoming'[Len(incoming) + 1] = b
              /\ \A i \in 1..Len(incoming) : incoming'[i] = incoming[i]
            BY <1>5, <3>2, AppendProperties
        <3> QED BY <2>2, <3>1, <3>2, <3>3
    <2>4. CASE ~Transmit
        <3>1. UNCHANGED incoming
            <4>1. (B!HandleConnect \/ B!ReadSome \/ B!ReadFail \/ B!ReadHandler
                   \/ B!ConnectionBreaks) => UNCHANGED incoming
                BY DEF B!HandleConnect, B!ReadSome, B!ReadFail, B!ReadHandler, B!HandleRead,
                   B!AnnounceMessage, B!Rearm, B!HandleReadError, B!ConnectionBreaks, B!peerVars
            <4> QED BY <2>1, <2>4, <4>1 DEF Next, Network, Connect, TransmitEnd, StrangerActs,
                    Breaks, CallsA, ThreadsA, HandlersA, CloseA, HandlersB, vars, varsB
        <3>2. CASE UNCHANGED wire
            BY <2>2, <3>1, <3>2
        <3>3. CASE \E b \in Nat \X Nat : wire' = Append(wire, b)
            <4>1. Len(wire') = Len(wire) + 1 /\ \A i \in 1..Len(wire) : wire'[i] = wire[i]
                BY <1>5, <3>3, AppendProperties
            <4> QED BY <2>2, <3>1, <4>1
        <3>4. UNCHANGED wire \/ \E b \in Nat \X Nat : wire' = Append(wire, b)
            BY <1>1, <1>2, Assumed, AP!HistoriesGrow DEF AP!Byte
        <3> QED BY <3>2, <3>3, <3>4
    <2> QED BY <2>3, <2>4
<1> QED BY <1>3, <1>4, <1>7, <1>8 DEF PairInv

LEMMA PairInvCorrect == Spec => []PairInv
BY PairInvInit, PairInvStep, PTL DEF Spec
----------------------------------------------------------------------------
(* B is told A's messages in order. *)

\* Both ends cut a byte string into the same texts.
LEMMA SameDecoding ==
    ASSUME NEW msg
    PROVE  /\ AP!DecodeMessage(msg) = BP!DecodeMessage(msg)
           /\ B!DecodeMessage(msg) = BP!DecodeMessage(msg)
           /\ B!UnreceivedPart(msg) = BP!UnreceivedPart(msg)
<1> USE DEF A!IsDelimiter, AP!IsDelimiter, BP!IsDelimiter, B!IsDelimiter,
            AP!Delimiters, BP!Delimiters, B!Delimiters, AP!Max, BP!Max, B!Max,
            AP!UnreceivedPart, BP!UnreceivedPart, B!UnreceivedPart
<1>1. AP!DecodeMessage(msg) = BP!DecodeMessage(msg)
    BY Zenon DEF AP!DecodeMessage, BP!DecodeMessage, AP!TextBefore, BP!TextBefore,
       AP!Decodable, BP!Decodable, AP!Selection, BP!Selection
<1>2. B!DecodeMessage(msg) = BP!DecodeMessage(msg)
    BY Zenon DEF B!DecodeMessage, BP!DecodeMessage, B!TextBefore, BP!TextBefore,
       B!Decodable, BP!Decodable, B!Selection, BP!Selection
<1>3. B!UnreceivedPart(msg) = BP!UnreceivedPart(msg)
    BY Zenon
<1> QED BY <1>1, <1>2, <1>3

\* The messages of which B may be told.
LEMMA AudibleIsHeard ==
    ASSUME accepted \in Seq(Msg)
    PROVE  Channel!Audible(accepted) = AP!Heard(Len(accepted))
<1>1. {i \in DOMAIN accepted : accepted[i] \notin Silent} = AP!Loud
    BY DEF AP!Loud, Silent
<1>2. ASSUME NEW n, NEW K, NEW v
      PROVE  Channel!Selection(n, K, v) = AP!Selection(n, K, v)
    BY Zenon DEF Channel!Selection, AP!Selection
<1> QED BY <1>1, <1>2 DEF Channel!Audible, AP!Heard

\* What B has announced and is about to announce.
Texts == delivered \o inbox

LEMMA TextsInOrder ==
    ASSUME PairInv, peer = "A", NEW k \in 1..Len(Texts)
    PROVE  \E n \in 1..Len(accepted) :
               /\ AP!Names(Texts[k], n)
               /\ k <= Len(Channel!Audible(accepted))
               /\ Channel!Audible(accepted)[k] = accepted[n]
<1>1. AP!SendTypeOK /\ AP!SendInv /\ BP!ReadInv /\ Arrived
    BY DEF PairInv
<1>2. wire \in Seq(Nat \X Nat) /\ incoming \in Seq(Nat \X Nat) /\ accepted \in Seq(Msg)
    BY <1>1 DEF AP!SendTypeOK, AP!Byte, BP!ReadInv, BP!ReadTypeOK, BP!Byte
<1>3. PICK j : j = taken - Len(message_)
    OBVIOUS
<1>4. j \in Nat /\ j <= Len(incoming) /\ Len(incoming) <= Len(wire) /\ Len(wire) \in Nat
      /\ \A i \in 1..Len(incoming) : incoming[i] = wire[i]
    BY <1>1, <1>2, <1>3, Assumed, BP!ReadShapes DEF Arrived
<1>5. SubSeq(incoming, 1, j) = SubSeq(wire, 1, j)
    <2>1. ASSUME NEW i \in 1..j
          PROVE  incoming[i] \in Nat \X Nat /\ wire[i] = incoming[i]
        <3>1. i \in 1..Len(incoming)
            BY <1>4
        <3> QED BY <1>2, <1>4, <3>1, ElementOfSeq
    <2>2. 1 \in Int /\ j \in Int
        BY <1>4
    <2> QED BY <2>1, <2>2, SubSeqSame
<1>6. Texts = AP!DecodeMessage(SubSeq(wire, 1, j))
    <2>1. Texts = BP!DecodeMessage(SubSeq(incoming, 1, j))
        BY <1>1, <1>3 DEF BP!ReadInv, BP!ChunkingIrrelevant, BP!Consumed, Texts
    <2> QED BY <1>5, <2>1, SameDecoding
<1>7. AP!Framed(j)
    <2>1. AP!WireInOrder /\ j \in 0..Len(wire)
        BY <1>1, <1>4 DEF AP!SendInv
    <2> QED BY <1>1, <2>1, Assumed, AP!AllFramed
<1>8. PICK m : m = AP!Ended(j)
    OBVIOUS
<1>9. m \in 0..Len(accepted) /\ AP!Told(Texts, AP!Heard(m))
    BY <1>6, <1>7, <1>8 DEF AP!Framed
<1>10. /\ Len(AP!Heard(m)) <= Len(AP!Heard(Len(accepted)))
       /\ \A i \in 1..Len(AP!Heard(m)) : AP!Heard(Len(accepted))[i] = AP!Heard(m)[i]
    <2>1. ASSUME NEW n PROVE AP!Heard(n) = Selection(n, AP!Loud, accepted)
        BY Zenon DEF AP!Heard, AP!Selection, Selection
    <2>2. PICK N, L : N = Len(accepted) /\ L = AP!Loud
        OBVIOUS
    <2>3. m \in Nat /\ N \in Nat /\ m <= N
        BY <1>2, <1>9, <2>2
    <2>4. \A i \in 1..N : i \in L => accepted[i] \in Msg
        BY <1>2, <2>2
    <2>5. Begins(Selection(m, L, accepted), Selection(N, L, accepted))
        BY <2>3, <2>4, SelectionPrefix, Zenon
    <2> QED BY <2>1, <2>2, <2>5 DEF Begins
<1>11. k \in 1..Len(AP!Heard(m)) /\ Len(AP!Heard(m)) \in Nat /\ Len(AP!Heard(Len(accepted))) \in Nat
    <2>1. ASSUME NEW n \in 0..Len(accepted) PROVE Len(AP!Heard(n)) \in Nat
        BY <1>1, Assumed, AP!HeardType
    <2>2. Len(accepted) \in 0..Len(accepted)
        BY <1>2
    <2> QED BY <1>9, <2>1, <2>2 DEF AP!Told
<1>12. PICK n \in 1..Len(accepted) : AP!Names(Texts[k], n) /\ AP!Heard(m)[k] = accepted[n]
    BY <1>9 DEF AP!Told
<1>13. k <= Len(AP!Heard(Len(accepted))) /\ AP!Heard(Len(accepted))[k] = accepted[n]
    BY <1>10, <1>11, <1>12
<1> QED BY <1>2, <1>12, <1>13, AudibleIsHeard
----------------------------------------------------------------------------
(* The pair implements the channel. *)

\* The substitution for `told`.
ToldB == IF peer = "A" THEN [k \in DOMAIN delivered |-> Named(delivered[k])] ELSE <<>>

\* What has been announced names accepted messages.
LEMMA AnnouncedNamed ==
    ASSUME PairInv, peer = "A"
    PROVE  /\ delivered \in Seq(Seq(Nat \X Nat)) /\ inbox \in Seq(Seq(Nat \X Nat))
           /\ \A k \in 1..Len(delivered) :
                  /\ delivered[k] # <<>>
                  /\ delivered[k][1][1] \in 1..Len(accepted)
           /\ inbox # <<>> =>
                  /\ Head(inbox) # <<>>
                  /\ Head(inbox)[1][1] \in 1..Len(accepted)
                  /\ Len(delivered) + 1 <= Len(Channel!Audible(accepted))
                  /\ Named(Head(inbox)) = Channel!Audible(accepted)[Len(delivered) + 1]
<1>1. delivered \in Seq(Seq(Nat \X Nat)) /\ inbox \in Seq(Seq(Nat \X Nat))
    BY DEF PairInv, BP!ReadInv, BP!ReadTypeOK, BP!Byte
<1>2. /\ Len(Texts) = Len(delivered) + Len(inbox)
      /\ \A i \in 1 .. Len(delivered) + Len(inbox) :
             Texts[i] = IF i <= Len(delivered) THEN delivered[i] ELSE inbox[i - Len(delivered)]
    BY <1>1, ConcatProperties DEF Texts
<1>3. Len(delivered) \in Nat /\ Len(inbox) \in Nat
    BY <1>1
<1>4. ASSUME NEW k \in 1..Len(delivered)
      PROVE  delivered[k] # <<>> /\ delivered[k][1][1] \in 1..Len(accepted)
    <2>1. k \in 1..Len(Texts) /\ Texts[k] = delivered[k]
        BY <1>2, <1>3
    <2>2. PICK n \in 1..Len(accepted) : AP!Names(Texts[k], n)
        BY <2>1, TextsInOrder
    <2> QED BY <2>1, <2>2 DEF AP!Names
<1>5. ASSUME inbox # <<>>
      PROVE  /\ Head(inbox) # <<>>
             /\ Head(inbox)[1][1] \in 1..Len(accepted)
             /\ Len(delivered) + 1 <= Len(Channel!Audible(accepted))
             /\ Named(Head(inbox)) = Channel!Audible(accepted)[Len(delivered) + 1]
    <2>1. PICK k : k = Len(delivered) + 1
        OBVIOUS
    <2>2. Len(inbox) \in Nat \ {0} /\ Head(inbox) = inbox[1]
        BY <1>1, <1>5, EmptySeq
    <2>3. k \in 1..Len(Texts) /\ k - Len(delivered) = 1 /\ ~(k <= Len(delivered))
          /\ k \in 1 .. Len(delivered) + Len(inbox)
        BY <1>2, <1>3, <2>1, <2>2
    <2>4. Texts[k] = Head(inbox)
        BY <1>2, <2>2, <2>3
    <2>5. PICK n \in 1..Len(accepted) :
              /\ AP!Names(Texts[k], n)
              /\ k <= Len(Channel!Audible(accepted))
              /\ Channel!Audible(accepted)[k] = accepted[n]
        BY <2>3, TextsInOrder
    <2> QED BY <2>1, <2>4, <2>5 DEF AP!Names, Named
<1> QED BY <1>1, <1>4, <1>5

\* A message that A accepts later changes nothing of what B was told.
LEMMA ToldKept ==
    ASSUME PairInv, peer = "A", UNCHANGED <<peer, delivered>>,
           \E m \in Msg : accepted' = Append(accepted, m)
    PROVE  ToldB' = ToldB
<1>1. accepted \in Seq(Msg)
    BY DEF PairInv, AP!SendTypeOK
<1>2. \A n \in 1..Len(accepted) : accepted'[n] = accepted[n]
    BY <1>1, AppendProperties
<1>3. DOMAIN delivered = 1..Len(delivered)
    BY AnnouncedNamed
<1>4. ASSUME NEW k \in DOMAIN delivered
      PROVE  Named(delivered[k])' = Named(delivered[k])
    <2>1. delivered[k] # <<>> /\ delivered[k][1][1] \in 1..Len(accepted)
        BY <1>3, AnnouncedNamed
    <2> QED BY <1>2, <2>1 DEF Named
<1> QED BY <1>4 DEF ToldB

\* The next message that is not silent.
LEMMA ToldNext ==
    ASSUME PairInv, peer = "A", UNCHANGED <<peer, accepted>>,
           inbox # <<>>, delivered' = Append(delivered, Head(inbox))
    PROVE  /\ ToldB' = Append(ToldB, Channel!Audible(accepted)[Len(ToldB) + 1])
           /\ Len(ToldB) < Len(Channel!Audible(accepted))
<1>1. /\ accepted \in Seq(Msg)
      /\ delivered \in Seq(Seq(Nat \X Nat)) /\ Head(inbox) \in Seq(Nat \X Nat)
    BY AnnouncedNamed, HeadTailProperties DEF PairInv, AP!SendTypeOK
<1>2. PICK h, n : h = Head(inbox) /\ n = Len(delivered)
    OBVIOUS
<1>3. ASSUME NEW text, text # <<>>, text[1][1] \in 1..Len(accepted)
      PROVE  Named(text) \in Msg /\ Named(text)' = Named(text)
    BY <1>1, <1>3 DEF Named
<1>4. n \in Nat /\ DOMAIN delivered = 1..n
      /\ DOMAIN delivered' = 1 .. n + 1 /\ delivered'[n + 1] = h
      /\ \A k \in 1..n : delivered'[k] = delivered[k]
    BY <1>1, <1>2, AppendProperties
<1>5. PICK s, t, next : s = ToldB /\ t = ToldB' /\ next = Named(h)
    OBVIOUS
<1>6. s = [k \in 1..n |-> Named(delivered[k])]
    BY <1>4, <1>5 DEF ToldB
<1>7. t = [k \in 1 .. n + 1 |-> Named(delivered[k])']
    BY <1>4, <1>5 DEF ToldB
<1>8. s \in Seq(Msg) /\ Len(s) = n
    <2>1. \A k \in 1..n : Named(delivered[k]) \in Msg
        BY <1>2, <1>3, AnnouncedNamed
    <2> QED BY <1>4, <1>6, <2>1
<1>9. next \in Msg
    BY <1>2, <1>3, <1>5, AnnouncedNamed
<1>10. t = Append(s, next)
    <2>1. PICK a : a = Append(s, next)
        OBVIOUS
    <2>2. a \in Seq(Msg) /\ Len(a) = n + 1 /\ a[n + 1] = next /\ \A k \in 1..n : a[k] = s[k]
        BY <1>8, <1>9, <2>1, AppendProperties
    <2>3. ASSUME NEW k \in 1 .. n + 1 PROVE t[k] = a[k]
        <3>1. t[k] = Named(delivered[k])'
            BY <1>7
        <3>2. CASE k = n + 1
            <4>1. Named(h)' = Named(h)
                BY <1>2, <1>3, AnnouncedNamed
            <4>2. Named(delivered[k])' = Named(h)
                BY <1>4, <3>2, <4>1 DEF Named
            <4> QED BY <1>5, <2>2, <3>1, <3>2, <4>2
        <3>3. CASE k \in 1..n
            <4>1. Named(delivered[k])' = Named(delivered[k])
                BY <1>2, <1>3, <1>4, <3>3, AnnouncedNamed DEF Named
            <4> QED BY <1>6, <2>2, <3>1, <3>3, <4>1
        <3> QED BY <1>4, <3>2, <3>3
    <2>4. t \in Seq(Msg) /\ Len(t) = n + 1
        <3>1. \A k \in 1 .. n + 1 : t[k] \in Msg
            BY <1>4, <2>2, <2>3
        <3> QED BY <1>4, <1>7, <3>1
    <2>5. t = a
        BY <2>2, <2>3, <2>4, SeqEqual
    <2> QED BY <2>1, <2>5
<1>11. /\ n + 1 <= Len(Channel!Audible(accepted))
       /\ next = Channel!Audible(accepted)[n + 1]
    BY <1>2, <1>5, AnnouncedNamed
<1>12. Len(Channel!Audible(accepted)) \in Nat
    <2>1. Len(accepted) \in 0..Len(accepted)
        BY <1>1
    <2>2. AP!Heard(Len(accepted)) \in Seq(Msg)
        BY <2>1, Assumed, AP!HeardType DEF PairInv
    <2> QED BY <1>1, <2>2, AudibleIsHeard
<1>13. n < Len(Channel!Audible(accepted))
    BY <1>4, <1>11, <1>12
<1> QED BY <1>5, <1>8, <1>10, <1>11, <1>13

LEMMA ChannelStep ==
    ASSUME PairInv, [Next]_vars
    PROVE  [Channel!Next]_(Channel!channelVars)
<1>1. \/ UNCHANGED accepted \/ \E m \in Msg : accepted' = Append(accepted, m)
    BY StepOfA, Assumed, AP!HistoriesGrow DEF PairInv
<1>2. UNCHANGED delivered \/ UNCHANGED accepted
    BY DEF Next, Network, Connect, Transmit, TransmitEnd, StrangerActs, Breaks, CallsA,
       ThreadsA, HandlersA, CloseA, HandlersB, vars, varsA, varsB, ownVarsB, sendVars, readVars
<1>3. UNCHANGED peer
    BY DEF Next, Network, Connect, Transmit, TransmitEnd, StrangerActs, Breaks, CallsA,
       ThreadsA, HandlersA, CloseA, HandlersB, vars
<1>4. \/ UNCHANGED delivered
      \/ inbox # <<>> /\ delivered' = Append(delivered, Head(inbox))
    <2>1. CASE [BP!Next]_(BP!vars)
        BY <2>1, Assumed, BP!DeliveredGrows
    <2>2. CASE UNCHANGED readVars
        BY <2>2 DEF readVars
    <2> QED BY <2>1, <2>2, StepOfB
<1>5. CASE \E m \in Msg : accepted' = Append(accepted, m)
    <2>1. accepted \in Seq(Msg)
        BY DEF PairInv, AP!SendTypeOK
    <2>2. accepted' # accepted
        BY <1>5, <2>1, AppendProperties
    <2>3. ToldB' = ToldB
        <3>1. CASE peer = "A"
            BY <1>2, <1>3, <1>5, <2>2, <3>1, ToldKept
        <3>2. CASE peer # "A"
            BY <1>3, <3>2 DEF ToldB
        <3> QED BY <3>1, <3>2
    <2>4. Channel!Send
        BY <1>5, <2>3 DEF Channel!Send, ToldB
    <2> QED BY <2>4 DEF Channel!Next
<1>6. CASE UNCHANGED accepted /\ peer = "A" /\ inbox # <<>>
           /\ delivered' = Append(delivered, Head(inbox))
    <2>1. /\ ToldB' = Append(ToldB, Channel!Audible(accepted)[Len(ToldB) + 1])
          /\ Len(ToldB) < Len(Channel!Audible(accepted))
        BY <1>3, <1>6, ToldNext
    <2>2. Channel!Deliver
        BY <1>6, <2>1 DEF Channel!Deliver, ToldB
    <2> QED BY <2>2 DEF Channel!Next
<1>7. CASE UNCHANGED <<accepted, delivered>> \/ (UNCHANGED accepted /\ peer # "A")
    <2>1. ToldB' = ToldB
        <3>1. CASE peer = "A"
            BY <1>3, <1>7, <3>1 DEF ToldB, Named
        <3>2. CASE peer # "A"
            BY <1>3, <3>2 DEF ToldB
        <3> QED BY <3>1, <3>2
    <2> QED BY <1>7, <2>1 DEF Channel!channelVars, ToldB
<1> QED BY <1>1, <1>4, <1>5, <1>6, <1>7

\* B announces A's messages in the order A's send() accepted them, each once
\* and none out of turn, but never an empty one, whatever A's threads do,
\* however the stream is cut and whichever end fails or stops; a stranger's
\* bytes are none of A's messages.
THEOREM PairImplementsChannel == Spec => ImplementsChannel
<1>1. Init => Channel!Init
    <2> SUFFICES ASSUME Init PROVE Channel!Init
        OBVIOUS
    <2>1. accepted = <<>> /\ delivered = <<>>
        BY DEF Init, A!SendInit, B!ReadInit
    <2>2. [k \in DOMAIN delivered |-> Named(delivered[k])] = <<>>
        BY <2>1
    <2> QED BY <2>1, <2>2 DEF Channel!Init
<1>2. PairInv /\ [Next]_vars => [Channel!Next]_(Channel!channelVars)
    BY ChannelStep
<1> QED BY <1>1, <1>2, PairInvCorrect, PTL DEF Spec, ImplementsChannel, Channel!Spec

\* Whoever writes to B, what B has announced and is about to announce is
\* what decode_message makes of the bytes consumed so far as a whole.
THEOREM PairReadsAsAWhole == Spec => []ChunkingIrrelevant
<1>1. PairInv => ChunkingIrrelevant
    <2> SUFFICES ASSUME PairInv PROVE ChunkingIrrelevant
        OBVIOUS
    <2>1. /\ delivered \o inbox = BP!DecodeMessage(BP!Consumed)
          /\ partMessage = BP!UnreceivedPart(BP!Consumed)
        BY DEF PairInv, BP!ReadInv, BP!ChunkingIrrelevant
    <2>2. B!Consumed = BP!Consumed
        BY DEF B!Consumed, BP!Consumed
    <2> QED BY <2>1, <2>2, SameDecoding DEF ChunkingIrrelevant, B!ChunkingIrrelevant
<1> QED BY <1>1, PairInvCorrect, PTL
============================================================================
