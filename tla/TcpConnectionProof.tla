------------------------ MODULE TcpConnectionProof ------------------------
(***************************************************************************)
(* TcpConnection is proved correct for any threads, messages and bounds.   *)
(* Types and the reading half hold for every connection; the rest is about *)
(* connections that are used once start() has run (EarlyUse = FALSE), as   *)
(* tcp_server's always are.  The last part says what the frames on the     *)
(* wire decode to: ConnectionPairProof needs it.                           *)
(***************************************************************************)
EXTENDS TcpConnection, SelectionProof

USE ConnectionAssumption
----------------------------------------------------------------------------
(* Sequences *)

\* A sequence over a set is one over any larger set: the numbers queued
\* before a send() stay numbers of accepted messages after it.
LEMMA SeqWiden ==
    ASSUME NEW S, NEW T, S \subseteq T, NEW s \in Seq(S)
    PROVE  s \in Seq(T)
OBVIOUS

\* The elements of a sequence.
LEMMA ElementType ==
    ASSUME NEW S, NEW s \in Seq(S), NEW i \in DOMAIN s
    PROVE  i \in 1..Len(s) /\ s[i] \in S
OBVIOUS

\* Removing one handled async_write from the pending ones.
LEMMA RemoveAtType ==
    ASSUME NEW S, NEW s \in Seq(S), NEW i \in 1..Len(s)
    PROVE  /\ RemoveAt(s, i) \in Seq(S)
           /\ Len(RemoveAt(s, i)) = Len(s) - 1
<1> DEFINE before == SubSeq(s, 1, i - 1)
           after == SubSeq(s, i + 1, Len(s))
<1>1. \A j \in 1..(i - 1) : s[j] \in S
    OBVIOUS
<1>2. before \in Seq(S) /\ Len(before) = i - 1
    BY <1>1, SubSeqProperties
<1>3. \A j \in (i + 1)..Len(s) : s[j] \in S
    OBVIOUS
<1>4. after \in Seq(S) /\ Len(after) = Len(s) - i
    BY <1>3, SubSeqProperties
<1>5. RemoveAt(s, i) = before \o after
    BY DEF RemoveAt
<1> HIDE DEF before, after
<1>6. before \o after \in Seq(S) /\ Len(before \o after) = Len(before) + Len(after)
    BY <1>2, <1>4, ConcatProperties
<1> QED BY <1>2, <1>4, <1>5, <1>6

\* The whole send half is typed by sendVars and three other variables.
LEMMA SendTypeUnchanged ==
    ASSUME SendTypeOK, UNCHANGED <<socket, outcome, slots, sendVars>>
    PROVE  SendTypeOK'
BY DEF SendTypeOK, sendVars, WriteOps
----------------------------------------------------------------------------
(* Types *)

\* The frame of a queued message starts with a byte, and so does every
\* async_write.
LEMMA WriteOpType ==
    ASSUME SendTypeOK, NEW n \in 1..Len(accepted)
    PROVE  /\ FirstByte(n) \in Byte
           /\ WriteOp(n) \in WriteOps
BY DEF SendTypeOK, WriteOp, FirstByte, WriteOps, Byte, Status

\* The common tail of async_write() keeps the queue and the writes typed.
LEMMA WriteFrontType ==
    ASSUME SendTypeOK,
           NEW queue \in Seq(1..Len(accepted)), NEW flag \in BOOLEAN,
           NEW ops \in Seq(WriteOps),
           WriteFront(queue, flag, ops)
    PROVE  /\ sendBuffer' \in Seq(1..Len(accepted))
           /\ sendStart' \in BOOLEAN
           /\ writes' \in Seq(WriteOps)
<1>1. CASE queue = <<>>
    BY <1>1 DEF WriteFront
<1>2. CASE queue # <<>>
    <2>1. Head(queue) \in 1..Len(accepted)
        BY <1>2
    <2>2. WriteOp(Head(queue)) \in
              WriteOps
        BY <2>1, WriteOpType
    <2> QED BY <1>2, <2>2 DEF WriteFront
<1> QED BY <1>1, <1>2

\* Every handler, critical section and event keeps the types.
LEMMA SendTypeStep == SendTypeOK /\ [Next]_vars => SendTypeOK'
<1> SUFFICES ASSUME SendTypeOK, [Next]_vars PROVE SendTypeOK'
    OBVIOUS
<1>1. CASE KernelConnect
    BY <1>1 DEF KernelConnect, SendTypeOK, sendVars, stopVars, WriteOps
<1>2. CASE HandleConnect
    BY <1>2 DEF HandleConnect, Start, SendTypeOK, stopVars, WriteOps
<1>3. ASSUME NEW t \in Thread, SendPush(t) PROVE SendTypeOK'
    <2>0. UNCHANGED <<socket, outcome, slots, sendStart, writes, wire, failed>>
        BY <1>3 DEF SendPush, stopVars
    <2>1. pc' \in [Thread -> {"idle", "pushed"}]
        BY <1>3 DEF SendPush, SendTypeOK
    <2>2. CASE UNCHANGED <<accepted, sendBuffer>>
        BY <2>0, <2>1, <2>2 DEF SendTypeOK, WriteOps
    <2>3. ASSUME NEW m \in Msg, accepted' = Append(accepted, m),
                 sendBuffer' = Append(sendBuffer, Len(accepted) + 1)
          PROVE  SendTypeOK'
        <3>1. accepted' \in Seq(Msg) /\ Len(accepted') = Len(accepted) + 1
            BY <2>3 DEF SendTypeOK
        <3>2. Len(accepted') <= MaxSends
            BY <1>3, <3>1 DEF SendPush, SendTypeOK
        <3>3. 1..Len(accepted) \subseteq 1..Len(accepted')
            BY <3>1 DEF SendTypeOK
        <3>4. sendBuffer \in Seq(1..Len(accepted'))
            BY <3>3, SeqWiden DEF SendTypeOK
        <3>5. sendBuffer' \in Seq(1..Len(accepted'))
            BY <2>3, <3>1, <3>4, AppendProperties DEF SendTypeOK
        <3>6. WriteOps \subseteq WriteOps'
            BY <3>3 DEF WriteOps, Byte, WriteOps
        <3>7. writes \in Seq(WriteOps)
            BY DEF SendTypeOK
        <3>8. writes \in Seq(WriteOps')
            <4> QED BY <3>6, <3>7, SeqWiden
        <3> QED BY <2>0, <2>1, <3>1, <3>2, <3>3, <3>5, <3>8 DEF SendTypeOK
    <2> QED BY <1>3, <2>2, <2>3 DEF SendPush
<1>4. ASSUME NEW t \in Thread, AsyncWriteInit(t) PROVE SendTypeOK'
    <2>0. UNCHANGED <<socket, outcome, slots, accepted, wire, failed>>
        BY <1>4 DEF AsyncWriteInit, stopVars
    <2>1. pc' \in [Thread -> {"idle", "pushed"}]
        BY <1>4 DEF AsyncWriteInit, SendTypeOK
    <2>2. /\ sendBuffer' \in Seq(1..Len(accepted))
          /\ sendStart' \in BOOLEAN
          /\ writes' \in Seq(WriteOps)
        <3>1. CASE UNCHANGED <<sendBuffer, sendStart, writes>>
            BY <3>1 DEF SendTypeOK
        <3>2. CASE WriteFront(sendBuffer, TRUE, writes)
            <4>1. sendBuffer \in Seq(1..Len(accepted)) /\ writes \in Seq(WriteOps)
                BY DEF SendTypeOK
            <4> QED BY <3>2, <4>1, WriteFrontType
        <3> QED BY <1>4, <3>1, <3>2 DEF AsyncWriteInit
    <2> QED BY <2>0, <2>1, <2>2 DEF SendTypeOK, WriteOps
<1>5. ASSUME NEW i \in DOMAIN writes, WriteByte(i) PROVE SendTypeOK'
    <2>0. UNCHANGED <<socket, outcome, slots, pc, sendBuffer, sendStart, accepted, failed>>
        BY <1>5 DEF WriteByte, stopVars
    <2>1. i \in 1..Len(writes) /\ writes \in Seq(WriteOps) /\ writes[i] \in WriteOps
        <3>1. writes \in Seq(WriteOps)
            BY DEF SendTypeOK
        <3> QED BY <3>1, ElementType
    <2>2. wire' \in Seq(Byte)
        <3>1. wire \in Seq(Byte) /\ writes[i].next \in Byte /\ Garbage \in Byte
            BY <2>1 DEF SendTypeOK, Garbage, WriteOps, Byte
        <3>2. wire' = Append(wire, writes[i].next) \/ wire' = Append(wire, Garbage)
            BY <1>5 DEF WriteByte
        <3> QED BY <3>1, <3>2, AppendProperties
    <2>3. writes' \in Seq(WriteOps)
        <3>1. CASE IsDelimiter(writes[i].next)
            <4>1. writes' = [writes EXCEPT ![i] = [writes[i] EXCEPT !.status = "ok"]]
                BY <1>5, <3>1 DEF WriteByte
            <4>2. [writes[i] EXCEPT !.status = "ok"] \in WriteOps
                BY <2>1 DEF WriteOps, Status
            <4> QED BY <2>1, <4>1, <4>2, ExceptSeq
        <3>2. CASE ~IsDelimiter(writes[i].next)
            <4>1. writes' = [writes EXCEPT ![i] =
                                [writes[i] EXCEPT !.next = ByteAfter(writes[i].next)]]
                BY <1>5, <3>2 DEF WriteByte
            <4>2. ByteAfter(writes[i].next) \in Byte
                BY <2>1, <3>2 DEF ByteAfter, IsDelimiter, WriteOps, Byte
            <4>3. [writes[i] EXCEPT !.next = ByteAfter(writes[i].next)] \in WriteOps
                BY <2>1, <4>2 DEF WriteOps
            <4> QED BY <2>1, <4>1, <4>3, ExceptSeq
        <3> QED BY <3>1, <3>2
    <2> QED BY <2>0, <2>2, <2>3 DEF SendTypeOK, WriteOps
<1>6. ASSUME NEW i \in DOMAIN writes, WriteFail(i) PROVE SendTypeOK'
    <2>0. UNCHANGED <<socket, outcome, slots, pc, sendBuffer, sendStart, accepted, wire, failed>>
        BY <1>6 DEF WriteFail, stopVars
    <2>1. writes' \in Seq(WriteOps)
        <3>1. i \in 1..Len(writes) /\ writes \in Seq(WriteOps) /\ writes[i] \in WriteOps
            <4>1. writes \in Seq(WriteOps)
                BY DEF SendTypeOK
            <4> QED BY <4>1, ElementType
        <3>2. writes' = [writes EXCEPT ![i] = [writes[i] EXCEPT !.status = "error"]]
            BY <1>6 DEF WriteFail
        <3>3. [writes[i] EXCEPT !.status = "error"] \in WriteOps
            BY <3>1 DEF WriteOps, Status
        <3> QED BY <3>1, <3>2, <3>3, ExceptSeq
    <2> QED BY <2>0, <2>1 DEF SendTypeOK, WriteOps
<1>7. ASSUME NEW i \in DOMAIN writes, HandleWrite(i) PROVE SendTypeOK'
    <2>1. i \in 1..Len(writes) /\ writes[i].msg \in 1..Len(accepted)
        <3>1. writes \in Seq(WriteOps)
            BY DEF SendTypeOK
        <3>2. i \in 1..Len(writes) /\ writes[i] \in WriteOps
            <4> QED BY <3>1, ElementType
        <3> QED BY <3>2 DEF WriteOps
    <2>2. RemoveAt(writes, i) \in Seq(WriteOps)
        BY <2>1, RemoveAtType DEF SendTypeOK
    <2>3. ASSUME NEW queue,
                 queue = IF sendBuffer = <<>> THEN <<>> ELSE Tail(sendBuffer)
          PROVE  queue \in Seq(1..Len(accepted))
        BY <2>3, HeadTailProperties DEF SendTypeOK
    <2>4. /\ sendBuffer' \in Seq(1..Len(accepted))
          /\ sendStart' \in BOOLEAN
          /\ writes' \in Seq(WriteOps)
        <3>1. sendStart \in BOOLEAN
            BY DEF SendTypeOK
        <3> QED
            BY <1>7, <2>2, <2>3, <3>1, WriteFrontType
            DEF HandleWrite, AsyncWriteNext
    <2>5. failed' \subseteq 1..Len(accepted)
        BY <1>7, <2>1 DEF HandleWrite, ReportError, SendTypeOK
    <2>6. UNCHANGED <<socket, outcome, slots, pc, accepted, wire>>
        BY <1>7 DEF HandleWrite, stopVars
    <2> QED BY <2>4, <2>5, <2>6 DEF SendTypeOK, WriteOps
<1>8. CASE CloseSocket
    BY <1>8 DEF CloseSocket, SendTypeOK, sendVars, WriteOps
<1>9. CASE ConnectionBreaks
    BY <1>9 DEF ConnectionBreaks, SendTypeOK, sendVars, stopVars, WriteOps
<1>10. CASE \/ ReadSome \/ ReadFail \/ ReadHandler \/ PeerSends \/ PeerCloses
            \/ \E t \in Thread : Stop(t)
            \/ UNCHANGED vars
    <2>1. UNCHANGED <<socket, outcome, slots, sendVars>>
        BY <1>10 DEF ReadSome, ReadFail, ReadHandler, HandleRead, AnnounceMessage,
           Rearm, HandleReadError, PeerSends, PeerCloses, Stop, vars, stopVars
    <2> QED BY <2>1, SendTypeUnchanged
<1> QED
    BY <1>1, <1>2, <1>3, <1>4, <1>5, <1>6, <1>7, <1>8, <1>9, <1>10
    DEF Next, WriteStep, WriteHandler

\* Types of the send half, whoever uses the connection and whenever.
THEOREM SendTypeCorrect == Spec => []SendTypeOK
<1>1. Init => SendTypeOK
    BY DEF Init, SendInit, SendTypeOK, WriteOps
<1> QED BY <1>1, SendTypeStep, PTL DEF Spec
----------------------------------------------------------------------------
(* The inductive invariant of the send half *)

\* Messages that have left the queue: the queue holds the others, in order.
Gone == Len(accepted) - Len(sendBuffer)

\* Nothing is sent before start() has run.
Unused ==
    ~Started => /\ accepted = <<>> /\ sendBuffer = <<>>
                /\ writes = <<>> /\ wire = <<>>

\* start() runs on a connected socket, which never connects again.
Connected == Started => socket \in {"open", "broken", "closed"}

QueueConsecutive ==
    /\ Gone >= 0
    /\ \A j \in 1..Len(sendBuffer) : sendBuffer[j] = Gone + j

\* sendStart tells whether a write is in progress.
OneWrite ==
    /\ Len(writes) <= 1
    /\ Started => (sendStart <=> writes # <<>>)
    /\ writes # <<>> => sendBuffer # <<>> /\ writes[1].msg = Gone + 1

\* How far the socket is in the frames, while it takes bytes.
BetweenFrames ==
    IF wire = <<>> THEN Gone = 0 ELSE wire[Len(wire)] = <<Gone, 0>>

InFrame(op) ==
    /\ op.status = "busy" =>
        /\ op.next[1] = Gone + 1
        /\ IF wire = <<>> THEN op.next = FirstByte(1)
           ELSE Follows(wire[Len(wire)], op.next)
    /\ op.status = "ok" => wire # <<>> /\ wire[Len(wire)] = <<Gone + 1, 0>>
    /\ op.status # "error"

Position ==
    socket = "open" =>
        /\ writes = <<>> => BetweenFrames
        /\ writes # <<>> => InFrame(writes[1])

\* A write completes without an error after its last byte.
Written == writes # <<>> /\ writes[1].status = "ok" => OnWire(Gone + 1)

GoneAccounted == \A n \in 1..Gone : OnWire(n) \/ n \in failed \/ ~slots

SendInv ==
    /\ Unused /\ Connected /\ QueueConsecutive /\ OneWrite /\ NoStranded
    /\ Position /\ Written /\ GoneAccounted /\ WireInOrder
----------------------------------------------------------------------------
(* Every step keeps it. *)

\* What the types say of lengths and elements.
LEMMA Shapes ==
    ASSUME SendTypeOK
    PROVE  /\ Len(accepted) \in Nat /\ Len(sendBuffer) \in Nat
           /\ Len(writes) \in Nat /\ Len(wire) \in Nat
           /\ Gone \in Int
           /\ sendBuffer = <<>> <=> Len(sendBuffer) = 0
           /\ writes = <<>> <=> Len(writes) = 0
           /\ wire = <<>> <=> Len(wire) = 0
           /\ DOMAIN sendBuffer = 1..Len(sendBuffer)
           /\ DOMAIN writes = 1..Len(writes)
           /\ \A i \in 1..Len(writes) : writes[i] \in WriteOps
BY DEF SendTypeOK, Gone

\* Steps that leave the send half, the socket and the slots alone.
LEMMA SendInvUnchanged ==
    ASSUME SendInv, UNCHANGED <<socket, outcome, slots, sendVars>>
    PROVE  SendInv'
BY DEF SendInv, Unused, Connected, QueueConsecutive, OneWrite, NoStranded,
   Position, Written, GoneAccounted, WireInOrder, Gone, Started, BetweenFrames,
   InFrame, OnWire, Follows, FirstByte, ByteAfter, IsDelimiter, sendVars

\* Steps of the socket alone: it may open before start() has run, and may
\* stop taking bytes at any time; the slots may be disconnected.
LEMMA SocketStep ==
    ASSUME SendTypeOK, SendInv, UNCHANGED <<outcome, sendVars>>,
           slots' => slots,
           Started => socket' \in {"broken", "closed"},
           slots' \in BOOLEAN
    PROVE  SendInv'
<1>1. Unused' /\ QueueConsecutive' /\ OneWrite' /\ NoStranded' /\ Written'
    BY DEF SendInv, Unused, QueueConsecutive, OneWrite, NoStranded, Written,
       Started, Gone, OnWire, sendVars
<1>2. Connected'
    BY DEF Connected, Started
<1>3. Position'
    <2>1. ASSUME ~Started PROVE writes = <<>> /\ wire = <<>> /\ Gone = 0
        BY <2>1 DEF SendInv, Unused, Gone
    <2> QED BY <2>1 DEF Position, BetweenFrames, Gone, sendVars
<1>4. GoneAccounted' /\ WireInOrder'
    BY DEF SendInv, GoneAccounted, WireInOrder, OnWire, Gone, Follows, FirstByte,
       ByteAfter, IsDelimiter, sendVars
<1> QED BY <1>1, <1>2, <1>3, <1>4 DEF SendInv

\* handle_connect: start() finds an empty queue.
LEMMA HandleConnectInv ==
    ASSUME SendTypeOK, SendInv, HandleConnect
    PROVE  SendInv'
<1>0. /\ ~Started
      /\ UNCHANGED <<slots, pc, sendBuffer, writes, accepted, wire, failed>>
    BY DEF HandleConnect, Started, stopVars
<1>1. /\ accepted = <<>> /\ sendBuffer = <<>> /\ writes = <<>> /\ wire = <<>>
      /\ Gone = 0
    BY <1>0 DEF SendInv, Unused, Gone
<1>2. Unused' /\ QueueConsecutive' /\ NoStranded' /\ Written' /\ GoneAccounted'
    BY <1>0, <1>1 DEF SendInv, Unused, QueueConsecutive, NoStranded, Written,
       GoneAccounted, Gone
<1>3. Connected'
    BY DEF HandleConnect, Connected, Started
<1>4. OneWrite'
    <2>1. Started' => sendStart' = FALSE
        BY <1>0 DEF HandleConnect, Start, Started
    <2> QED BY <1>0, <1>1, <2>1 DEF OneWrite
<1>5. Position'
    BY <1>0, <1>1 DEF Position, BetweenFrames, Gone
<1>6. WireInOrder'
    BY <1>0, <1>1 DEF WireInOrder
<1> QED BY <1>2, <1>3, <1>4, <1>5, <1>6 DEF SendInv

\* Queueing a message leaves the frames of the others as they are.
LEMMA SendPushInv ==
    ASSUME EarlyUse = FALSE, SendTypeOK, SendInv, NEW t \in Thread, SendPush(t)
    PROVE  SendInv'
<1>0. /\ Started /\ Started' /\ pc'[t] = "pushed"
      /\ UNCHANGED <<socket, outcome, slots, sendStart, writes, wire, failed>>
    BY DEF SendPush, Usable, Started, stopVars, SendTypeOK
<1>1. CASE UNCHANGED <<accepted, sendBuffer>>
    <2>1. UNCHANGED Gone
        BY <1>1 DEF Gone
    <2>2. NoStranded'
        BY <1>0 DEF NoStranded
    <2> QED
        BY <1>0, <1>1, <2>1, <2>2
        DEF SendInv, Unused, Connected, QueueConsecutive, OneWrite, Position,
            Written, GoneAccounted, WireInOrder, BetweenFrames, InFrame, OnWire,
            Follows, FirstByte, ByteAfter, IsDelimiter
<1>2. ASSUME NEW m \in Msg, accepted' = Append(accepted, m),
             sendBuffer' = Append(sendBuffer, Len(accepted) + 1)
      PROVE  SendInv'
    <2>1. /\ Len(accepted') = Len(accepted) + 1
          /\ \A n \in 1..Len(accepted) : accepted'[n] = accepted[n]
        BY <1>2 DEF SendTypeOK
    <2>2. /\ Len(sendBuffer') = Len(sendBuffer) + 1
          /\ \A j \in 1..Len(sendBuffer) : sendBuffer'[j] = sendBuffer[j]
          /\ sendBuffer'[Len(sendBuffer) + 1] = Len(accepted) + 1
          /\ sendBuffer' # <<>>
        <3>1. Len(accepted) + 1 \in Nat /\ 1..Len(accepted) \subseteq Nat
            BY Shapes
        <3>2. sendBuffer \in Seq(1..Len(accepted))
            BY DEF SendTypeOK
        <3>3. sendBuffer \in Seq(Nat)
            BY <3>1, <3>2, SeqWiden
        <3> QED BY <1>2, <3>1, <3>3, AppendProperties
    <2>3. Gone' = Gone
        BY <2>1, <2>2, Shapes DEF Gone
    <2>4. \A n \in 1..Len(accepted) : FirstByte(n)' = FirstByte(n)
        BY <2>1 DEF FirstByte
    <2>5. Unused' /\ Connected' /\ NoStranded'
        BY <1>0 DEF SendInv, Unused, Connected, NoStranded
    <2>6. QueueConsecutive'
        <3>1. Gone + Len(sendBuffer) + 1 = Len(accepted) + 1
            BY Shapes DEF Gone
        <3>2. ASSUME NEW j \in 1..(Len(sendBuffer) + 1)
              PROVE  sendBuffer'[j] = Gone + j
            <4>1. CASE j = Len(sendBuffer) + 1
                BY <2>2, <3>1, <4>1, Shapes
            <4>2. CASE j \in 1..Len(sendBuffer)
                BY <2>2, <4>2 DEF SendInv, QueueConsecutive
            <4> QED BY <4>1, <4>2, Shapes
        <3> QED BY <2>2, <2>3, <3>2 DEF SendInv, QueueConsecutive
    <2>7. OneWrite'
        BY <1>0, <2>2, <2>3 DEF SendInv, OneWrite
    <2>8. Written' /\ GoneAccounted'
        BY <1>0, <2>3 DEF SendInv, Written, GoneAccounted, OnWire
    <2>9. Position'
        <3>1. CASE writes = <<>>
            BY <1>0, <2>3, <3>1 DEF SendInv, Position, BetweenFrames
        <3>2. CASE writes # <<>>
            <4>1. Gone + 1 \in 1..Len(accepted) /\ 1 \in 1..Len(accepted)
                BY <3>2, Shapes DEF SendInv, OneWrite, QueueConsecutive, Gone
            <4> QED
                BY <1>0, <2>3, <2>4, <3>2, <4>1
                DEF SendInv, Position, InFrame, Follows, ByteAfter, IsDelimiter
        <3> QED BY <3>1, <3>2
    <2>10. WireInOrder'
        <3>1. SUFFICES ASSUME NEW k \in 1..Len(wire)
                       PROVE  /\ wire[k][1] \in 1..Len(accepted)'
                              /\ IF k = 1 THEN wire[k] = FirstByte(1)'
                                 ELSE Follows(wire[k - 1], wire[k])'
            BY <1>0 DEF WireInOrder
        <3>2. /\ wire[k][1] \in 1..Len(accepted)
              /\ IF k = 1 THEN wire[k] = FirstByte(1)
                 ELSE Follows(wire[k - 1], wire[k])
            BY DEF SendInv, WireInOrder
        <3>3. 1 \in 1..Len(accepted)
            BY <3>2, Shapes
        <3> QED
            BY <1>0, <2>1, <2>4, <3>2, <3>3, Shapes
            DEF Follows, ByteAfter, IsDelimiter
    <2> QED BY <2>5, <2>6, <2>7, <2>8, <2>9, <2>10 DEF SendInv
<1> QED BY <1>1, <1>2 DEF SendPush

\* async_write(true): between frames, the next frame is the front's.
LEMMA AsyncWriteInitInv ==
    ASSUME SendTypeOK, SendInv, NEW t \in Thread, AsyncWriteInit(t)
    PROVE  SendInv'
<1>0. UNCHANGED <<socket, outcome, slots, sendBuffer, accepted, wire, failed>>
    BY DEF AsyncWriteInit, WriteFront, stopVars
<1>1. UNCHANGED <<Gone, Started>>
    BY <1>0 DEF Gone, Started
<1>2. CASE UNCHANGED <<sendStart, writes>> /\ (sendStart \/ sendBuffer = <<>>)
    <2>1. NoStranded'
        BY <1>0, <1>1, <1>2 DEF SendInv, NoStranded, OneWrite
    <2> QED
        BY <1>0, <1>1, <1>2, <2>1
        DEF SendInv, Unused, Connected, QueueConsecutive, OneWrite, Position,
            Written, GoneAccounted, WireInOrder, BetweenFrames, InFrame, OnWire,
            Follows, FirstByte, ByteAfter, IsDelimiter
<1>3. CASE /\ sendBuffer # <<>> /\ ~sendStart
           /\ sendStart' = TRUE
           /\ writes' = Append(writes, WriteOp(Head(sendBuffer)))
    <2>1. Started /\ writes = <<>>
        BY <1>3 DEF SendInv, Unused, OneWrite
    <2>2. Head(sendBuffer) = Gone + 1 /\ Gone + 1 \in 1..Len(accepted)
        BY <1>3, Shapes DEF SendInv, QueueConsecutive, Gone, SendTypeOK
    <2>3. /\ writes' # <<>> /\ Len(writes') = 1
          /\ writes'[1] = WriteOp(Gone + 1)
        BY <1>3, <2>1, <2>2
    <2>4. Unused' /\ Connected' /\ QueueConsecutive' /\ NoStranded'
        BY <1>0, <1>1, <2>1, <2>3
        DEF SendInv, Unused, Connected, QueueConsecutive, NoStranded
    <2>5. OneWrite' /\ Written'
        BY <1>0, <1>1, <1>3, <2>3 DEF OneWrite, Written, WriteOp
    <2>6. GoneAccounted' /\ WireInOrder'
        BY <1>0, <1>1
        DEF SendInv, GoneAccounted, WireInOrder, OnWire, Follows, FirstByte,
            ByteAfter, IsDelimiter
    <2>7. Position'
        <3>1. SUFFICES ASSUME socket = "open" PROVE InFrame(WriteOp(Gone + 1))
            BY <1>0, <1>1, <2>3
            DEF Position, InFrame, WriteOp, Follows, FirstByte, ByteAfter, IsDelimiter
        <3>2. BetweenFrames
            BY <2>1, <3>1 DEF SendInv, Position
        <3> QED
            BY <3>2, Shapes
            DEF BetweenFrames, InFrame, WriteOp, Follows, FirstByte, IsDelimiter
    <2> QED BY <2>4, <2>5, <2>6, <2>7 DEF SendInv
<1> QED
    <2>1. sendStart \in BOOLEAN
        BY DEF SendTypeOK
    <2>2. CASE sendStart /\ UNCHANGED <<sendBuffer, sendStart, writes>>
        BY <1>2, <2>2
    <2>3. CASE ~sendStart /\ WriteFront(sendBuffer, TRUE, writes)
        BY <1>2, <1>3, <2>1, <2>3 DEF WriteFront
    <2> QED BY <2>2, <2>3 DEF AsyncWriteInit

\* The pending write is the only one, of the front of the queue.
LEMMA PendingWrite ==
    ASSUME SendTypeOK, SendInv, NEW i \in DOMAIN writes
    PROVE  /\ i = 1 /\ Len(writes) = 1 /\ writes # <<>> /\ Started
           /\ sendBuffer # <<>> /\ sendBuffer[1] = Gone + 1
           /\ writes[1].msg = Gone + 1
           /\ Gone \in Nat /\ Gone + 1 \in 1..Len(accepted)
           /\ writes[1].next \in Byte
<1>1. i \in 1..Len(writes) /\ writes[1].next \in Byte
    <2>1. i \in 1..Len(writes) /\ 1 \in 1..Len(writes)
        BY Shapes
    <2>2. writes[1] \in WriteOps
        BY <2>1, Shapes
    <2> QED BY <2>1, <2>2 DEF WriteOps
<1>2. i = 1 /\ Len(writes) = 1 /\ writes # <<>>
    BY <1>1, Shapes DEF SendInv, OneWrite
<1>3. Started /\ sendBuffer # <<>> /\ writes[1].msg = Gone + 1
    BY <1>2 DEF SendInv, Unused, OneWrite
<1>4. sendBuffer[1] = Gone + 1 /\ Gone \in Nat /\ Gone + 1 \in 1..Len(accepted)
    BY <1>3, Shapes DEF SendInv, QueueConsecutive, Gone
<1> QED BY <1>1, <1>2, <1>3, <1>4

\* The next byte on the wire is the next byte of the frame being written.
LEMMA WriteByteInv ==
    ASSUME SendTypeOK, SendInv, NEW i \in DOMAIN writes, WriteByte(i)
    PROVE  SendInv'
<1> DEFINE op == writes[1]
<1>0. /\ socket = "open" /\ op.status = "busy"
      /\ UNCHANGED <<socket, outcome, slots, pc, sendBuffer, sendStart, accepted, failed>>
    BY PendingWrite DEF WriteByte, stopVars
<1>1. UNCHANGED <<Gone, Started>>
    BY <1>0 DEF Gone, Started
<1>2. wire' = Append(wire, op.next)
    <2>1. 1 \in DOMAIN sendBuffer
        BY PendingWrite DEF SendTypeOK
    <2> QED BY <2>1, PendingWrite DEF WriteByte
<1>3. /\ Len(wire') = Len(wire) + 1 /\ wire' # <<>>
      /\ wire'[Len(wire) + 1] = op.next
      /\ \A k \in 1..Len(wire) : wire'[k] = wire[k]
    <2>1. wire \in Seq(Byte)
        BY DEF SendTypeOK
    <2> QED BY <1>2, <2>1, PendingWrite, AppendProperties
<1>4. InFrame(op)
    BY <1>0, PendingWrite DEF SendInv, Position
<1>5. op.next[1] = Gone + 1 /\ op.next \in Byte
    BY <1>0, <1>4, PendingWrite DEF InFrame
<1>6. WireInOrder'
    <2>1. SUFFICES ASSUME NEW k \in 1..(Len(wire) + 1)
                   PROVE  /\ wire'[k][1] \in 1..Len(accepted)
                          /\ IF k = 1 THEN wire'[k] = FirstByte(1)
                             ELSE Follows(wire'[k - 1], wire'[k])
        BY <1>0, <1>3 DEF WireInOrder, Follows, FirstByte, ByteAfter, IsDelimiter
    <2>2. CASE k \in 1..Len(wire)
        <3>1. k # 1 => k - 1 \in 1..Len(wire)
            BY <2>2, Shapes
        <3> QED BY <1>3, <2>2, <3>1 DEF SendInv, WireInOrder
    <2>3. CASE k = Len(wire) + 1
        <3>1. wire'[k] = op.next
            BY <1>3, <2>3
        <3>2. wire = <<>> => k = 1
            BY <2>3, Shapes
        <3>3. wire # <<>> => k # 1 /\ k - 1 = Len(wire) /\ k - 1 \in 1..Len(wire)
            BY <2>3, Shapes
        <3> QED BY <1>0, <1>3, <1>4, <1>5, <3>1, <3>2, <3>3, PendingWrite DEF InFrame
    <2> QED BY <2>2, <2>3, Shapes
<1>7. OnWire(Gone + 1)' \/ ~IsDelimiter(op.next)
    <2>1. ASSUME IsDelimiter(op.next) PROVE op.next = <<Gone + 1, 0>>
        BY <1>5, <2>1 DEF IsDelimiter, Byte
    <2> QED BY <1>1, <1>3, <2>1, Shapes DEF OnWire
<1>8. GoneAccounted'
    <2>1. \A n : OnWire(n) => OnWire(n)'
        BY <1>3, Shapes DEF OnWire
    <2> QED BY <1>0, <1>1, <2>1 DEF SendInv, GoneAccounted
<1>9. /\ Len(writes') = 1 /\ writes' # <<>>
      /\ writes'[1] = IF IsDelimiter(op.next)
                      THEN [op EXCEPT !.status = "ok"]
                      ELSE [op EXCEPT !.next = ByteAfter(op.next)]
    <2>1. writes \in Seq(WriteOps)
        BY DEF SendTypeOK
    <2>2. writes' = IF IsDelimiter(op.next)
                    THEN [writes EXCEPT ![1] = [op EXCEPT !.status = "ok"]]
                    ELSE [writes EXCEPT ![1] = [op EXCEPT !.next = ByteAfter(op.next)]]
        BY PendingWrite DEF WriteByte
    <2> QED BY <2>1, <2>2, PendingWrite
<1>10. op \in WriteOps
    <2>1. writes \in Seq(WriteOps)
        BY DEF SendTypeOK
    <2>2. 1 \in 1..Len(writes)
        BY PendingWrite
    <2> QED BY <2>1, <2>2
<1>11. Unused' /\ Connected' /\ QueueConsecutive' /\ NoStranded'
    BY <1>0, <1>1, <1>9, PendingWrite
    DEF SendInv, Unused, Connected, QueueConsecutive, NoStranded
<1>12. OneWrite'
    BY <1>0, <1>1, <1>9, <1>10, PendingWrite DEF SendInv, OneWrite
<1>13. Written' /\ Position'
    <2>1. CASE IsDelimiter(op.next)
        <3>1. writes'[1].status = "ok"
            BY <1>9, <1>10, <2>1
        <3>2. op.next = <<Gone + 1, 0>>
            BY <1>5, <2>1 DEF IsDelimiter, Byte
        <3> QED
            BY <1>1, <1>3, <1>7, <1>9, <2>1, <3>1, <3>2
            DEF Written, Position, InFrame
    <2>2. CASE ~IsDelimiter(op.next)
        <3>1. writes'[1].status = "busy" /\ writes'[1].next = ByteAfter(op.next)
            BY <1>0, <1>9, <1>10, <2>2
        <3>2. ByteAfter(op.next)[1] = Gone + 1
            BY <1>5 DEF ByteAfter
        <3>3. wire' # <<>> /\ wire'[Len(wire')] = op.next
            BY <1>3
        <3> QED
            BY <1>1, <1>9, <2>2, <3>1, <3>2, <3>3
            DEF Written, Position, InFrame, Follows, ByteAfter, IsDelimiter
    <2> QED BY <2>1, <2>2
<1> QED BY <1>6, <1>8, <1>11, <1>12, <1>13 DEF SendInv

\* A write fails on a socket that takes no more bytes.
LEMMA WriteFailInv ==
    ASSUME SendTypeOK, SendInv, NEW i \in DOMAIN writes, WriteFail(i)
    PROVE  SendInv'
<1>0. /\ socket # "open" /\ i = 1
      /\ UNCHANGED <<socket, outcome, slots, pc, sendBuffer, sendStart, accepted, wire, failed>>
    BY PendingWrite DEF WriteFail, stopVars
<1>1. UNCHANGED <<Gone, Started>>
    BY <1>0 DEF Gone, Started
<1>2. /\ Len(writes') = 1 /\ writes' # <<>>
      /\ writes'[1] = [writes[1] EXCEPT !.status = "error"]
    <2>1. writes \in Seq(WriteOps) /\ 1 \in 1..Len(writes)
        BY PendingWrite DEF SendTypeOK
    <2> QED BY <1>0, <2>1, PendingWrite DEF WriteFail
<1>3. writes'[1].status = "error" /\ writes'[1].msg = writes[1].msg
    <2>1. writes[1] \in WriteOps
        BY PendingWrite, Shapes
    <2> QED BY <1>2, <2>1 DEF WriteOps
<1>4. Unused' /\ Connected' /\ QueueConsecutive' /\ NoStranded'
    BY <1>0, <1>1, <1>2, PendingWrite
    DEF SendInv, Unused, Connected, QueueConsecutive, NoStranded
<1>5. OneWrite' /\ Written' /\ Position'
    BY <1>0, <1>1, <1>2, <1>3, PendingWrite DEF SendInv, OneWrite, Written, Position
<1>6. GoneAccounted' /\ WireInOrder'
    BY <1>0, <1>1
    DEF SendInv, GoneAccounted, WireInOrder, OnWire, Follows, FirstByte,
        ByteAfter, IsDelimiter
<1> QED BY <1>4, <1>5, <1>6 DEF SendInv

\* handle_write: the message at the front is on the wire or reported, and
\* the next one starts where its frame ended.
LEMMA HandleWriteInv ==
    ASSUME SendTypeOK, SendInv, NEW i \in DOMAIN writes, HandleWrite(i)
    PROVE  SendInv'
<1>0. /\ i = 1 /\ writes[1].status # "busy"
      /\ UNCHANGED <<socket, outcome, slots, pc, accepted, wire>>
    BY PendingWrite DEF HandleWrite, stopVars
<1>1. RemoveAt(writes, i) = <<>>
    <2>1. writes \in Seq(WriteOps) /\ i \in 1..Len(writes)
        BY Shapes DEF SendTypeOK
    <2>2. /\ RemoveAt(writes, i) \in Seq(WriteOps)
          /\ Len(RemoveAt(writes, i)) = Len(writes) - 1
        BY <2>1, RemoveAtType
    <2>3. Len(RemoveAt(writes, i)) = 0
        BY <2>2, PendingWrite
    <2> QED BY <2>2, <2>3
<1>2. /\ sendBuffer' = Tail(sendBuffer)
      /\ sendStart' = (sendBuffer' # <<>> /\ sendStart)
      /\ writes' = IF sendBuffer' = <<>> THEN <<>>
                   ELSE <<WriteOp(Head(sendBuffer'))>>
    BY <1>1, PendingWrite DEF HandleWrite, AsyncWriteNext, WriteFront
<1>3. /\ Len(sendBuffer') = Len(sendBuffer) - 1
      /\ \A j \in 1..Len(sendBuffer') : sendBuffer'[j] = sendBuffer[j + 1]
      /\ sendBuffer' = <<>> <=> Len(sendBuffer') = 0
      /\ sendBuffer' # <<>> => Head(sendBuffer') = sendBuffer'[1]
    <2>1. sendBuffer \in Seq(1..Len(accepted))
        BY DEF SendTypeOK
    <2>2. sendBuffer' \in Seq(1..Len(accepted))
        BY <1>2, <2>1, PendingWrite, HeadTailProperties
    <2>3. /\ Len(sendBuffer') = Len(sendBuffer) - 1
          /\ \A j \in 1..Len(sendBuffer') : sendBuffer'[j] = sendBuffer[j + 1]
        BY <1>2, <2>1, PendingWrite, HeadTailProperties
    <2>4. /\ sendBuffer' = <<>> <=> Len(sendBuffer') = 0
          /\ sendBuffer' # <<>> => Head(sendBuffer') = sendBuffer'[1]
        BY <2>2
    <2> QED BY <2>3, <2>4
<1>4. Gone' = Gone + 1 /\ Started' = Started
    BY <1>0, <1>3, Shapes DEF Gone, Started
<1>5. QueueConsecutive'
    <2>1. ASSUME NEW j \in 1..Len(sendBuffer') PROVE sendBuffer'[j] = Gone' + j
        <3>1. j + 1 \in 1..Len(sendBuffer)
            BY <1>3, Shapes
        <3>2. sendBuffer[j + 1] = Gone + (j + 1)
            BY <3>1 DEF SendInv, QueueConsecutive
        <3> QED BY <1>3, <1>4, <3>2, PendingWrite
    <2> QED BY <1>4, <2>1, PendingWrite DEF QueueConsecutive
<1>6. sendBuffer' # <<>> =>
          /\ Len(writes') = 1 /\ writes' # <<>>
          /\ writes'[1].status = "busy" /\ writes'[1].msg = Gone' + 1
          /\ writes'[1].next = <<Gone' + 1, Size[accepted[Gone' + 1]]>>
    <2>1. SUFFICES ASSUME sendBuffer' # <<>>
                   PROVE  /\ Len(writes') = 1 /\ writes' # <<>>
                          /\ writes'[1].status = "busy" /\ writes'[1].msg = Gone' + 1
                          /\ writes'[1].next = <<Gone' + 1, Size[accepted[Gone' + 1]]>>
        OBVIOUS
    <2>2. 1 \in 1..Len(sendBuffer')
        BY <1>3, <2>1, Shapes
    <2>3. Head(sendBuffer') = Gone' + 1
        BY <1>3, <1>5, <2>1, <2>2 DEF QueueConsecutive
    <2>4. writes' = <<WriteOp(Gone' + 1)>>
        BY <1>2, <2>1, <2>3
    <2> QED BY <2>4 DEF WriteOp, FirstByte
<1>7. sendBuffer' = <<>> => writes' = <<>> /\ Len(writes') = 0
    BY <1>2
<1>8. Unused' /\ Connected'
    BY <1>0, <1>4, PendingWrite DEF SendInv, Unused, Connected
<1>9. OneWrite' /\ NoStranded' /\ Written'
    <2>1. sendStart = TRUE
        BY PendingWrite DEF SendInv, OneWrite, SendTypeOK
    <2>2. sendStart' <=> writes' # <<>>
        BY <1>2, <1>6, <1>7, <2>1, Zenon
    <2>3. writes' # <<>> => sendBuffer' # <<>> /\ writes'[1].msg = Gone' + 1
        BY <1>6, <1>7
    <2>4. Len(writes') <= 1
        <3>1. CASE sendBuffer' = <<>>
            <4>1. Len(writes') = 0
                BY <1>7, <3>1
            <4> QED BY <4>1
        <3>2. CASE sendBuffer' # <<>>
            <4>1. Len(writes') = 1
                BY <1>6, <3>2
            <4> QED BY <4>1
        <3> QED BY <3>1, <3>2
    <2>5. OneWrite'
        BY <2>2, <2>3, <2>4 DEF OneWrite
    <2>6. NoStranded' /\ Written'
        BY <1>6, <1>7 DEF NoStranded, Written
    <2> QED BY <2>5, <2>6
<1>10. GoneAccounted'
    <2>1. ASSUME NEW n \in 1..(Gone + 1)
          PROVE  OnWire(n) \/ n \in failed' \/ ~slots
        <3>1. failed \subseteq failed'
            BY DEF HandleWrite, ReportError
        <3>2. CASE n \in 1..Gone
            BY <3>1, <3>2 DEF SendInv, GoneAccounted
        <3>3. CASE n = Gone + 1 /\ writes[1].status = "ok"
            BY <3>3, PendingWrite DEF SendInv, Written
        <3>4. CASE n = Gone + 1 /\ writes[1].status = "error"
            BY <1>0, <3>4, PendingWrite DEF HandleWrite, ReportError
        <3>5. writes[1].status \in {"ok", "error"}
            BY <1>0, PendingWrite, Shapes DEF WriteOps, Status
        <3> QED BY <3>2, <3>3, <3>4, <3>5, PendingWrite
    <2> QED BY <1>0, <1>4, <2>1 DEF GoneAccounted, OnWire
<1>11. WireInOrder'
    BY <1>0 DEF SendInv, WireInOrder, Follows, FirstByte, ByteAfter, IsDelimiter
<1>12. Position'
    <2>1. SUFFICES ASSUME socket = "open" PROVE Position'
        BY <1>0 DEF Position
    <2>2. wire # <<>> /\ wire[Len(wire)] = <<Gone + 1, 0>>
        <3>1. writes[1].status \in {"ok", "error"}
            BY <1>0, PendingWrite, Shapes DEF WriteOps, Status
        <3> QED BY <2>1, <3>1, PendingWrite DEF SendInv, Position, InFrame
    <2>3. CASE sendBuffer' = <<>>
        BY <1>0, <1>4, <1>7, <2>2, <2>3 DEF Position, BetweenFrames
    <2>4. CASE sendBuffer' # <<>>
        BY <1>0, <1>4, <1>6, <2>2, <2>4
        DEF Position, InFrame, Follows, FirstByte, IsDelimiter
    <2> QED BY <2>3, <2>4
<1> QED BY <1>5, <1>8, <1>9, <1>10, <1>11, <1>12 DEF SendInv

\* Every step of a connection that is used once it has started.
LEMMA SendInvStep ==
    ASSUME EarlyUse = FALSE, SendTypeOK, SendInv, [Next]_vars
    PROVE  SendInv'
<1>1. CASE KernelConnect
    BY <1>1, SocketStep DEF KernelConnect, SendInv, Connected, SendTypeOK, stopVars
<1>2. CASE HandleConnect
    BY <1>2, HandleConnectInv
<1>3. ASSUME NEW t \in Thread, SendPush(t) PROVE SendInv'
    BY <1>3, SendPushInv
<1>4. ASSUME NEW t \in Thread, AsyncWriteInit(t) PROVE SendInv'
    BY <1>4, AsyncWriteInitInv
<1>5. ASSUME NEW i \in DOMAIN writes, WriteByte(i) PROVE SendInv'
    BY <1>5, WriteByteInv
<1>6. ASSUME NEW i \in DOMAIN writes, WriteFail(i) PROVE SendInv'
    BY <1>6, WriteFailInv
<1>7. ASSUME NEW i \in DOMAIN writes, HandleWrite(i) PROVE SendInv'
    BY <1>7, HandleWriteInv
<1>8. CASE CloseSocket
    BY <1>8, SocketStep DEF CloseSocket
<1>9. CASE ConnectionBreaks
    BY <1>9, SocketStep DEF ConnectionBreaks, SendTypeOK, stopVars
<1>10. CASE \/ ReadSome \/ ReadFail \/ ReadHandler \/ PeerSends \/ PeerCloses
            \/ \E t \in Thread : Stop(t)
            \/ UNCHANGED vars
    <2>1. UNCHANGED <<socket, outcome, slots, sendVars>>
        BY <1>10 DEF ReadSome, ReadFail, ReadHandler, HandleRead, AnnounceMessage,
           Rearm, HandleReadError, PeerSends, PeerCloses, Stop, vars, stopVars
    <2> QED BY <2>1, SendInvUnchanged
<1> QED
    BY <1>1, <1>2, <1>3, <1>4, <1>5, <1>6, <1>7, <1>8, <1>9, <1>10
    DEF Next, WriteStep, WriteHandler
----------------------------------------------------------------------------
(* What the application may rely on *)

\* It holds of a new connection.
LEMMA SendInvInit ==
    ASSUME SendInit, socket \in {"connecting", "open"}
    PROVE  SendTypeOK /\ SendInv
BY DEF SendInit, SendTypeOK, WriteOps, SendInv, Unused, Connected,
   QueueConsecutive, OneWrite, NoStranded, Position, Written,
   GoneAccounted, WireInOrder, Started, BetweenFrames, Gone

\* The invariant holds of every connection used once it has started.
LEMMA SendInvCorrect ==
    ASSUME EarlyUse = FALSE PROVE Spec => [](SendTypeOK /\ SendInv)
<1>1. Init => SendTypeOK /\ SendInv
    BY SendInvInit DEF Init
<1>2. SendTypeOK /\ SendInv /\ [Next]_vars => (SendTypeOK /\ SendInv)'
    BY SendTypeStep, SendInvStep
<1> QED BY <1>1, <1>2, PTL DEF Spec

\* The peer's stream is a prefix of the frames in queue order, whatever the
\* threads, the messages and the failures of the socket.
THEOREM SendOrder == ASSUME EarlyUse = FALSE PROVE Spec => []WireInOrder
<1>1. SendInv => WireInOrder
    BY DEF SendInv
<1> QED BY <1>1, SendInvCorrect, PTL

\* One async_write at a time, of the front of sendBuffer.
THEOREM OneWriteAtATime == ASSUME EarlyUse = FALSE PROVE Spec => []WriteIsFront
<1>1. SendTypeOK /\ SendInv => WriteIsFront
    <2> SUFFICES ASSUME SendTypeOK, SendInv, NEW i \in 1..Len(writes)
                 PROVE  i = 1 /\ sendBuffer # <<>> /\ writes[i].msg = sendBuffer[1]
        BY DEF WriteIsFront
    <2>2. i \in DOMAIN writes
        BY Shapes
    <2>3. i = 1 /\ sendBuffer # <<>> /\ writes[1].msg = Gone + 1
        BY <2>2, PendingWrite
    <2>4. sendBuffer[1] = Gone + 1
        BY <2>2, PendingWrite
    <2> QED BY <2>3, <2>4
<1> QED BY <1>1, SendInvCorrect, PTL

\* send() never leaves a message that nobody writes.
THEOREM NoLostWakeup == ASSUME EarlyUse = FALSE PROVE Spec => []NoStranded
<1>1. SendInv => NoStranded
    BY DEF SendInv
<1> QED BY <1>1, SendInvCorrect, PTL

\* A message leaves the queue only on the wire or through onSendError.
THEOREM SendAccounted == ASSUME EarlyUse = FALSE PROVE Spec => []NoSilentLoss
<1>1. SendTypeOK /\ SendInv => NoSilentLoss
    <2> SUFFICES ASSUME SendTypeOK, SendInv, NEW n \in 1..Len(accepted)
                 PROVE  \/ \E j \in 1..Len(sendBuffer) : sendBuffer[j] = n
                        \/ OnWire(n) \/ n \in failed \/ ~slots
        BY DEF NoSilentLoss
    <2>2. n \in Int /\ Gone \in Int /\ n >= 1 /\ n <= Len(accepted)
        BY Shapes
    <2>3. CASE n <= Gone
        <3>1. n \in 1..Gone
            BY <2>2, <2>3
        <3> QED BY <3>1 DEF SendInv, GoneAccounted
    <2>4. CASE n > Gone
        <3>1. n - Gone \in 1..Len(sendBuffer)
            BY <2>2, <2>4, Shapes DEF Gone
        <3>2. sendBuffer[n - Gone] = Gone + (n - Gone)
            BY <3>1 DEF SendInv, QueueConsecutive
        <3>3. Gone + (n - Gone) = n
            BY <2>2
        <3> QED BY <3>1, <3>2, <3>3
    <2> QED BY <2>2, <2>3, <2>4
<1> QED BY <1>1, SendInvCorrect, PTL
----------------------------------------------------------------------------
(* Texts: what decode_message makes of a byte string, one byte at a time *)

LEMMA MaxOfSome ==
    ASSUME NEW n \in Nat, NEW D \in SUBSET (1..n), D # {}
    PROVE  Max(D) \in D /\ \A i \in D : i <= Max(D)
<1> DEFINE HasMax(E) == \E x \in E : \A y \in E : x >= y
           S == {k \in Nat : \A E \in SUBSET (1..k) : E # {} => HasMax(E)}
<1>1. 0 \in S
    <2>1. \A E \in SUBSET (1..0) : E = {}
        OBVIOUS
    <2> QED BY <2>1
<1>2. ASSUME NEW k \in Nat, k \in S PROVE k + 1 \in S
    <2> SUFFICES ASSUME NEW E \in SUBSET (1 .. k + 1), E # {} PROVE HasMax(E)
        OBVIOUS
    <2>1. CASE k + 1 \in E
        <3>1. \A y \in E : k + 1 >= y
            OBVIOUS
        <3> QED BY <2>1, <3>1
    <2>2. CASE k + 1 \notin E
        <3>1. E \in SUBSET (1..k)
            BY <2>2
        <3> QED BY <1>2, <3>1
    <2> QED BY <2>1, <2>2
<1> HIDE DEF S
<1>3. \A k \in Nat : k \in S
    BY <1>1, <1>2, Induction, Zenon
<1>4. HasMax(D)
    BY <1>3 DEF S
<1> QED BY <1>4 DEF Max


\* What is cut off is typed, and holds no delimiter.
LEMMA UnreceivedType ==
    ASSUME NEW msg \in Seq(Byte)
    PROVE  /\ UnreceivedPart(msg) \in Seq(Byte)
           /\ Len(UnreceivedPart(msg)) <= Len(msg)
           /\ Delimiters(UnreceivedPart(msg)) = {}
<1>1. CASE Delimiters(msg) = {}
    BY <1>1 DEF UnreceivedPart
<1>2. CASE Delimiters(msg) # {}
    <2>1. PICK d : d = Max(Delimiters(msg))
        OBVIOUS
    <2>2. d \in Delimiters(msg) /\ \A i \in Delimiters(msg) : i <= d
        <3>1. Delimiters(msg) \in SUBSET (1..Len(msg)) /\ Len(msg) \in Nat
            BY DEF Delimiters
        <3> QED BY <1>2, <2>1, <3>1, MaxOfSome, Zenon
    <2>3. d \in 1..Len(msg)
        BY <2>2 DEF Delimiters
    <2>4. PICK u : u = SubSeq(msg, d + 1, Len(msg))
        OBVIOUS
    <2>5. /\ u \in Seq(Byte)
          /\ Len(u) = Len(msg) - d
          /\ \A i \in 1 .. Len(msg) - d : u[i] = msg[d + i]
        <3>1. \A i \in d + 1 .. Len(msg) : msg[i] \in Byte
            BY <2>3
        <3> QED BY <2>3, <2>4, <3>1, SubSeqProperties
    <2>6. ASSUME NEW i \in 1..Len(u) PROVE ~IsDelimiter(u[i])
        <3>1. d + i \in 1..Len(msg) /\ ~(d + i <= d) /\ u[i] = msg[d + i]
            BY <2>3, <2>5
        <3>2. d + i \notin Delimiters(msg)
            BY <2>2, <3>1
        <3> QED BY <3>1, <3>2 DEF Delimiters
    <2>7. UnreceivedPart(msg) = u
        BY <1>2, <2>1, <2>4 DEF UnreceivedPart
    <2>8. Delimiters(u) = {}
        BY <2>5, <2>6 DEF Delimiters
    <2> QED BY <2>3, <2>5, <2>7, <2>8
<1> QED BY <1>1, <1>2

LEMMA DelimitersAppend ==
    ASSUME NEW msg \in Seq(Byte), NEW b \in Byte
    PROVE  Delimiters(Append(msg, b)) =
               IF IsDelimiter(b) THEN Delimiters(msg) \cup {Len(msg) + 1}
               ELSE Delimiters(msg)
<1>1. PICK a : a = Append(msg, b)
    OBVIOUS
<1>2. /\ DOMAIN a = 1 .. Len(msg) + 1
      /\ \A j \in 1..Len(msg) : a[j] = msg[j]
      /\ a[Len(msg) + 1] = b
      /\ DOMAIN msg = 1..Len(msg)
      /\ Len(msg) \in Nat
    BY <1>1
<1>3. \A i : i \in Delimiters(a) <=>
               i \in (IF IsDelimiter(b) THEN Delimiters(msg) \cup {Len(msg) + 1}
                      ELSE Delimiters(msg))
    <2> TAKE i
    <2>1. CASE i = Len(msg) + 1
        BY <1>2, <2>1 DEF Delimiters
    <2>2. CASE i # Len(msg) + 1
        <3>1. i \in DOMAIN a <=> i \in DOMAIN msg
            BY <1>2, <2>2
        <3> QED BY <1>2, <2>2, <3>1 DEF Delimiters
    <2> QED BY <2>1, <2>2
<1> QED BY <1>1, <1>3

\* A delimiter ends what had not arrived; any other byte joins it.
LEMMA UnreceivedAppend ==
    ASSUME NEW msg \in Seq(Byte), NEW b \in Byte
    PROVE  UnreceivedPart(Append(msg, b)) =
               IF IsDelimiter(b) THEN <<>> ELSE Append(UnreceivedPart(msg), b)
<1>1. PICK a : a = Append(msg, b)
    OBVIOUS
<1>2. a \in Seq(Byte) /\ Len(a) = Len(msg) + 1 /\ Len(msg) \in Nat
    BY <1>1
<1>3. Delimiters(msg) \in SUBSET (1..Len(msg)) /\ Delimiters(a) \in SUBSET (1..Len(a))
    BY <1>2 DEF Delimiters
<1>4. CASE IsDelimiter(b)
    <2>1. Len(a) \in Delimiters(a)
        BY <1>1, <1>2, <1>4, DelimitersAppend
    <2>2. PICK d : d = Max(Delimiters(a))
        OBVIOUS
    <2>3. d = Len(a)
        <3>1. d \in Delimiters(a) /\ \A i \in Delimiters(a) : i <= d
            <4>1. Len(a) \in Nat /\ Delimiters(a) # {}
                BY <1>2, <2>1
            <4> QED BY <1>3, <2>2, <4>1, MaxOfSome, Zenon
        <3> QED BY <1>2, <1>3, <2>1, <3>1
    <2>4. SubSeq(a, d + 1, Len(a)) = <<>>
        BY <1>2, <2>3, SubSeqEmpty
    <2> QED BY <1>1, <1>4, <2>1, <2>2, <2>4 DEF UnreceivedPart
<1>5. CASE ~IsDelimiter(b)
    <2>1. Delimiters(a) = Delimiters(msg)
        BY <1>1, <1>5, DelimitersAppend
    <2>2. CASE Delimiters(msg) = {}
        BY <1>1, <1>5, <2>1, <2>2 DEF UnreceivedPart
    <2>3. CASE Delimiters(msg) # {}
        <3>1. PICK d : d = Max(Delimiters(msg))
            OBVIOUS
        <3>2. d \in 1..Len(msg)
            BY <1>2, <1>3, <2>3, <3>1, MaxOfSome
        <3>3. SubSeq(a, d + 1, Len(msg) + 1) = Append(SubSeq(msg, d + 1, Len(msg)), b)
            <4>1. d + 1 \in 1 .. Len(msg) + 1
                BY <1>2, <3>2
            <4> QED BY <1>1, <4>1, SubSeqAppend, Zenon
        <3>4. UnreceivedPart(a) = SubSeq(a, d + 1, Len(msg) + 1)
            BY <1>2, <2>1, <2>3, <3>1 DEF UnreceivedPart
        <3>5. UnreceivedPart(msg) = SubSeq(msg, d + 1, Len(msg))
            BY <2>3, <3>1 DEF UnreceivedPart
        <3> QED BY <1>1, <1>5, <3>3, <3>4, <3>5
    <2> QED BY <2>2, <2>3
<1> QED BY <1>4, <1>5

\* The texts before the last byte are those of the message without it.
LEMMA TextBeforeAppend ==
    ASSUME NEW msg \in Seq(Byte), NEW b \in Byte, NEW i \in 1 .. Len(msg) + 1
    PROVE  /\ TextBefore(Append(msg, b), i) = TextBefore(msg, i)
           /\ TextBefore(msg, Len(msg) + 1) = UnreceivedPart(msg)
           /\ TextBefore(msg, i) \in Seq(Byte)
<1>1. SubSeq(Append(msg, b), 1, i - 1) = SubSeq(msg, 1, i - 1)
    BY SubSeqAppend, Zenon
<1>2. SubSeq(msg, 1, (Len(msg) + 1) - 1) = msg
    <2>1. (Len(msg) + 1) - 1 = Len(msg)
        OBVIOUS
    <2> QED BY <2>1, SubSeqFull
<1>3. SubSeq(msg, 1, i - 1) \in Seq(Byte)
    <2>1. \A j \in 1 .. i - 1 : msg[j] \in Byte
        OBVIOUS
    <2> QED BY <2>1, SubSeqProperties
<1> QED BY <1>1, <1>2, <1>3, UnreceivedType DEF TextBefore

\* DecodeMessage as a Selection of all positions before the end.
LEMMA DecodeSelects ==
    ASSUME NEW msg, NEW v, NEW K,
           K = {i \in Delimiters(msg) : Decodable(TextBefore(msg, i))},
           \A i \in K : v[i] = TextBefore(msg, i),
           Len(msg) \in Nat
    PROVE  DecodeMessage(msg) = Selection(Len(msg), K, v)
<1> DEFINE text == [i \in Delimiters(msg) |-> TextBefore(msg, i)]
           L == {i \in DOMAIN text : Decodable(text[i])}
<1>1. \A i \in 1..Len(msg) : (i \in L <=> i \in K) /\ (i \in L => text[i] = v[i])
    OBVIOUS
<1>2. DecodeMessage(msg) = Selection(Len(msg), L, text)
    BY DEF DecodeMessage
<1> HIDE DEF L, text
<1> QED BY <1>1, <1>2, SelectionSame

LEMMA DecodeType ==
    ASSUME NEW msg \in Seq(Byte)
    PROVE  DecodeMessage(msg) \in Seq({t \in Seq(Byte) : Decodable(t)})
<1> DEFINE K == {i \in Delimiters(msg) : Decodable(TextBefore(msg, i))}
           v == [i \in Delimiters(msg) |-> TextBefore(msg, i)]
           T == {t \in Seq(Byte) : Decodable(t)}
<1>1. \A i \in K : v[i] = TextBefore(msg, i)
    OBVIOUS
<1>2. \A i \in 1..Len(msg) : i \in K => v[i] \in T
    <2> SUFFICES ASSUME NEW i \in 1..Len(msg), i \in K PROVE v[i] \in T
        OBVIOUS
    <2>1. TextBefore(msg, i) \in Seq(Byte)
        <3>1. <<0, 0>> \in Byte /\ i \in 1 .. Len(msg) + 1
            BY DEF Byte
        <3> QED BY <3>1, TextBeforeAppend
    <2> QED BY <2>1
<1>3. Len(msg) \in Nat
    OBVIOUS
<1> HIDE DEF v, T
<1>4. DecodeMessage(msg) = Selection(Len(msg), K, v)
    BY <1>1, <1>3, DecodeSelects
<1> HIDE DEF K
<1>5. Selection(Len(msg), K, v) \in Seq(T)
    BY <1>2, <1>3, SelectionType
<1> QED BY <1>4, <1>5 DEF T

\* A delimiter makes a message of the text it ends, if there is one.
LEMMA DecodeAppend ==
    ASSUME NEW msg \in Seq(Byte), NEW b \in Byte
    PROVE  DecodeMessage(Append(msg, b)) =
               IF IsDelimiter(b) /\ Decodable(UnreceivedPart(msg))
               THEN Append(DecodeMessage(msg), UnreceivedPart(msg))
               ELSE DecodeMessage(msg)
<1>1. PICK a : a = Append(msg, b)
    OBVIOUS
<1>2. Len(a) = Len(msg) + 1 /\ Len(msg) \in Nat
    BY <1>1
<1> DEFINE n == Len(msg)
           K == {i \in Delimiters(a) : Decodable(TextBefore(a, i))}
           L == {i \in Delimiters(msg) : Decodable(TextBefore(msg, i))}
           v == [i \in Delimiters(a) |-> TextBefore(a, i)]
<1>3. \A i \in 1 .. n + 1 : TextBefore(a, i) = TextBefore(msg, i)
    BY <1>1, TextBeforeAppend
<1>4. TextBefore(a, n + 1) = UnreceivedPart(msg)
    <2>1. n + 1 \in 1 .. Len(msg) + 1
        BY <1>2
    <2>2. TextBefore(msg, Len(msg) + 1) = UnreceivedPart(msg)
        BY <2>1, TextBeforeAppend
    <2> QED BY <1>3, <2>1, <2>2
<1>5. Delimiters(a) = IF IsDelimiter(b) THEN Delimiters(msg) \cup {n + 1} ELSE Delimiters(msg)
    BY <1>1, DelimitersAppend
<1>6. Delimiters(msg) \subseteq 1..n
    BY DEF Delimiters
<1>7. \A i \in 1..n : (i \in K <=> i \in L) /\ (i \in L => v[i] = TextBefore(msg, i))
    BY <1>2, <1>3, <1>5
<1>8. n + 1 \in K <=> IsDelimiter(b) /\ Decodable(UnreceivedPart(msg))
    BY <1>2, <1>4, <1>5, <1>6
<1>9. n + 1 \in K => v[n + 1] = UnreceivedPart(msg)
    BY <1>4
<1>10. DecodeMessage(a) = Selection(n + 1, K, v)
    <2>1. \A i \in K : v[i] = TextBefore(a, i)
        OBVIOUS
    <2> HIDE DEF v
    <2> QED BY <1>2, <2>1, DecodeSelects
<1>11. DecodeMessage(msg) = Selection(n, L, v)
    <2>1. \A i \in L : v[i] = TextBefore(msg, i)
        BY <1>6, <1>7
    <2> HIDE DEF v
    <2> QED BY <1>2, <2>1, DecodeSelects
<1> HIDE DEF K, L, v
<1>12. Selection(n, K, v) = Selection(n, L, v)
    BY <1>2, <1>7, SelectionSame
<1>13. Selection(n + 1, K, v) = IF n + 1 \in K THEN Append(Selection(n, K, v), v[n + 1])
                                ELSE Selection(n, K, v)
    BY <1>2, SelectionNext
<1> QED BY <1>1, <1>8, <1>9, <1>10, <1>11, <1>12, <1>13

\* Nothing is decoded of a text that is still incomplete.
LEMMA DecodeIncomplete ==
    ASSUME NEW msg \in Seq(Byte), Delimiters(msg) = {}
    PROVE  UnreceivedPart(msg) = msg /\ DecodeMessage(msg) = <<>>
<1>1. PICK v : v = [i \in {} |-> 0]
    OBVIOUS
<1>2. DecodeMessage(msg) = Selection(Len(msg), {}, v)
    <2>1. {} = {i \in Delimiters(msg) : Decodable(TextBefore(msg, i))} /\ Len(msg) \in Nat
        OBVIOUS
    <2>2. \A i \in {} : v[i] = TextBefore(msg, i)
        OBVIOUS
    <2> QED BY <2>1, <2>2, DecodeSelects
<1>3. Selection(Len(msg), {}, v) \in Seq({})
    <2>1. Len(msg) \in Nat /\ \A i \in 1..Len(msg) : i \in {} => v[i] \in {}
        OBVIOUS
    <2> QED BY <2>1, SelectionType
<1>4. \A s \in Seq({}) : s = <<>>
    OBVIOUS
<1> QED BY <1>2, <1>3, <1>4 DEF UnreceivedPart

\* handle_read may cut the stream anywhere: to decode c and, later, what c
\* left with the bytes m that follow is to decode c and m together.
Resumes(c, m) ==
    /\ UnreceivedPart(c \o m) = UnreceivedPart(UnreceivedPart(c) \o m)
    /\ DecodeMessage(c \o m) = DecodeMessage(c) \o DecodeMessage(UnreceivedPart(c) \o m)

LEMMA DecodeResumes ==
    ASSUME NEW c \in Seq(Byte)
    PROVE  \A m \in Seq(Byte) : Resumes(c, m)
<1>1. PICK u : u = UnreceivedPart(c)
    OBVIOUS
<1>2. u \in Seq(Byte) /\ Delimiters(u) = {}
    BY <1>1, UnreceivedType
<1> DEFINE Text == {t \in Seq(Byte) : Decodable(t)}
           S == {m \in Seq(Byte) : Resumes(c, m)}
<1>3. <<>> \in S
    <2>1. c \o <<>> = c /\ u \o <<>> = u
        BY <1>2, ConcatEmptySeq
    <2>2. UnreceivedPart(u) = u /\ DecodeMessage(u) = <<>>
        BY <1>2, DecodeIncomplete
    <2>3. DecodeMessage(c) \o <<>> = DecodeMessage(c)
        BY DecodeType, ConcatEmptySeq, Zenon
    <2>4. Resumes(c, <<>>)
        BY <1>1, <2>1, <2>2, <2>3 DEF Resumes
    <2> QED BY <2>4
<1>4. ASSUME NEW m \in Seq(Byte), NEW b \in Byte, m \in S
      PROVE  Append(m, b) \in S
    <2>0. Append(m, b) \in Seq(Byte)
        BY AppendProperties
    <2>1. c \o Append(m, b) = Append(c \o m, b) /\ u \o Append(m, b) = Append(u \o m, b)
        BY <1>2, ConcatAppend
    <2>2. PICK x, y : x = c \o m /\ y = u \o m
        OBVIOUS
    <2>3. x \in Seq(Byte) /\ y \in Seq(Byte)
        BY <1>2, <2>2, ConcatProperties
    <2>4. UnreceivedPart(x) = UnreceivedPart(y) /\ DecodeMessage(x) = DecodeMessage(c) \o DecodeMessage(y)
        BY <1>1, <1>4, <2>2 DEF Resumes
    <2>5. UnreceivedPart(Append(x, b)) = UnreceivedPart(Append(y, b))
        <3>1. UnreceivedPart(Append(x, b)) = IF IsDelimiter(b) THEN <<>> ELSE Append(UnreceivedPart(x), b)
            BY <2>3, UnreceivedAppend
        <3>2. UnreceivedPart(Append(y, b)) = IF IsDelimiter(b) THEN <<>> ELSE Append(UnreceivedPart(y), b)
            BY <2>3, UnreceivedAppend
        <3> QED BY <2>4, <3>1, <3>2
    <2>6. DecodeMessage(Append(x, b)) = DecodeMessage(c) \o DecodeMessage(Append(y, b))
        <3>1. PICK t : t = UnreceivedPart(y)
            OBVIOUS
        <3>2. DecodeMessage(Append(x, b)) = IF IsDelimiter(b) /\ Decodable(t)
                  THEN Append(DecodeMessage(x), t) ELSE DecodeMessage(x)
            BY <2>3, <2>4, <3>1, DecodeAppend
        <3>3. DecodeMessage(Append(y, b)) = IF IsDelimiter(b) /\ Decodable(t)
                  THEN Append(DecodeMessage(y), t) ELSE DecodeMessage(y)
            BY <2>3, <3>1, DecodeAppend
        <3>4. CASE IsDelimiter(b) /\ Decodable(t)
            <4>1. t \in Text
                BY <2>3, <3>1, <3>4, UnreceivedType
            <4>2. DecodeMessage(c) \in Seq(Text) /\ DecodeMessage(y) \in Seq(Text)
                BY <2>3, DecodeType
            <4> HIDE DEF Text
            <4>3. DecodeMessage(c) \o Append(DecodeMessage(y), t)
                      = Append(DecodeMessage(c) \o DecodeMessage(y), t)
                BY <4>1, <4>2, ConcatAppend
            <4> QED BY <2>4, <3>2, <3>3, <3>4, <4>3
        <3>5. CASE ~(IsDelimiter(b) /\ Decodable(t))
            BY <2>4, <3>2, <3>3, <3>5
        <3> QED BY <3>4, <3>5
    <2>7. Resumes(c, Append(m, b))
        BY <1>1, <2>1, <2>2, <2>5, <2>6 DEF Resumes
    <2> QED BY <2>0, <2>7
<1> HIDE DEF S
<1>5. \A m \in Seq(Byte) : m \in S
    BY <1>3, <1>4, SeqInduction, Zenon
<1> QED BY <1>5 DEF S
----------------------------------------------------------------------------
(* The inductive invariant of the reading half *)

\* What the streambuf holds is the last of what arrived in it.
Buffered ==
    /\ Len(message_) <= taken
    /\ message_ = SubSeq(incoming, taken - Len(message_) + 1, taken)

\* Nothing is read before start() has run.
Unread ==
    ~Started => /\ reading = "off" /\ taken = 0
                /\ partMessage = <<>> /\ message_ = <<>> /\ delivered = <<>>

\* Decoded messages wait only in the handler that decoded them.
Announcing == reading # "handling" => inbox = <<>>

ReadInv == ReadTypeOK /\ Buffered /\ Unread /\ Announcing /\ ChunkingIrrelevant

LEMMA ReadShapes ==
    ASSUME ReadInv
    PROVE  /\ Len(incoming) \in Nat /\ Len(message_) \in Nat /\ taken \in Nat
           /\ taken <= Len(incoming) /\ Len(message_) <= taken
           /\ Consumed \in Seq(Byte)
<1>1. /\ Len(incoming) \in Nat /\ Len(message_) \in Nat /\ taken \in Nat
      /\ taken <= Len(incoming) /\ Len(message_) <= taken
    BY DEF ReadInv, ReadTypeOK, Buffered
<1>2. \A i \in 1 .. taken - Len(message_) : incoming[i] \in Byte
    BY <1>1 DEF ReadInv, ReadTypeOK
<1>3. Consumed \in Seq(Byte)
    BY <1>1, <1>2, SubSeqProperties DEF Consumed
<1> QED BY <1>1, <1>3

\* More bytes may arrive, or the end of the stream, and the slots may be
\* disconnected: nothing of the reader changes.
LEMMA IncomingGrows ==
    ASSUME ReadInv, UNCHANGED <<outcome, readVars>>,
           \/ UNCHANGED incoming
           \/ \E b \in Byte : incoming' = Append(incoming, b),
           slots' => slots,
           peerClosed' \in BOOLEAN, closePosted' \in BOOLEAN, disconnected' \in BOOLEAN
    PROVE  ReadInv'
<1>1. /\ incoming' \in Seq(Byte) /\ Len(incoming') >= Len(incoming)
      /\ \A i \in 1..Len(incoming) : incoming[i] \in Byte /\ incoming'[i] = incoming[i]
    <2>1. incoming \in Seq(Byte)
        BY DEF ReadInv, ReadTypeOK
    <2>2. CASE UNCHANGED incoming
        BY <2>1, <2>2
    <2>3. ASSUME NEW b \in Byte, incoming' = Append(incoming, b)
          PROVE  <1>1!1
        BY <2>1, <2>3, AppendProperties
    <2> QED BY <2>2, <2>3
<1>2. ReadTypeOK'
    BY <1>1, ReadShapes DEF ReadInv, ReadTypeOK, readVars
<1>3. Buffered'
    <2>1. SubSeq(incoming, taken - Len(message_) + 1, taken)
              = SubSeq(incoming', taken - Len(message_) + 1, taken)
        <3>1. /\ taken - Len(message_) + 1 \in Int /\ taken \in Int
              /\ \A i \in taken - Len(message_) + 1 .. taken :
                     incoming[i] \in Byte /\ incoming'[i] = incoming[i]
            BY <1>1, ReadShapes
        <3> QED BY <3>1, SubSeqSame
    <2> QED BY <2>1 DEF ReadInv, Buffered, readVars
<1>4. Unread' /\ Announcing'
    BY DEF ReadInv, Unread, Announcing, Started, readVars
<1>5. ChunkingIrrelevant'
    <2>1. Consumed' = Consumed
        <3>1. /\ 1 \in Int /\ taken - Len(message_) \in Int
              /\ \A i \in 1 .. taken - Len(message_) :
                     incoming[i] \in Byte /\ incoming'[i] = incoming[i]
            BY <1>1, ReadShapes
        <3>2. SubSeq(incoming, 1, taken - Len(message_))
                  = SubSeq(incoming', 1, taken - Len(message_))
            BY <3>1, SubSeqSame
        <3> QED BY <3>2 DEF Consumed, readVars
    <2>2. UNCHANGED <<delivered, inbox, partMessage>>
        BY DEF readVars
    <2> QED BY <2>1, <2>2 DEF ReadInv, ChunkingIrrelevant
<1> QED BY <1>2, <1>3, <1>4, <1>5 DEF ReadInv

\* handle_connect: start() finds nothing read.
LEMMA HandleConnectRead ==
    ASSUME ReadInv, HandleConnect
    PROVE  ReadInv'
<1>1. /\ UNCHANGED <<message_, inbox, taken, delivered, incoming, peerClosed, slots,
                     closePosted, disconnected>>
      /\ partMessage = <<>> /\ partMessage' = <<>>
      /\ reading = "off" /\ reading' \in {"off", "armed"}
      /\ Started' \/ reading' = "off"
      /\ taken = 0 /\ message_ = <<>> /\ delivered = <<>>
    BY DEF HandleConnect, Start, Started, ReadInv, Unread, peerVars, stopVars
<1>2. ReadTypeOK'
    BY <1>1 DEF ReadInv, ReadTypeOK
<1>3. Buffered' /\ Unread' /\ Announcing'
    BY <1>1 DEF ReadInv, Buffered, Unread, Announcing
<1>4. ChunkingIrrelevant'
    BY <1>1 DEF ReadInv, ChunkingIrrelevant, Consumed
<1> QED BY <1>2, <1>3, <1>4 DEF ReadInv

\* async_read_until takes bytes: they are not consumed yet.
LEMMA ReadSomeRead ==
    ASSUME ReadInv, ReadSome
    PROVE  ReadInv'
<1>1. PICK k \in 1 .. Len(incoming) - taken :
          /\ message_' = message_ \o SubSeq(incoming, taken + 1, taken + k)
          /\ taken' = taken + k
    BY DEF ReadSome
<1>2. UNCHANGED <<outcome, partMessage, inbox, delivered, incoming, peerClosed, slots,
                  closePosted, disconnected>>
      /\ reading = "armed" /\ reading' \in {"armed", "ready"}
    BY DEF ReadSome, peerVars, stopVars
<1>3. PICK more : more = SubSeq(incoming, taken + 1, taken + k)
    OBVIOUS
<1>4. more \in Seq(Byte) /\ Len(more) = k
    <2>1. \A i \in taken + 1 .. taken + k : incoming[i] \in Byte
        BY ReadShapes DEF ReadInv, ReadTypeOK
    <2> QED BY <1>3, <2>1, ReadShapes, SubSeqProperties
<1>5. message_' \in Seq(Byte) /\ Len(message_') = Len(message_) + k
    BY <1>1, <1>3, <1>4, ConcatProperties DEF ReadInv, ReadTypeOK
<1>6. ReadTypeOK'
    BY <1>1, <1>2, <1>5, ReadShapes DEF ReadInv, ReadTypeOK
<1>7. Buffered'
    <2>1. PICK i \in Nat : i = taken - Len(message_) + 1
        BY ReadShapes
    <2>2. /\ i \in 1 .. Len(incoming) + 1
          /\ taken \in i - 1 .. Len(incoming)
          /\ taken + k \in taken .. Len(incoming)
        BY <2>1, ReadShapes
    <2>3. incoming \in Seq(Byte)
        BY DEF ReadInv, ReadTypeOK
    <2>4. SubSeq(incoming, i, taken) \o SubSeq(incoming, taken + 1, taken + k)
              = SubSeq(incoming, i, taken + k)
        BY <2>2, <2>3, ConcatAdjacentSubSeq
    <2>5. message_' = SubSeq(incoming, i, taken + k)
        BY <1>1, <2>1, <2>4 DEF ReadInv, Buffered
    <2>6. i = taken' - Len(message_') + 1 /\ Len(message_') <= taken'
        <3>1. taken' = taken + k /\ Len(message_') = Len(message_) + k /\ k \in Nat
            BY <1>1, <1>5, ReadShapes
        <3>2. taken \in Nat /\ Len(message_) \in Nat /\ Len(message_) <= taken
            BY ReadShapes
        <3> QED BY <2>1, <3>1, <3>2
    <2> QED BY <1>1, <1>2, <2>5, <2>6 DEF Buffered
<1>8. Unread' /\ Announcing'
    BY <1>2 DEF ReadInv, Unread, Announcing, Started
<1>9. Consumed' = Consumed
    <2>1. taken' - Len(message_') = taken - Len(message_)
        BY <1>1, <1>5, ReadShapes
    <2> QED BY <1>2, <2>1 DEF Consumed
<1>10. ChunkingIrrelevant'
    BY <1>2, <1>9 DEF ReadInv, ChunkingIrrelevant
<1> QED BY <1>6, <1>7, <1>8, <1>10 DEF ReadInv

\* handle_read consumes the streambuf, and has all of its messages to
\* announce.
LEMMA HandleReadRead ==
    ASSUME ReadInv, HandleRead
    PROVE  ReadInv'
<1>1. /\ inbox' = DecodeMessage(partMessage \o message_)
      /\ partMessage' = UnreceivedPart(partMessage \o message_)
      /\ message_' = <<>>
      /\ reading = "ready" /\ reading' = "handling"
      /\ UNCHANGED <<outcome, taken, delivered, incoming, peerClosed, slots,
                     closePosted, disconnected>>
    BY DEF HandleRead, ReadText, peerVars, stopVars
<1>2. PICK text : text = partMessage \o message_
    OBVIOUS
<1>3. text \in Seq(Byte)
    BY <1>2, ConcatProperties DEF ReadInv, ReadTypeOK
<1>4. inbox' \in Seq(Seq(Byte)) /\ partMessage' \in Seq(Byte)
    <2>1. DecodeMessage(text) \in Seq({t \in Seq(Byte) : Decodable(t)})
        BY <1>3, DecodeType
    <2>2. {t \in Seq(Byte) : Decodable(t)} \subseteq Seq(Byte)
        OBVIOUS
    <2>3. DecodeMessage(text) \in Seq(Seq(Byte))
        BY <2>1, <2>2, SeqWiden
    <2> QED BY <1>1, <1>2, <1>3, <2>3, UnreceivedType
<1>5. ReadTypeOK'
    BY <1>1, <1>4 DEF ReadInv, ReadTypeOK
<1>6. Buffered'
    <2>1. taken \in Nat /\ taken - 0 + 1 \in Int /\ taken < taken - 0 + 1
        BY ReadShapes
    <2>2. SubSeq(incoming, taken - 0 + 1, taken) = <<>>
        BY <2>1, SubSeqEmpty
    <2> QED BY <1>1, <2>1, <2>2 DEF Buffered
<1>7. Unread' /\ Announcing'
    BY <1>1 DEF ReadInv, Unread, Announcing, Started
<1>8. Consumed' = Consumed \o message_
    <2>1. PICK k \in Nat : k = taken - Len(message_)
        BY ReadShapes
    <2>2. 1 \in 1 .. Len(incoming) + 1 /\ k \in 1 - 1 .. Len(incoming) /\ taken \in k .. Len(incoming)
        BY <2>1, ReadShapes
    <2>3. incoming \in Seq(Byte)
        BY DEF ReadInv, ReadTypeOK
    <2>4. SubSeq(incoming, 1, k) \o SubSeq(incoming, k + 1, taken) = SubSeq(incoming, 1, taken)
        BY <2>2, <2>3, ConcatAdjacentSubSeq
    <2>5. Consumed = SubSeq(incoming, 1, k) /\ message_ = SubSeq(incoming, k + 1, taken)
        BY <2>1 DEF Consumed, ReadInv, Buffered
    <2>6. Consumed' = SubSeq(incoming, 1, taken)
        <3>1. taken - 0 = taken
            BY ReadShapes
        <3> QED BY <1>1, <3>1 DEF Consumed
    <2> QED BY <2>4, <2>5, <2>6
<1>9. ChunkingIrrelevant'
    <2> SUFFICES ASSUME slots'
                 PROVE  /\ delivered' \o inbox' = DecodeMessage(Consumed')
                        /\ partMessage' = UnreceivedPart(Consumed')
        BY DEF ChunkingIrrelevant
    <2>1. /\ delivered \o <<>> = DecodeMessage(Consumed)
          /\ partMessage = UnreceivedPart(Consumed)
        BY <1>1 DEF ReadInv, ChunkingIrrelevant, Announcing
    <2>2. delivered \o <<>> = delivered
        BY ConcatEmptySeq DEF ReadInv, ReadTypeOK
    <2>3. Consumed \in Seq(Byte) /\ message_ \in Seq(Byte)
        BY ReadShapes DEF ReadInv, ReadTypeOK
    <2>4. Resumes(Consumed, message_)
        BY <2>3, DecodeResumes
    <2> QED BY <1>1, <1>8, <2>1, <2>2, <2>4 DEF Resumes
<1> QED BY <1>5, <1>6, <1>7, <1>9 DEF ReadInv

LEMMA AnnounceMessageRead ==
    ASSUME ReadInv, AnnounceMessage
    PROVE  ReadInv'
<1>1. /\ reading = "handling" /\ inbox # <<>>
      /\ delivered' = IF slots THEN Append(delivered, Head(inbox)) ELSE delivered
      /\ inbox' = Tail(inbox)
      /\ UNCHANGED <<outcome, reading, partMessage, message_, taken, incoming, peerClosed,
                     slots, closePosted, disconnected>>
    BY DEF AnnounceMessage, peerVars, stopVars
<1>2. /\ Append(delivered, Head(inbox)) \in Seq(Seq(Byte)) /\ Tail(inbox) \in Seq(Seq(Byte))
      /\ Append(delivered, Head(inbox)) \o Tail(inbox) = delivered \o inbox
    <2>1. delivered \in Seq(Seq(Byte)) /\ inbox \in Seq(Seq(Byte))
        BY DEF ReadInv, ReadTypeOK
    <2> QED BY <1>1, <2>1, MoveHead
<1>3. delivered' \in Seq(Seq(Byte)) /\ (slots => delivered' \o inbox' = delivered \o inbox)
    BY <1>1, <1>2 DEF ReadInv, ReadTypeOK
<1>4. ReadTypeOK'
    BY <1>1, <1>2, <1>3 DEF ReadInv, ReadTypeOK
<1>5. Buffered' /\ Announcing'
    BY <1>1 DEF ReadInv, Buffered, Announcing
<1>6. Unread'
    BY <1>1 DEF ReadInv, Unread, Started
<1>7. ChunkingIrrelevant'
    BY <1>1, <1>3 DEF ReadInv, ChunkingIrrelevant, Consumed
<1> QED BY <1>4, <1>5, <1>6, <1>7 DEF ReadInv

\* The reader waits again, or stops reading.
LEMMA ReadEnds ==
    ASSUME ReadInv, ReadFail \/ Rearm \/ HandleReadError
    PROVE  ReadInv'
<1>1. /\ UNCHANGED <<outcome, partMessage, message_, inbox, taken, delivered, incoming,
                     peerClosed, slots, closePosted>>
      /\ reading # "off"
      /\ reading' \in {"off", "armed", "eof", "reset", "error"}
      /\ reading = "handling" => inbox = <<>>
    BY DEF ReadFail, Rearm, HandleReadError, peerVars, stopVars
<1>2. disconnected' \in BOOLEAN
    BY DEF ReadFail, Rearm, HandleReadError, peerVars, stopVars, ReadInv, ReadTypeOK
<1>3. ReadTypeOK'
    BY <1>1, <1>2 DEF ReadInv, ReadTypeOK
<1>4. Buffered' /\ Announcing' /\ Unread'
    BY <1>1 DEF ReadInv, Buffered, Announcing, Unread, Started
<1>5. ChunkingIrrelevant'
    BY <1>1 DEF ReadInv, ChunkingIrrelevant, Consumed
<1> QED BY <1>3, <1>4, <1>5 DEF ReadInv

\* Every step of the connection, of its peer and of the network.
LEMMA ReadInvStep == ReadInv /\ [Next]_vars => ReadInv'
<1> SUFFICES ASSUME ReadInv, [Next]_vars PROVE ReadInv'
    OBVIOUS
<1>1. CASE HandleConnect
    BY <1>1, HandleConnectRead
<1>2. CASE ReadSome
    BY <1>2, ReadSomeRead
<1>3. CASE ReadFail \/ Rearm \/ HandleReadError
    BY <1>3, ReadEnds
<1>4. CASE HandleRead
    BY <1>4, HandleReadRead
<1>5. CASE AnnounceMessage
    BY <1>5, AnnounceMessageRead
<1>6. CASE PeerSends
    <2>1. \E b \in Byte : incoming' = Append(incoming, b)
        BY <1>6 DEF PeerSends
    <2>2. UNCHANGED <<outcome, readVars, slots, peerClosed, closePosted, disconnected>>
        BY <1>6 DEF PeerSends, stopVars
    <2> QED BY <2>1, <2>2, IncomingGrows DEF ReadInv, ReadTypeOK
<1>7. CASE PeerCloses
    <2>1. UNCHANGED <<outcome, readVars, slots, incoming, closePosted, disconnected>>
          /\ peerClosed' = TRUE
        BY <1>7 DEF PeerCloses, stopVars
    <2> QED BY <2>1, IncomingGrows DEF ReadInv, ReadTypeOK
<1>8. CASE CloseSocket
    <2>1. UNCHANGED <<outcome, readVars, incoming, peerClosed, disconnected>>
          /\ slots' = FALSE /\ closePosted' = FALSE
        BY <1>8 DEF CloseSocket, peerVars
    <2> QED BY <2>1, IncomingGrows DEF ReadInv, ReadTypeOK
<1>9. ASSUME NEW t \in Thread, Stop(t) PROVE ReadInv'
    <2>1. UNCHANGED <<outcome, readVars, incoming, peerClosed, slots>>
          /\ closePosted' = TRUE /\ disconnected' = (disconnected \/ slots)
        BY <1>9 DEF Stop, peerVars
    <2>2. disconnected' \in BOOLEAN
        BY <2>1 DEF ReadInv, ReadTypeOK
    <2> QED BY <2>1, <2>2, IncomingGrows DEF ReadInv, ReadTypeOK
<1>10. CASE \/ KernelConnect \/ WriteStep \/ WriteHandler \/ ConnectionBreaks
            \/ \E t \in Thread : SendPush(t) \/ AsyncWriteInit(t)
            \/ UNCHANGED vars
    <2>1. UNCHANGED <<outcome, readVars, peerVars, stopVars>>
        BY <1>10 DEF KernelConnect, WriteStep, WriteByte, WriteFail, WriteHandler,
           HandleWrite, ConnectionBreaks, SendPush, AsyncWriteInit, vars
    <2>2. UNCHANGED <<outcome, readVars, incoming, slots, peerClosed, closePosted, disconnected>>
        BY <2>1 DEF peerVars, stopVars
    <2> QED BY <2>2, IncomingGrows DEF ReadInv, ReadTypeOK
<1> QED
    BY <1>1, <1>2, <1>3, <1>4, <1>5, <1>6, <1>7, <1>8, <1>9, <1>10
    DEF Next, ReadHandler

LEMMA ReadInvInit ==
    ASSUME ReadInit, outcome = "pending", closePosted = FALSE
    PROVE  ReadInv
<1>0. /\ partMessage = <<>> /\ message_ = <<>> /\ reading = "off" /\ inbox = <<>>
      /\ taken = 0 /\ incoming = <<>> /\ peerClosed = FALSE
      /\ delivered = <<>> /\ disconnected = FALSE
    BY DEF ReadInit
<1>1. ReadTypeOK
    <2>1. <<>> \in Seq(Byte) /\ <<>> \in Seq(Seq(Byte)) /\ 0 \in 0..0
        BY EmptySeq
    <2>2. Len(incoming) = 0
        BY <1>0, EmptySeq
    <2> QED BY <1>0, <2>1, <2>2 DEF ReadTypeOK
<1>2. SubSeq(<<>>, 1, 0) = <<>> /\ <<>> \in Seq(Byte) /\ Delimiters(<<>>) = {}
    BY DEF Delimiters
<1>3. DecodeMessage(<<>>) = <<>> /\ UnreceivedPart(<<>>) = <<>>
    BY <1>2, DecodeIncomplete
<1>4. Buffered /\ Unread /\ Announcing
    BY <1>2 DEF ReadInit, Buffered, Unread, Announcing
<1>5. ChunkingIrrelevant
    <2>1. taken - Len(message_) = 0
        <3>1. Len(message_) = 0 /\ taken = 0
            BY <1>0, EmptySeq
        <3> QED BY <3>1
    <2>2. Consumed = <<>>
        BY <1>2, <2>1 DEF ReadInit, Consumed
    <2>3. <<>> \o <<>> = <<>>
        BY <1>2, ConcatEmptySeq
    <2> QED BY <1>3, <2>2, <2>3 DEF ReadInit, ChunkingIrrelevant
<1> QED BY <1>1, <1>4, <1>5 DEF ReadInv

LEMMA ReadInvCorrect == Spec => []ReadInv
<1>1. Init => ReadInv
    BY ReadInvInit DEF Init, SendInit
<1> QED BY <1>1, ReadInvStep, PTL DEF Spec
----------------------------------------------------------------------------
(* What the application may rely on when it reads *)

\* However handle_read's operations cut the peer's bytes, what it has
\* announced and is about to announce is what decode_message makes of the
\* whole stream consumed so far, and it keeps every byte of an unfinished
\* frame.
THEOREM ReadsAsAWhole == Spec => []ChunkingIrrelevant
<1>1. ReadInv => ChunkingIrrelevant
    BY DEF ReadInv
<1> QED BY <1>1, ReadInvCorrect, PTL

\* Types of both halves, whoever uses the connection and whenever.
THEOREM TypeCorrect == Spec => []TypeOK
<1>1. Init => Len(incoming) <= MaxIn
    BY DEF Init, ReadInit
<1>2. ReadTypeOK /\ Len(incoming) <= MaxIn /\ [Next]_vars => (Len(incoming) <= MaxIn)'
    <2> SUFFICES ASSUME ReadTypeOK, Len(incoming) <= MaxIn, [Next]_vars
                 PROVE  Len(incoming') <= MaxIn
        OBVIOUS
    <2>1. CASE PeerSends
        <3>1. PICK b \in Byte : incoming' = Append(incoming, b)
            BY <2>1 DEF PeerSends
        <3>2. Len(incoming') = Len(incoming) + 1 /\ Len(incoming) \in Nat
            BY <3>1 DEF ReadTypeOK
        <3> QED BY <2>1, <3>2 DEF PeerSends
    <2>2. CASE ~PeerSends
        <3>1. UNCHANGED incoming
            BY <2>2 DEF Next, KernelConnect, HandleConnect, SendPush, AsyncWriteInit, Stop,
               WriteStep, WriteByte, WriteFail, WriteHandler, HandleWrite, ReadSome,
               ReadFail, ReadHandler, HandleRead, AnnounceMessage, Rearm,
               HandleReadError, CloseSocket, PeerCloses, ConnectionBreaks, peerVars, vars
        <3> QED BY <3>1
    <2> QED BY <2>1, <2>2
<1>3. ReadInv => ReadTypeOK
    BY DEF ReadInv
<1>4. SendTypeOK /\ ReadTypeOK /\ Len(incoming) <= MaxIn => TypeOK
    BY DEF TypeOK
<1> QED BY <1>1, <1>2, <1>3, <1>4, SendTypeCorrect, ReadInvCorrect, PTL DEF Spec
----------------------------------------------------------------------------
(* What a peer of this library makes of the bytes of this connection *)

\* Messages whose frame is more than a delimiter, and those among the
\* first m.
Loud == {n \in DOMAIN accepted : Size[accepted[n]] # 0}

Heard(m) == Selection(m, Loud, accepted)

\* After j bytes: has a frame begun, and how many have ended?
Begun(j) == j # 0 /\ ~IsDelimiter(wire[j])

Ended(j) == IF j = 0 THEN 0 ELSE IF Begun(j) THEN wire[j][1] - 1 ELSE wire[j][1]

\* The text of a message is told by its first byte.
Names(text, n) == text # <<>> /\ text[1][1] = n

\* The begun frame is what has not arrived completely,
Pending(j, text) ==
    IF Begun(j)
    THEN /\ Names(text, wire[j][1])
         /\ Len(text) = (Size[accepted[wire[j][1]]] - wire[j][2]) + 1
    ELSE text = <<>>

\* and the frames that have ended are the messages decoded.
Told(texts, messages) ==
    /\ Len(texts) = Len(messages)
    /\ \A k \in 1..Len(texts) :
           \E n \in 1..Len(accepted) : Names(texts[k], n) /\ messages[k] = accepted[n]

Framed(j) ==
    /\ Ended(j) \in 0..Len(accepted)
    /\ Pending(j, UnreceivedPart(SubSeq(wire, 1, j)))
    /\ Told(DecodeMessage(SubSeq(wire, 1, j)), Heard(Ended(j)))

LEMMA HeardType ==
    ASSUME SendTypeOK, NEW m \in 0..Len(accepted)
    PROVE  Heard(m) \in Seq(Msg)
<1>1. m \in Nat /\ \A i \in 1..m : i \in Loud => accepted[i] \in Msg
    BY DEF SendTypeOK, Loud
<1> QED BY <1>1, SelectionType DEF Heard

LEMMA HeardNext ==
    ASSUME SendTypeOK, NEW m \in Nat, m + 1 \in 1..Len(accepted)
    PROVE  Heard(m + 1) = IF Size[accepted[m + 1]] = 0 THEN Heard(m)
                          ELSE Append(Heard(m), accepted[m + 1])
<1>1. m + 1 \in Loud <=> Size[accepted[m + 1]] # 0
    BY DEF SendTypeOK, Loud
<1>2. Heard(m + 1) = IF m + 1 \in Loud THEN Append(Heard(m), accepted[m + 1]) ELSE Heard(m)
    BY SelectionNext DEF Heard
<1> QED BY <1>1, <1>2

LEMMA ToldAppend ==
    ASSUME NEW texts \in Seq(Seq(Byte)), NEW messages \in Seq(Msg), Told(texts, messages),
           NEW text \in Seq(Byte), NEW n \in 1..Len(accepted), Names(text, n),
           accepted[n] \in Msg
    PROVE  Told(Append(texts, text), Append(messages, accepted[n]))
<1>1. PICK u, v : u = Append(texts, text) /\ v = Append(messages, accepted[n])
    OBVIOUS
<1>2. /\ Len(u) = Len(texts) + 1 /\ u[Len(texts) + 1] = text
      /\ \A k \in 1..Len(texts) : u[k] = texts[k]
    BY <1>1, AppendProperties
<1>3. /\ Len(v) = Len(messages) + 1 /\ v[Len(messages) + 1] = accepted[n]
      /\ \A k \in 1..Len(messages) : v[k] = messages[k]
    BY <1>1, AppendProperties
<1>4. Len(texts) \in Nat /\ Len(texts) = Len(messages)
    BY DEF Told
<1>5. ASSUME NEW k \in 1..Len(u)
      PROVE  \E i \in 1..Len(accepted) : Names(u[k], i) /\ v[k] = accepted[i]
    <2>1. CASE k = Len(texts) + 1
        BY <1>2, <1>3, <1>4, <2>1
    <2>2. CASE k # Len(texts) + 1
        <3>1. k \in 1..Len(texts)
            BY <1>2, <1>4, <2>2
        <3>2. u[k] = texts[k] /\ v[k] = messages[k]
            BY <1>2, <1>3, <1>4, <3>1
        <3> QED BY <3>1, <3>2 DEF Told
    <2> QED BY <2>1, <2>2
<1>6. Len(u) = Len(v)
    BY <1>2, <1>3, <1>4
<1> QED BY <1>1, <1>5, <1>6 DEF Told

\* One byte more: it begins a frame, continues one or ends one.
LEMMA FramedStep ==
    ASSUME SendTypeOK, WireInOrder, NEW j \in Nat, j + 1 \in 1..Len(wire), Framed(j)
    PROVE  Framed(j + 1)
<1>1. PICK p, q, b : p = SubSeq(wire, 1, j) /\ q = SubSeq(wire, 1, j + 1) /\ b = wire[j + 1]
    OBVIOUS
<1>2. wire \in Seq(Byte) /\ b \in Byte /\ b[1] \in 1..Len(accepted) /\ Len(accepted) \in Nat
      /\ b[2] \in Nat
    <2>1. wire \in Seq(Byte) /\ Len(accepted) \in Nat
        BY DEF SendTypeOK
    <2>2. b \in Byte
        BY <1>1, <2>1, ElementOfSeq
    <2> QED BY <1>1, <2>1, <2>2 DEF WireInOrder, Byte
<1>3. p \in Seq(Byte)
    <2>1. \A i \in 1..j : wire[i] \in Byte
        BY <1>2
    <2> QED BY <1>1, <2>1, SubSeqProperties
<1>4. q = Append(p, b)
    <2>1. SubSeq(wire, 1, j + 1) = SubSeq(wire, 1, (j + 1) - 1) \o <<wire[j + 1]>>
        <3>1. 1 \in 1..Len(wire) /\ j + 1 \in 1..Len(wire)
            BY <1>2
        <3> QED BY <1>2, <3>1, SubSeqRecursiveSecond
    <2>2. Append(p, b) = p \o <<b>>
        BY <1>2, <1>3, AppendIsConcat
    <2>3. (j + 1) - 1 = j
        OBVIOUS
    <2> QED BY <1>1, <2>1, <2>2, <2>3
<1>5. PICK D, U, m : D = DecodeMessage(p) /\ U = UnreceivedPart(p) /\ m = Ended(j)
    OBVIOUS
<1>6. D \in Seq(Seq(Byte)) /\ U \in Seq(Byte)
    <2>1. D \in Seq({t \in Seq(Byte) : Decodable(t)})
        BY <1>3, <1>5, DecodeType
    <2>2. {t \in Seq(Byte) : Decodable(t)} \subseteq Seq(Byte)
        OBVIOUS
    <2> QED BY <1>3, <1>5, <2>1, <2>2, SeqWiden, UnreceivedType
<1>7. m \in 0..Len(accepted) /\ Pending(j, U) /\ Told(D, Heard(m))
    BY <1>1, <1>5 DEF Framed
<1>8. UnreceivedPart(q) = IF IsDelimiter(b) THEN <<>> ELSE Append(U, b)
    BY <1>2, <1>3, <1>4, <1>5, UnreceivedAppend
<1>9. DecodeMessage(q) = IF IsDelimiter(b) /\ Decodable(U) THEN Append(D, U) ELSE D
    BY <1>2, <1>3, <1>4, <1>5, DecodeAppend
<1>10. /\ Begun(j + 1) <=> ~IsDelimiter(b)
       /\ Ended(j + 1) = IF IsDelimiter(b) THEN b[1] ELSE b[1] - 1
    BY <1>1 DEF Begun, Ended
<1>11. Size[accepted[b[1]]] \in Nat /\ accepted[b[1]] \in Msg
       /\ Size[accepted[b[1]]] % Quantum = 0
    BY <1>2 DEF SendTypeOK
<1>12. CASE ~Begun(j)
    <2>1. b = FirstByte(m + 1) /\ b[1] = m + 1
        <3>1. CASE j = 0
            <4>1. b = FirstByte(1) /\ m = 0
                BY <1>1, <1>2, <1>5, <3>1 DEF WireInOrder, Ended
            <4> QED BY <4>1 DEF FirstByte
        <3>2. CASE j # 0
            <4>1. IsDelimiter(wire[j]) /\ m = wire[j][1]
                BY <1>5, <1>12, <3>2 DEF Begun, Ended
            <4>2. Follows(wire[j], b)
                BY <1>1, <3>2 DEF WireInOrder
            <4> QED BY <4>1, <4>2 DEF Follows
        <3> QED BY <3>1, <3>2
    <2>2. b[2] = Size[accepted[m + 1]] /\ U = <<>>
        BY <1>7, <1>12, <2>1 DEF FirstByte, Pending
    <2>3. DecodeMessage(q) = D
        BY <1>9, <2>2 DEF Decodable
    <2>4. CASE IsDelimiter(b)
        <3>1. Ended(j + 1) = m + 1 /\ ~Begun(j + 1) /\ m + 1 \in 1..Len(accepted)
            BY <1>2, <1>10, <2>1, <2>4
        <3>2. Heard(m + 1) = Heard(m)
            <4>1. m \in Nat /\ Size[accepted[m + 1]] = 0
                BY <1>2, <1>7, <2>2, <2>4 DEF IsDelimiter
            <4> QED BY <3>1, <4>1, HeardNext
        <3>3. UnreceivedPart(q) = <<>>
            BY <1>8, <2>4
        <3> QED BY <1>1, <1>7, <2>3, <3>1, <3>2, <3>3 DEF Framed, Pending
    <2>5. CASE ~IsDelimiter(b)
        <3>1. Ended(j + 1) = m /\ Begun(j + 1)
            BY <1>7, <1>10, <2>1, <2>5
        <3>2. UnreceivedPart(q) = Append(<<>>, b)
            BY <1>8, <2>2, <2>5
        <3>3. Append(<<>>, b) # <<>> /\ Append(<<>>, b)[1] = b /\ Len(Append(<<>>, b)) = 1
            OBVIOUS
        <3>4. (Size[accepted[b[1]]] - b[2]) + 1 = 1
            BY <1>11, <2>1, <2>2
        <3>5. Pending(j + 1, UnreceivedPart(q))
            BY <1>1, <3>1, <3>2, <3>3, <3>4 DEF Pending, Names
        <3> QED BY <1>1, <1>7, <2>3, <3>1, <3>5 DEF Framed
    <2> QED BY <2>4, <2>5
<1>13. CASE Begun(j)
    <2>1. /\ j \in 1..Len(wire) /\ wire[j][2] # 0
          /\ b[1] = wire[j][1] /\ b[2] = wire[j][2] - 1
        <3>1. j \in 1..Len(wire) /\ ~IsDelimiter(wire[j])
            BY <1>2, <1>13 DEF Begun
        <3>2. Follows(wire[j], b)
            BY <1>1, <3>1 DEF WireInOrder
        <3> QED BY <3>1, <3>2 DEF Follows, ByteAfter, IsDelimiter
    <2>2. wire[j][2] \in Nat \ {0}
        BY <1>2, <2>1 DEF Byte
    <2>3. m = b[1] - 1 /\ m \in Nat /\ m + 1 = b[1]
        BY <1>2, <1>5, <1>13, <2>1 DEF Ended, Begun
    <2>4. /\ Names(U, b[1]) /\ Len(U) \in Nat \ {0}
          /\ Len(U) = (Size[accepted[b[1]]] - (b[2] + 1)) + 1
        <3>1. Names(U, wire[j][1]) /\ Len(U) = (Size[accepted[wire[j][1]]] - wire[j][2]) + 1
            BY <1>7, <1>13 DEF Pending
        <3>2. wire[j][2] = b[2] + 1
            BY <1>2, <2>1, <2>2
        <3> QED BY <1>6, <2>1, <3>1, <3>2, EmptySeq DEF Names
    <2>5. CASE IsDelimiter(b)
        <3>1. Ended(j + 1) = m + 1 /\ ~Begun(j + 1) /\ m + 1 \in 1..Len(accepted)
            BY <1>2, <1>10, <2>3, <2>5
        <3>2. Len(U) = Size[accepted[b[1]]]
            BY <1>11, <2>4, <2>5 DEF IsDelimiter
        <3>3. DecodeMessage(q) = Append(D, U)
            BY <1>9, <1>11, <2>4, <2>5, <3>2 DEF Decodable, Names
        <3>4. Heard(m + 1) = Append(Heard(m), accepted[m + 1])
            BY <2>3, <2>4, <3>1, <3>2, HeardNext
        <3>5. Told(Append(D, U), Append(Heard(m), accepted[m + 1]))
            BY <1>2, <1>6, <1>7, <1>11, <2>3, <2>4, HeardType, ToldAppend
        <3>6. UnreceivedPart(q) = <<>>
            BY <1>8, <2>5
        <3>7. m + 1 \in 0..Len(accepted) /\ Pending(j + 1, <<>>)
            BY <1>2, <3>1 DEF Pending
        <3>8. Told(DecodeMessage(q), Heard(m + 1))
            BY <3>3, <3>4, <3>5
        <3> QED BY <1>1, <3>1, <3>6, <3>7, <3>8 DEF Framed
    <2>6. CASE ~IsDelimiter(b)
        <3>1. Ended(j + 1) = m /\ Begun(j + 1)
            BY <1>10, <2>3, <2>6
        <3>2. DecodeMessage(q) = D
            BY <1>9, <2>6
        <3>3. PICK V : V = Append(U, b)
            OBVIOUS
        <3>4. V # <<>> /\ V[1] = U[1] /\ Len(V) = Len(U) + 1
            <4>1. /\ V # <<>> /\ Len(V) = Len(U) + 1
                  /\ \A i \in 1..Len(U) : V[i] = U[i]
                BY <1>2, <1>6, <3>3, AppendProperties
            <4>2. 1 \in 1..Len(U)
                BY <2>4
            <4> QED BY <4>1, <4>2
        <3>5. Len(V) = (Size[accepted[b[1]]] - b[2]) + 1
            <4>1. PICK s \in Nat : s = Size[accepted[b[1]]]
                BY <1>11
            <4>2. Len(U) = (s - (b[2] + 1)) + 1 /\ Len(V) = Len(U) + 1 /\ b[2] \in Nat
                BY <1>2, <2>4, <3>4, <4>1
            <4>3. Len(V) = (s - b[2]) + 1
                BY <4>2
            <4> QED BY <4>1, <4>3
        <3>6. Pending(j + 1, V)
            BY <1>1, <2>4, <3>1, <3>4, <3>5 DEF Pending, Names
        <3> QED BY <1>1, <1>7, <1>8, <2>6, <3>1, <3>2, <3>3, <3>6 DEF Framed
    <2> QED BY <2>5, <2>6
<1> QED BY <1>12, <1>13

LEMMA AllFramed ==
    ASSUME SendTypeOK, WireInOrder
    PROVE  \A j \in 0..Len(wire) : Framed(j)
<1> DEFINE S == {j \in Nat : j <= Len(wire) => Framed(j)}
<1>1. 0 \in S
    <2>1. SubSeq(wire, 1, 0) = <<>> /\ <<>> \in Seq(Byte) /\ Delimiters(<<>>) = {}
        BY SubSeqEmpty, EmptySeq DEF Delimiters
    <2>2. UnreceivedPart(<<>>) = <<>> /\ DecodeMessage(<<>>) = <<>>
        BY <2>1, DecodeIncomplete
    <2>3. Ended(0) = 0 /\ ~Begun(0) /\ Len(accepted) \in Nat
        BY DEF Ended, Begun, SendTypeOK
    <2>4. Heard(0) = <<>>
        BY SelectionNone DEF Heard
    <2>5. Told(<<>>, <<>>)
        BY EmptySeq DEF Told
    <2>6. 0 \in 0..Len(accepted) /\ Pending(0, <<>>)
        BY <2>3 DEF Pending
    <2>7. Framed(0)
        BY <2>1, <2>2, <2>3, <2>4, <2>5, <2>6 DEF Framed
    <2> QED BY <2>7
<1>2. ASSUME NEW j \in Nat, j \in S PROVE j + 1 \in S
    <2> SUFFICES ASSUME j + 1 <= Len(wire) PROVE Framed(j + 1)
        OBVIOUS
    <2>1. Len(wire) \in Nat
        BY DEF SendTypeOK
    <2>2. Framed(j) /\ j + 1 \in 1..Len(wire)
        BY <1>2, <2>1
    <2> QED BY <2>2, FramedStep
<1> HIDE DEF S
<1>3. \A j \in Nat : j \in S
    BY <1>1, <1>2, Induction, Zenon
<1>4. Len(wire) \in Nat
    BY DEF SendTypeOK
<1> QED BY <1>3, <1>4 DEF S

\* Bytes on the wire and accepted messages are never taken back.
LEMMA HistoriesGrow ==
    ASSUME SendTypeOK, [Next]_vars
    PROVE  /\ UNCHANGED wire \/ \E b \in Byte : wire' = Append(wire, b)
           /\ UNCHANGED accepted \/ \E m \in Msg : accepted' = Append(accepted, m)
<1>1. ASSUME NEW t \in Thread, SendPush(t)
      PROVE  /\ UNCHANGED wire
             /\ UNCHANGED accepted \/ \E m \in Msg : accepted' = Append(accepted, m)
    BY <1>1 DEF SendPush
<1>2. ASSUME NEW i \in DOMAIN writes, WriteByte(i)
      PROVE  UNCHANGED accepted /\ \E b \in Byte : wire' = Append(wire, b)
    <2>1. writes[i].next \in Byte /\ Garbage \in Byte
        <3>1. writes \in Seq(WriteOps)
            BY DEF SendTypeOK
        <3>2. writes[i] \in WriteOps
            BY <3>1, ElementType
        <3> QED BY <3>2 DEF WriteOps, Garbage, Byte
    <2>2. UNCHANGED accepted
          /\ (wire' = Append(wire, writes[i].next) \/ wire' = Append(wire, Garbage))
        BY <1>2 DEF WriteByte
    <2> QED BY <2>1, <2>2
<1>3. ASSUME ~\E t \in Thread : SendPush(t), ~\E i \in DOMAIN writes : WriteByte(i)
      PROVE  UNCHANGED <<wire, accepted>>
    BY <1>3 DEF Next, KernelConnect, HandleConnect, AsyncWriteInit, Stop, WriteStep,
       WriteFail, WriteHandler, HandleWrite, ReadSome, ReadFail, ReadHandler, HandleRead,
       AnnounceMessage, Rearm, HandleReadError, CloseSocket, PeerSends, PeerCloses,
       ConnectionBreaks, sendVars, vars
<1> QED BY <1>1, <1>2, <1>3

\* Messages are announced one at a time, the next of the decoded ones.
LEMMA DeliveredGrows ==
    ASSUME [Next]_vars
    PROVE  \/ UNCHANGED delivered
           \/ /\ slots /\ inbox # <<>>
              /\ delivered' = Append(delivered, Head(inbox))
<1>1. CASE AnnounceMessage
    BY <1>1 DEF AnnounceMessage
<1>2. CASE ~AnnounceMessage
    BY <1>2 DEF Next, KernelConnect, HandleConnect, SendPush, AsyncWriteInit, Stop, WriteStep,
       WriteByte, WriteFail, WriteHandler, HandleWrite, ReadSome, ReadFail, ReadHandler,
       HandleRead, Rearm, HandleReadError, CloseSocket, PeerSends, PeerCloses,
       ConnectionBreaks, readVars, vars
<1> QED BY <1>1, <1>2
============================================================================
