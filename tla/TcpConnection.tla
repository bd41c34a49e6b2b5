--------------------------- MODULE TcpConnection ---------------------------
(***************************************************************************)
(* One tcp_connection object (core/src/TCP/TCPConnection.cpp): its send    *)
(* queue, filled by any thread and drained by write completions on the     *)
(* io_service thread; its reader, which cuts the byte stream into          *)
(* messages; its connect and its close.                                    *)
(*                                                                         *)
(* A message is named by its position in `accepted`, the order in which    *)
(* send() queued them.  A byte of the stream is a pair <<n, r>>: the byte  *)
(* of the frame of message n that r more bytes of the frame follow, so     *)
(* r = 0 is the '\n' that ends it.                                         *)
(*                                                                         *)
(* Actions of the io_service thread are one handler each and never         *)
(* overlap; those of application threads are one critical section of       *)
(* sendSync each; the others are the operating system's or the peer's.     *)
(***************************************************************************)
EXTENDS Integers, Sequences, SequencesExt, Selection

CONSTANTS
    Thread,    \* application threads that call send() and stop()
    Msg,       \* message contents
    Size,      \* Size[m]: the number of characters of Base64::Encode(m)
    Quantum,   \* Base64 text comes in groups of this many characters (4)
    MaxSends,  \* bound: messages queued by send()
    PeerByte,  \* bytes the peer may put on the stream
    MaxIn,     \* bound: bytes the peer puts on the stream
    EarlyUse   \* may the application call send() and stop() before start()
               \* has run?  tcp_client::connect publishes the connection at
               \* once; tcp_server::handle_accept publishes a started one.

Byte == Nat \X Nat

ASSUME ConnectionAssumption ==
    /\ Quantum \in Nat \ {0}
    /\ Size \in [Msg -> Nat]
    /\ \A m \in Msg : Size[m] % Quantum = 0
    /\ MaxSends \in Nat
    /\ PeerByte \subseteq Byte
    /\ MaxIn \in Nat
    /\ EarlyUse \in BOOLEAN

VARIABLES
    socket,       \* "connecting", "refused", "open", "broken" or "closed"
    outcome,      \* what handle_connect made of it; "success": start() ran
    slots,        \* are the application's slots connected to the signals?
    closePosted,  \* has stop() posted its closing handler?
    pc,           \* pc[t]: is t between the two locked parts of send()?
    sendBuffer,   \* queue of message numbers
    sendStart,
    writes,       \* async_write operations not yet handled
    partMessage,  \* start of a frame whose end has not arrived
    message_,     \* the streambuf async_read_until fills
    reading,      \* the state of the async_read_until and its handler
    inbox,        \* decoded messages handle_read has yet to announce
    taken,        \* how many bytes of `incoming` the streambuf received
    \* the world, and histories
    accepted,     \* messages queued by send(), in order
    wire,         \* bytes handed to the peer
    failed,       \* messages reported through onSendError
    incoming,     \* bytes the peer sent
    peerClosed,   \* the peer closed its end
    delivered,    \* texts announced through onReadMessage
    disconnected  \* onDisconnected was announced

sendVars == <<pc, sendBuffer, sendStart, writes, accepted, wire, failed>>
readVars == <<partMessage, message_, reading, inbox, taken, delivered>>
peerVars == <<incoming, peerClosed>>
stopVars == <<slots, closePosted, disconnected>>
vars == <<socket, outcome, sendVars, readVars, peerVars, stopVars>>
----------------------------------------------------------------------------
(* Frames: the Base64 text of a message, then the delimiter. *)

IsDelimiter(b) == b[2] = 0

FirstByte(n) == <<n, Size[accepted[n]]>>

\* The byte that follows b in its frame.
ByteAfter(b) == <<b[1], b[2] - 1>>

\* Positions of the delimiters of a byte string.
Delimiters(msg) == {i \in DOMAIN msg : IsDelimiter(msg[i])}

\* find_last_of(DELIMETR): what follows the last delimiter has not arrived
\* completely.
UnreceivedPart(msg) ==
    IF Delimiters(msg) = {} THEN msg
    ELSE SubSeq(msg, Max(Delimiters(msg)) + 1, Len(msg))

\* Mutant: an empty text is a message.
Whole(text) == Len(text) % Quantum = 0

\* Base64::Decode throws on a text that is no multiple of four characters,
\* and decode_message skips what throws and what is empty.
Decodable(text) == text # <<>> /\ Len(text) % Quantum = 0

\* The text that the delimiter at i ends.
TextBefore(msg, i) == UnreceivedPart(SubSeq(msg, 1, i - 1))

\* The texts between delimiters that decode_message returns.
DecodeMessage(msg) ==
    LET piece == [i \in Delimiters(msg) |-> TextBefore(msg, i)]
    IN  Selection(Len(msg), {i \in DOMAIN piece : Decodable(piece[i])}, piece)
----------------------------------------------------------------------------
\* A connection before anything is sent, and before anything is read.
SendInit ==
    /\ outcome = "pending"
    /\ slots = TRUE
    /\ closePosted = FALSE
    /\ pc = [t \in Thread |-> "idle"]
    /\ sendBuffer = <<>>
    /\ sendStart \in BOOLEAN    \* the constructor leaves it uninitialized
    /\ writes = <<>>
    /\ accepted = <<>>
    /\ wire = <<>>
    /\ failed = {}

ReadInit ==
    /\ partMessage = <<>>
    /\ message_ = <<>>
    /\ reading = "off"
    /\ inbox = <<>>
    /\ taken = 0
    /\ incoming = <<>>
    /\ peerClosed = FALSE
    /\ delivered = <<>>
    /\ disconnected = FALSE

Init ==
    \* connecting: tcp_client::connect has just called async_connect;
    \* open: tcp_server's async_accept has just completed
    /\ socket \in {"connecting", "open"}
    /\ SendInit
    /\ ReadInit

Started == outcome = "success"

\* handle_read runs the application's slots one by one; no other handler
\* runs meanwhile.
IoFree == reading # "handling"

Usable == Started \/ EarlyUse
----------------------------------------------------------------------------
(* Connecting *)

\* The operating system answers the connect.
KernelConnect ==
    /\ socket = "connecting"
    /\ socket' \in {"open", "refused"}
    /\ UNCHANGED <<outcome, sendVars, readVars, peerVars, stopVars>>

\* start(): no lock is taken for sendStart.
Start ==
    /\ sendStart' = FALSE
    /\ partMessage' = <<>>
    /\ reading' = "armed"

\* handle_connect; for an accepted socket handle_accept calls start() in
\* its place.
HandleConnect ==
    /\ IoFree
    /\ outcome = "pending"
    /\ \/ /\ socket = "closed"
          /\ outcome' = "timedOut"
          /\ UNCHANGED <<socket, sendStart, partMessage, reading>>
       \/ /\ socket = "refused"
          /\ outcome' = "error"
          /\ socket' = "closed"
          /\ UNCHANGED <<sendStart, partMessage, reading>>
       \/ /\ socket \in {"open", "broken"}
          /\ outcome' = "success"
          /\ Start
          /\ UNCHANGED socket
    /\ UNCHANGED <<pc, sendBuffer, writes, accepted, wire, failed>>
    /\ UNCHANGED <<message_, inbox, taken, delivered, peerVars, stopVars>>
----------------------------------------------------------------------------
(* Sending *)

\* Mutant: the string is queued outside the try block.
SendPushAnyway(t) ==
    /\ pc[t] = "idle"
    /\ Usable
    /\ Len(accepted) < MaxSends
    /\ pc' = [pc EXCEPT ![t] = "pushed"]
    /\ sendBuffer' = Append(sendBuffer, Len(accepted) + 1)
    /\ \/ \E m \in Msg : accepted' = Append(accepted, m)
       \/ UNCHANGED accepted
    /\ UNCHANGED <<socket, outcome, sendStart, writes, wire, failed>>
    /\ UNCHANGED <<readVars, peerVars, stopVars>>

\* First locked part of send(): encode and queue.  When Encode throws,
\* nothing is queued and send() goes on all the same.
SendPush(t) ==
    /\ pc[t] = "idle"
    /\ Usable
    /\ Len(accepted) < MaxSends
    /\ pc' = [pc EXCEPT ![t] = "pushed"]
    /\ \/ \E m \in Msg :
            /\ accepted' = Append(accepted, m)
            /\ sendBuffer' = Append(sendBuffer, Len(accepted) + 1)
       \/ UNCHANGED <<accepted, sendBuffer>>
    /\ UNCHANGED <<socket, outcome, sendStart, writes, wire, failed>>
    /\ UNCHANGED <<readVars, peerVars, stopVars>>

WriteOp(n) == [msg |-> n, next |-> FirstByte(n), status |-> "busy"]

\* Mutants: the flag is never set; the flag survives an empty queue.
WriteFrontNoFlag(queue, flag, ops) ==
    /\ sendBuffer' = queue
    /\ sendStart' = FALSE
    /\ writes' = IF queue = <<>> THEN ops ELSE Append(ops, WriteOp(Head(queue)))

WriteFrontFlagKept(queue, flag, ops) ==
    /\ sendBuffer' = queue
    /\ sendStart' = flag
    /\ writes' = IF queue = <<>> THEN ops ELSE Append(ops, WriteOp(Head(queue)))

\* The common tail of async_write: `queue` is the buffer left, `flag` the
\* value sendStart keeps if something is left to write.
WriteFront(queue, flag, ops) ==
    /\ sendBuffer' = queue
    /\ sendStart' = (queue # <<>> /\ flag)
    /\ writes' = IF queue = <<>> THEN ops ELSE Append(ops, WriteOp(Head(queue)))

\* Mutant: send() starts a write whether or not one is in progress.
AsyncWriteAlways(t) ==
    /\ pc[t] = "pushed"
    /\ pc' = [pc EXCEPT ![t] = "idle"]
    /\ WriteFront(sendBuffer, TRUE, writes)
    /\ UNCHANGED <<socket, outcome, accepted, wire, failed>>
    /\ UNCHANGED <<readVars, peerVars, stopVars>>

\* Second locked part of send(): async_write(true).
AsyncWriteInit(t) ==
    /\ pc[t] = "pushed"
    /\ pc' = [pc EXCEPT ![t] = "idle"]
    /\ \/ sendStart /\ UNCHANGED <<sendBuffer, sendStart, writes>>
       \/ ~sendStart /\ WriteFront(sendBuffer, TRUE, writes)
    /\ UNCHANGED <<socket, outcome, accepted, wire, failed>>
    /\ UNCHANGED <<readVars, peerVars, stopVars>>

\* What a write reads whose string has been popped from sendBuffer.
Garbage == <<0, 1>>

\* The socket takes the next byte of the i-th pending write.
WriteByte(i) ==
    /\ socket = "open"
    /\ writes[i].status = "busy"
    /\ \/ wire' = Append(wire, writes[i].next)
       \/ /\ \A j \in DOMAIN sendBuffer : sendBuffer[j] # writes[i].msg
          /\ wire' = Append(wire, Garbage)
    /\ writes' = IF IsDelimiter(writes[i].next)
                 THEN [writes EXCEPT ![i].status = "ok"]
                 ELSE [writes EXCEPT ![i].next = ByteAfter(@)]
    /\ UNCHANGED <<socket, outcome, pc, sendBuffer, sendStart, accepted, failed>>
    /\ UNCHANGED <<readVars, peerVars, stopVars>>

\* A write on a socket that is not connected fails, or, while the connect
\* is in progress, may wait for it.
WriteFail(i) ==
    /\ socket # "open"
    /\ writes[i].status = "busy"
    /\ writes' = [writes EXCEPT ![i].status = "error"]
    /\ UNCHANGED <<socket, outcome, pc, sendBuffer, sendStart, accepted, wire>>
    /\ UNCHANGED <<failed, readVars, peerVars, stopVars>>

\* Mutant: the error of a write is only logged.
ReportNothing(i) == UNCHANGED failed

\* handle_write reports the error of a write.
ReportError(i) ==
    failed' = IF writes[i].status = "error" /\ slots
              THEN failed \cup {writes[i].msg} ELSE failed

\* Mutant: a failed write ends the sending.
AsyncWriteNextIfOk(i) ==
    IF writes[i].status = "error"
    THEN writes' = RemoveAt(writes, i) /\ UNCHANGED <<sendBuffer, sendStart>>
    ELSE WriteFront(Tail(sendBuffer), sendStart, RemoveAt(writes, i))

\* async_write(false) drops the front of the queue, whether or not it was
\* written, and writes the next.
AsyncWriteNext(i) ==
    WriteFront(IF sendBuffer = <<>> THEN <<>> ELSE Tail(sendBuffer),
               sendStart, RemoveAt(writes, i))

HandleWrite(i) ==
    /\ IoFree
    /\ writes[i].status # "busy"
    /\ ReportError(i)
    /\ AsyncWriteNext(i)
    /\ UNCHANGED <<socket, outcome, pc, accepted, wire>>
    /\ UNCHANGED <<readVars, peerVars, stopVars>>
----------------------------------------------------------------------------
(* Receiving *)

\* async_read_until: some bytes arrive in the streambuf; the operation
\* completes when a delimiter is among them, however many bytes follow it.
ReadSome ==
    /\ reading = "armed"
    /\ socket \in {"open", "broken"}
    /\ \E k \in 1..(Len(incoming) - taken) :
        /\ message_' = message_ \o SubSeq(incoming, taken + 1, taken + k)
        /\ taken' = taken + k
    /\ reading' = IF Delimiters(message_') = {} THEN "armed" ELSE "ready"
    /\ UNCHANGED <<socket, outcome, sendVars, partMessage, inbox, delivered>>
    /\ UNCHANGED <<peerVars, stopVars>>

\* async_read_until completes without a delimiter: end of stream, a reset
\* (both reported as a disconnection) or another error.
ReadFail ==
    /\ reading = "armed"
    /\ \/ socket = "closed" /\ reading' = "error"
       \/ socket = "broken" /\ reading' \in {"reset", "error"}
       \/ /\ socket = "open" /\ peerClosed /\ taken = Len(incoming)
          /\ reading' = "eof"
    /\ UNCHANGED <<socket, outcome, sendVars, partMessage, message_, inbox>>
    /\ UNCHANGED <<taken, delivered, peerVars, stopVars>>

\* Mutant: the frame begun by an earlier read is forgotten.
LastReadOnly == message_

\* The text handle_read cuts into messages.
ReadText == partMessage \o message_

\* handle_read without an error, up to its loop over the messages.
HandleRead ==
    /\ reading = "ready"
    /\ inbox' = DecodeMessage(ReadText)
    /\ partMessage' = UnreceivedPart(ReadText)
    /\ message_' = <<>>
    /\ reading' = "handling"
    /\ UNCHANGED <<socket, outcome, sendVars, taken, delivered>>
    /\ UNCHANGED <<peerVars, stopVars>>

\* One turn of that loop: the onReadMessage signal.
AnnounceMessage ==
    /\ reading = "handling"
    /\ inbox # <<>>
    /\ delivered' = IF slots THEN Append(delivered, Head(inbox)) ELSE delivered
    /\ inbox' = Tail(inbox)
    /\ UNCHANGED <<socket, outcome, sendVars, partMessage, message_, reading>>
    /\ UNCHANGED <<taken, peerVars, stopVars>>

\* Mutant: handle_read forgets to read on.
NoRearm ==
    /\ reading = "handling"
    /\ inbox = <<>>
    /\ reading' = "off"
    /\ UNCHANGED <<socket, outcome, sendVars, partMessage, message_, inbox>>
    /\ UNCHANGED <<taken, delivered, peerVars, stopVars>>

\* The end of handle_read: the next async_read_until.
Rearm ==
    /\ reading = "handling"
    /\ inbox = <<>>
    /\ reading' = "armed"
    /\ UNCHANGED <<socket, outcome, sendVars, partMessage, message_, inbox>>
    /\ UNCHANGED <<taken, delivered, peerVars, stopVars>>

\* Mutant: the end of the stream is one more read error.
OnlyReset(error) == error = "reset"

IsDisconnection(error) == error \in {"eof", "reset"}

\* handle_read with an error: a disconnection is announced, and nothing
\* reads any more.
HandleReadError ==
    /\ reading \in {"eof", "reset", "error"}
    /\ reading' = "off"
    /\ disconnected' = (disconnected \/ (IsDisconnection(reading) /\ slots))
    /\ UNCHANGED <<socket, outcome, sendVars, partMessage, message_, inbox>>
    /\ UNCHANGED <<taken, delivered, peerVars, slots, closePosted>>
----------------------------------------------------------------------------
(* Closing *)

\* stop(): announce the disconnection on the caller's thread, then post.
Stop(t) ==
    /\ pc[t] = "idle"
    /\ Usable
    /\ disconnected' = (disconnected \/ slots)
    /\ closePosted' = TRUE
    /\ UNCHANGED <<socket, outcome, sendVars, readVars, peerVars, slots>>

\* The posted handler: shut down, close, disconnect every slot.
CloseSocket ==
    /\ IoFree
    /\ closePosted
    /\ closePosted' = FALSE
    /\ socket' = "closed"
    /\ slots' = FALSE
    /\ UNCHANGED <<outcome, sendVars, readVars, peerVars, disconnected>>
----------------------------------------------------------------------------
(* The peer and the network *)

PeerSends ==
    /\ socket = "open"
    /\ ~peerClosed
    /\ Len(incoming) < MaxIn
    /\ \E b \in PeerByte : incoming' = Append(incoming, b)
    /\ UNCHANGED <<socket, outcome, sendVars, readVars, stopVars, peerClosed>>

PeerCloses ==
    /\ socket = "open"
    /\ ~peerClosed
    /\ peerClosed' = TRUE
    /\ UNCHANGED <<socket, outcome, sendVars, readVars, stopVars, incoming>>

ConnectionBreaks ==
    /\ socket = "open"
    /\ socket' = "broken"
    /\ UNCHANGED <<outcome, sendVars, readVars, stopVars, peerVars>>
----------------------------------------------------------------------------
WriteStep == \E i \in DOMAIN writes : WriteByte(i) \/ WriteFail(i)
WriteHandler == \E i \in DOMAIN writes : HandleWrite(i)
ReadHandler == HandleRead \/ AnnounceMessage \/ Rearm \/ HandleReadError

Next ==
    \/ KernelConnect \/ HandleConnect
    \/ \E t \in Thread : SendPush(t) \/ AsyncWriteInit(t) \/ Stop(t)
    \/ WriteStep \/ WriteHandler
    \/ ReadSome \/ ReadFail \/ ReadHandler
    \/ CloseSocket
    \/ PeerSends \/ PeerCloses \/ ConnectionBreaks

Spec == Init /\ [][Next]_vars

\* The scheduler runs every thread, io_service::run() runs every handler
\* that is ready, and the operating system completes every operation on a
\* connected socket whose peer keeps reading.
Fairness ==
    /\ WF_vars(KernelConnect) /\ WF_vars(HandleConnect)
    /\ \A t \in Thread : WF_vars(AsyncWriteInit(t))
    /\ WF_vars(WriteStep) /\ WF_vars(WriteHandler)
    /\ WF_vars(ReadSome) /\ WF_vars(ReadFail) /\ WF_vars(ReadHandler)
    /\ WF_vars(CloseSocket)

FairSpec == Spec /\ Fairness
----------------------------------------------------------------------------
Status == {"busy", "ok", "error"}

WriteOps == [msg : 1..Len(accepted), next : Byte, status : Status]

SendTypeOK ==
    /\ socket \in {"connecting", "refused", "open", "broken", "closed"}
    /\ outcome \in {"pending", "timedOut", "error", "success"}
    /\ slots \in BOOLEAN
    /\ pc \in [Thread -> {"idle", "pushed"}]
    /\ accepted \in Seq(Msg) /\ Len(accepted) <= MaxSends
    /\ sendBuffer \in Seq(1..Len(accepted))
    /\ sendStart \in BOOLEAN
    /\ writes \in Seq(WriteOps)
    /\ wire \in Seq(Byte)
    /\ failed \subseteq 1..Len(accepted)

ReadTypeOK ==
    /\ closePosted \in BOOLEAN /\ disconnected \in BOOLEAN
    /\ partMessage \in Seq(Byte) /\ message_ \in Seq(Byte)
    /\ reading \in {"off", "armed", "ready", "eof", "reset", "error", "handling"}
    /\ inbox \in Seq(Seq(Byte)) /\ delivered \in Seq(Seq(Byte))
    /\ incoming \in Seq(Byte)
    /\ taken \in 0..Len(incoming)
    /\ peerClosed \in BOOLEAN

\* Types.  Every queued, written or reported number names a message that
\* send() accepted.
TypeOK == SendTypeOK /\ ReadTypeOK /\ Len(incoming) <= MaxIn

Follows(b, c) ==
    IF IsDelimiter(b) THEN c[1] = b[1] + 1 /\ c = FirstByte(c[1])
    ELSE c = ByteAfter(b)

\* The peer receives the frames whole, each once, in the order send()
\* queued them, whichever threads sent them: its stream is a prefix of the
\* concatenated frames.
WireInOrder ==
    \A k \in 1..Len(wire) :
        /\ wire[k][1] \in 1..Len(accepted)
        /\ IF k = 1 THEN wire[k] = FirstByte(1) ELSE Follows(wire[k - 1], wire[k])

\* At most one async_write is in progress, and it writes the string at the
\* front of sendBuffer, which stays there until the handler has run.
WriteIsFront ==
    \A i \in 1..Len(writes) :
        /\ i = 1
        /\ sendBuffer # <<>>
        /\ writes[i].msg = sendBuffer[1]

\* No lost wake-up between the two locked parts of send(): a queue that
\* nobody is writing belongs to a thread about to write it.
NoStranded ==
    Started /\ sendBuffer # <<>> /\ writes = <<>>
        => \E t \in Thread : pc[t] = "pushed"

OnWire(n) == \E k \in 1..Len(wire) : wire[k] = <<n, 0>>

\* A message that left the queue was handed over entirely or reported
\* through onSendError, unless stop() has disconnected the slots.
NoSilentLoss ==
    \A n \in 1..Len(accepted) :
        \/ \E j \in 1..Len(sendBuffer) : sendBuffer[j] = n
        \/ OnWire(n)
        \/ n \in failed
        \/ ~slots

\* The bytes handle_read has consumed.
Consumed == SubSeq(incoming, 1, taken - Len(message_))

\* However the stream is cut into reads, the application is told the same
\* messages, and no byte of an unfinished frame is lost.
ChunkingIrrelevant ==
    slots => /\ delivered \o inbox = DecodeMessage(Consumed)
             /\ partMessage = UnreceivedPart(Consumed)

\* Every queued message leaves the queue: a failed write does not block the
\* messages behind it.
EveryMessageLeaves ==
    \A n \in 1..MaxSends :
        Len(accepted) >= n ~> Len(accepted) - Len(sendBuffer) >= n

\* A complete frame reaches onReadMessage while the connection stays up;
\* MaxIn bytes hold at most so many messages.
FramesDelivered ==
    \A n \in 1..(MaxIn \div (Quantum + 1)) :
        Started /\ Len(DecodeMessage(incoming)) >= n
            ~> Len(delivered) >= n \/ socket # "open"

\* The end of the peer's stream is announced.
EofReported == Started /\ peerClosed ~> disconnected \/ socket # "open"
============================================================================
