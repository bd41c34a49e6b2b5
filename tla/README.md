# diginext, specified

TLA+ specifications of diginext, a key-value store over TCP in C++: what its
parts do, what they promise, model-checked with TLC on small instances and, for
the promises that matter most, proved with TLAPS for every value of the
constants. Paths are relative to the root of the repository.

## The system

| component | source | state it keeps | operations |
| --- | --- | --- | --- |
| `tcp_connection` | `core/src/TCP/TCPConnection.cpp` | socket, `sendBuffer`, `sendStart` under `sendSync`; `message_`, `partMessage` | `connect`, `start`, `send`, `stop`; handlers `handle_connect`, `handle_read`, `handle_write` |
| framing | `decode_message`, same file | none | cuts a text at `\n`, decodes each piece from Base64 |
| `tcp_server` | `core/src/TCP/TCPServer.cpp` | `connections` under `server_sync`; `started_status`, `server_thread`, the `io_service` | accept, forward the events of connections, `send`, `disconnect`, `start`, `stop` |
| `tcp_client` | `core/src/TCP/TCPClient.cpp` | `tcp_conn`, unprotected; the same run loop | `connect`, `send`, `disconnect`, `start`, `stop` |
| `StorageServer` | `core/src/Storage/StorageServer.cpp` | `dataStorage` under `dataSync` | answer a JSON request: read, write, or an error |
| `StorageClient` | `core/src/Storage/StorageClient.cpp` | `answer`, unprotected | `Connect`, `Disconnect`, `send`, `getAnswer` |
| client program | `client/src/main.cpp` | none | a line, a new client, a request, up to 15 s of waiting |
| server program | `server/src/main.cpp` | none | start a server and sleep |
| `Base64` | `core/src/Base64/Base64.cpp` | none | `Encode`, `Decode` |
| `Logger`, `ConsoleLogger`, log flags | `core/src/Log`, `core/src/TCP/TCP.cpp` | flags | output |
| tests | `gtest`, `test.LogConsole` | none | |

Each `tcp_server` and `tcp_client` owns an `io_service` and one thread that
runs it; every completion handler of its connections, and every slot of the
application, runs on that thread, one at a time. Other threads call `send`,
`stop` and `start` directly. What crosses between the two is protected by
`sendSync` (the send queue), `server_sync` (the list), `status_sync` (the
status) and `dataSync` (the storage), and sometimes by nothing. A connection
tells its owner what happens through signals; `tcp_server` and `tcp_client`
forward them to the application.

What is hard here: the send queue, which is filled by threads and drained by
completions; a byte stream that arrives in arbitrary pieces; connects, errors,
peer closes and `stop()` racing each other; a run loop that is stopped, joined
and perhaps started again; a connection that is replaced while handlers hold a
plain pointer to it; requests that arrive after their user has given up; a
handler that goes on after an error. `PROJECT.json` lists each such place
with its line.

## Modules

| module | models | needs |
| --- | --- | --- |
| `Selection` | a loop over a sequence that pushes back a value at some positions | |
| `SelectionProof` | lemmas about it, about sequences, and induction | `Selection` |
| `TcpConnection` | one connection, its properties and the mutants they catch | `Selection` |
| `TcpConnectionMC` | values for its constants | |
| `TcpConnectionProof` | its invariants, proved, and what its frames decode to | `TcpConnection`, `SelectionProof` |
| `MessageChannel` | abstract: what a connection delivers of what another one sends | `Selection` |
| `ConnectionPair` | two connections and the network between them, and the refinement | `TcpConnection` twice, `MessageChannel` |
| `ConnectionPairMC` | values for its constants | |
| `ConnectionPairProof` | the refinement, proved | `ConnectionPair`, `TcpConnectionProof` twice |
| `StorageRequests` | the protocol's requests and outcomes | |
| `KeyValueStore` | abstract: what the store promises its users | `StorageRequests` |
| `StorageSystem` | the server, the client programs, and the refinement | `StorageRequests`, `KeyValueStore` |
| `StorageSystemMC` | values for its constants | |
| `StorageSystemProof` | its invariants and the refinement, proved | `StorageSystem` |
| `IoRunner` | `start`, `stop` and destruction of a server or client | |
| `IoRunnerProof` | theorems about it | `IoRunner` |
| `StorageClient` | a storage client and the connections of its `tcp_client`, an `IoRunner` | `IoRunner` |
| `StorageClientMC` | values for its constants | |
| `StorageClientProof` | its invariants and the refinement, proved | `StorageClient` |
| `TcpServer` | the connections of a server: accepting, the slots, disconnecting | |
| `TcpServerMC` | values for its constants | |
| `TcpServerProof` | its safety invariants, proved | `TcpServer` |
| `Base64` | `Encode` and `Decode` as functions | |
| `Base64Messages` | what they promise for a message, and Base64 by its definition | `Base64` |
| `Base64MC` | chars for the run | |
| `Base64Proof` | the round trip, proved | `Base64Messages` |

Definitions marked *Mutant* are plausible mistakes; none is part of a
specification. Each property has one that breaks it.

### TcpConnection

One action per handler of the `io_service` thread and per critical section of
`sendSync`: `SendPush` and `AsyncWriteInit` are the two halves of `send()`,
between which other threads and handlers run; `HandleWrite` is `handle_write`
with its call of `async_write(false)`; `ReadSome` and `ReadFail` are
`async_read_until`; `HandleRead`, `AnnounceMessage` and `Rearm` are
`handle_read`, one announcement at a time because `stop()` may come between
two; `Stop` and `CloseSocket` are `stop()` and the handler it posts.
`IoFree` keeps two handlers from overlapping. `start()` is part of
`HandleConnect`; for a connection accepted by a server `handle_accept` plays
that role and the socket starts open. The uninitialized `sendStart` is either
value.

A message is its position in the order of `send()` calls, and a byte is its
message and its distance to the end of the frame: that is what order,
completeness and framing depend on. A Base64 text is a number of characters
that is a multiple of `Quantum`; a text that is not cannot be decoded.
`DecodeMessage` is `decode_message`: the texts before each of the `Delimiters`,
`TextBefore`, of which the loop over `message_vector`, a `Selection`, keeps those
that can be decoded. A write
whose string is no longer in `sendBuffer` sends `Garbage` or what it would have
sent.

`EarlyUse` says whether threads may use the connection before `start()` has
run. `handle_accept` lists and starts a connection under one lock, so nobody
finds one that is not started; `tcp_client::connect` publishes it before.

### ConnectionPair and MessageChannel

A sends and B reads: two instances of `TcpConnection`, each with the other half
idle, and three actions of the network. B's peer may also be a stranger, any
program that sends any bytes; that is where frames that cannot be decoded come
from. B is not stopped: after `stop()` nothing is claimed of what is announced.

`MessageChannel` is what the pair promises: messages are announced in the order
they were sent, each once, none out of turn, but never an empty one. An empty
message has an empty text, which `decode_message` skips; `Silent` are those
messages. `Named` maps an announced text to the message its first byte belongs
to.

### StorageSystem and KeyValueStore

The client program makes a new connection for each line typed, so a request is
a record of `calls`: who typed it, what, what the server answered, how many
answers arrived, what was printed. `HandleReadMessage` is
`handle_read_message`, with a disjunct for every way through it; it may happen
at any time after the request was typed, or never (`LoseRequest`), even after
its client gave up. `keyExists` and `readValue` take `dataSync` one after the
other, but are one step: only handlers use the storage, one thread runs them, and
nothing erases a key. `PollAnswered`, `PollAgain` and `GiveUp` are a turn of
`waitAnswer`, and its end.

Between the two ends there are two connections. The system relies on what
`ConnectionPair` shows: texts arrive whole, in order, each once, or not at all.
That a reply, once it has arrived, becomes the client's answer is
`StorageClient`'s.

`KeyValueStore` is the promise: a request takes effect at most once, at one
moment after it was typed; what a user is shown is what it did; a user has one
request at a time. Repeated replies, lateness and lost messages are not in it.
`Ops` maps a record of `calls` to an operation: its outcome is that of the last
reply, so that sending several replies is one step. The mapping is right only
because the replies to a request agree; that is `OneVerdict`.

### IoRunner

`tcp_server` and `tcp_client` share the text of `start`, `stop`, `waitStart`,
`waitStop` and the destructor. The owner is one thread that makes one call
after another; `owner` is its place in the call. `server_thread` is both the
`std::thread` object and the thread: `"none"` is not joinable, `"done"` has
ended and is joinable. `stopped` is the flag of the `io_service`, which
`io_service::stop()` sets and so does a `run()` that finds no work. `work` is
what is pending: of a server always its `async_accept`; of a client something
while a connect, a read, a write or a posted closing is pending.

A client's thread returns at once if the `io_service` pointer is null. Only the
destructor makes it so, after `stop()`, and a thread that has not run by then is
joinable and ends the program anyway: `ThreadStarts` leaves that return out.

`StorageServer::Start()` is `tcp_server::start()` of a server that is not
started, so a `CallStart`; `StorageServer::Stop()` only logs. The server program
calls `Start()` once and sleeps while the server is started.

### StorageClient

A `StorageClient` with its `tcp_client`: the owner's calls, the handlers of the
thread, and the connections that `connect()` has made, the current one and those
it replaced. The actions conjoin those of an instance of `IoRunner`, whose
`work` is here a function of the pending operations (`HasWork`), with what they
do to the connections. `Connect` and `Start` are the two halves of `Connect()`,
`Disconnect` and `Stop` those of `Disconnect()`; `ReadMessage` and
`AssignAnswer` are `handle_read` before and after the assignment to `answer`,
since `getAnswer()` takes no lock.

The question is who keeps a connection alive. Reads and writes hold a shared
pointer to it, and so does `tcp_conn`; `async_connect` and the closing that
`stop()` posts hold a plain `this`. `Held` says that some shared pointer is
left. That suffices only because `Connect()` does nothing while the client is
started, and because a run loop that has ended is never reset, so that what is
left of an old connection does not run.

What is sent, and what a reply says, is left out: a reply is its connection. Of
the sockets, `"ended"` is the peer's end of stream and `"failed"` any error.

### TcpServer

What `TcpConnection` and `IoRunner` leave out: the list, and who puts
connections into it and takes them out. `Io` is the thread of the run loop; it
runs one handler at a time, in steps that end where another thread may come
between, which is where `server_sync` is taken or released and where a slot is
entered. `App` are the application's threads inside `disconnect` or
`disconnectAll`. `at` is a thread's place with the connection it works on.
`handle_accept` is `Accept`, `ListConnection`, `Watch`, `AnnounceAccepted`,
with the lock held from the second to the last; after an accept error it goes
on the same way with a connection that has no peer, as the code does. A slot is
`Find` (the look-up), then `Forward`, or `Unslot`, `Erase` and
`AnnounceDisconnected`; `tcp_connection::stop()` runs the same slot on the
caller's thread, between `Emit` and `Post`. `heard` is what the application was
told of a connection, a history.

A connection is its identity; uuids are taken to be unique. `send` and
`sendAll` forward to connections that they look up and change nothing of the
server.

Two things that the model does and that are no property: two threads may both
announce the disconnection of a connection, and a connection whose stream fails
with an error other than the end or a reset stays in the list until the
application disconnects it. Neither contradicts anything the repository says;
both are among the hazards.

### Base64

`Base64` has the functions with the arithmetic of the code: `size_t` modulo
`SizeMod`, signed chars, an arithmetic shift as a division that rounds down.
`Written` counts the characters that go through the pointer `p`, `OutLen` those
allocated. `Reference` in `Base64Messages` is the definition of the encoding,
by bits. `TcpConnection` keeps of a text its number of characters and that it
holds no delimiter: `Frameable`.

## Runs

| run | instance | shows |
| --- | --- | --- |
| `send` | two threads, three messages, a peer that sends a frame; refusal, break and `stop()` at any moment; 295 thousand states | the wire carries a prefix of the frames in queue order; one write at a time, of the front of the queue; no message is left with nobody to write it; none leaves the queue unwritten and unreported; every message leaves |
| `channel` | two messages, each empty or one group of two characters, or six bytes of two letters and the delimiter from a stranger, every way to cut them; 259 thousand states | the messages do not depend on the cuts; complete frames and the end of the stream are announced while the connection is up; the pair implements `MessageChannel`; every message that is not empty arrives while neither end fails |
| `early_send` | two messages, one thread may use the connection early | **violated**: `start()` resets `sendStart` under a write in progress or leaves the queue unwritten |
| `storage` | two users, two requests, ten kinds: every branch; 61 thousand states | replies to a request agree, the storage holds values only, the system implements `KeyValueStore` |
| `runner` | a server or a client, two starts, the 30 tries of the code, work that ends at any time; 7 thousand states | after `stop()` nothing runs; every call returns; a server serves from its first `start()`, and no joinable thread of it is dropped before the second |
| `client` | two connections, two starts, one unread reply at a time; 405 thousand states | no handler uses a connection that has gone; `tcp_conn` is replaced only while no handler can read it; nothing runs after `Disconnect()`; every call returns; a reply becomes the answer; the client is an `IoRunner` |
| `answer_race` | one connection | **violated**: `answer` is assigned while `getAnswer()` reads it, or after the destructor has destroyed it |
| `restart` | a server, two starts | **violated**: the second `start()` does not serve, since nothing resets the `io_service` |
| `abandoned_client` | a client, one start | **violated**: when its connection has ended by itself, the destructor terminates the program |
| `server` | two connections, one application thread, two calls; 190 thousand states | removals and announcements come in order, no listed connection is unwatched, what ended or was to be disconnected leaves the list |
| `base64` | messages of up to five chars out of eight; 37 thousand states | `Encode` is Base64, its text can be framed, `Decode` gives the message back |
| `base64_one_char` | the same, one char included | **violated**: `in_len - 2` wraps around, and `Encode` writes beyond what it allocated |

Deadlock is not checked: a connection that is closed, a destroyed object, a
user without requests left, a server whose connections have gone and a message
of full length are meant to stop.

### Bounds

- `send`: a lost wake-up, a double write and a misplaced pop need two threads
  and a message behind another; the third message makes a queue of two behind a
  write. Frames of two bytes have a first and a last one; `channel` has those of
  one byte (an empty message) and of three, with a middle. The peer's two bytes
  are enough for a read to be armed, ready, announced and armed again under
  each state of the sender.
- `channel`: six bytes hold two frames of one group, or frames that cannot be
  decoded, empty ones, and an unfinished end; every division into reads occurs.
  Of two messages one may be empty in front of or behind the other. `Quantum`
  is two instead of Base64's four: only divisibility matters.
- `storage`: the handler looks at one request and one key; two users make
  every overlap of two requests, a late write and a read of its key among them.
  The theorems have no bound. `TornReads` is `FALSE`: with `TRUE` what a user is
  shown can be anything, and nothing that `KeyValueStore` promises can hold. It
  isolates the data race that `answer_race` shows.
- `runner`: `MaxTry` is the code's 30. One `start()` more than `ServesOnce` and
  `ServerSurvives` are about is where the code goes wrong; `restart` and
  `abandoned_client` show it.
- `client`: two connections are an old one and its successor; a third would
  replace the second as that one the first. `MaxTry` is 2: more turns of a wait
  change nothing but the count. The safety theorems have no bound.
- `server`: the races are between `Io` and a disconnecting thread over one
  connection, and over two neighbours in the list; two calls make a
  `disconnectAll()` over a stale copy. Two application threads are covered by
  the theorems, which have no bound.
- `base64`: three groups of lengths, one group and its rests, two groups; the
  chars have each bit set and clear, and both signs. `SizeMod` is 2^16, not
  2^64: what matters is that it is larger than any length. `RoundTripHolds` is
  for any chars, lengths and `SizeMod`.

### Fairness

`TcpConnection!Fairness`: threads inside `send()` are scheduled; `run()` runs
handlers that are ready; the operating system completes reads and writes of a
socket, which for writes means that the peer keeps reading. No fairness for
`send()`, `stop()`, the peer or failures. `IoRunner!FairSpec`: the two threads
are scheduled and `sleep_for` ends. That `io_service` work finishes is not
assumed. `ConnectionPair!FairSpec`: the same for each end, and the network
transmits what was written, and the end of the stream. `StorageClient!Fairness`:
the owner goes on inside a call, the thread is scheduled, the operating system
answers a connect, a message that has been read is assigned; a message that has
arrived is read in its turn, hence strong fairness. No call is assumed to be
made. `TcpServer!Fairness`: the threads are scheduled, each `mutex` is
released soon; a read that has ended is taken in turn by the run loop, whose
queue is first in, first out, however busy the other handlers keep it, hence
strong fairness. The storage has no liveness property: nothing retries, and giving up
is all the client promises.

## Proofs

`TcpConnectionProof`, sending. With `EarlyUse = FALSE`, for any threads,
messages, sizes and bound: `SendOrder`, `OneWriteAtATime`, `NoLostWakeup`,
`SendAccounted`. None of the four is inductive. The invariant `SendInv` adds
that nothing is used before `start()`; that `sendBuffer` is the tail of the
accepted messages, consecutive numbers up to the last; that `sendStart` holds
exactly while there is a write; that the wire ends where the write in progress
stands (`Position`), so the next byte continues it; that whatever precedes the
front of the queue is written or reported.

`TcpConnectionProof`, reading. For any bytes of the peer and any cuts, early use
included: `TypeCorrect` and `ReadsAsAWhole`, the latter that `handle_read`
announces and keeps what `decode_message` makes of all the bytes at once
(`ChunkingIrrelevant`). The invariant `ReadInv` adds that `message_` is the part
of the stream just before `taken` (`Buffered`), that nothing is read before
`start()` (`Unread`) and that decoded messages wait only in the handler that
decoded them (`Announcing`). The step that matters is `HandleRead`, and its lemma
`DecodeResumes`: for byte strings `x` and `y`, decoding the unreceived part of
`x` followed by `y` gives what decoding `x` followed by `y` gives beyond the
messages of `x`, and leaves the same unreceived part. It is an induction over `y`,
one byte at a time (`DecodeAppend`, `UnreceivedAppend`).

`ConnectionPairProof`. `PairImplementsChannel`: for any messages, sizes, threads,
bounds, cuts and failures, the pair implements `MessageChannel`; and
`PairReadsAsAWhole`. The lemmas about one connection are those of
`TcpConnectionProof`, instantiated for either end. `PairInv` is `SendInv` of A,
`ReadInv` of B, and that what arrived at B is a prefix of A's wire (`Arrived`). A
sends frames in order (`WireInOrder`), so the first `j` bytes of its wire decode
to the texts of the messages whose frames ended there, without the empty ones,
and leave the frame begun (`AllFramed`, by induction over `j`). With
`ReadsAsAWhole` the texts announced are a prefix of these (`TextsInOrder`), each
named by its first byte (`AnnouncedNamed`); so an announcement is a `Deliver`
(`ToldNext`), accepting a message changes nothing of the earlier names
(`ToldKept`) and is a `Send`, and every other step stutters.

`SelectionProof`. The loop of `Selection` is a recursive function, and what it
computes for every length needs induction. The library's theorem takes an
operator as a parameter, which no installed prover instantiates; `Induction` is
the same for a set, by the pigeonhole principle of `FunctionTheorems`. With it,
`SolutionExists` and `SolutionsAgree` say that a function with the loop's
equations exists and is the only one, and `SelectionNext` is one turn of the
loop. `Selection` has a set and a function for parameters, where `SelectSeq` has
an operator, so that these lemmas can be stated of all of them.

`StorageSystemProof`. `SystemInv` is the type invariant with `Agree`: no more
replies are received than sent, and the replies to a request agree. From it
follow `TypeCorrect`, `AnswersAgree` and, when `TornReads = FALSE`,
`Refinement`: each branch of the handler is a `Read`, `Write` or `Reject`,
printing an answer is a `Return` because any answer has the outcome of the
last, and losing, receiving and polling change nothing that users see.

`IoRunnerProof`. `TypeCorrect` for any servers and clients. Under `Prompt`, that
a new thread runs within the 30 s of `waitStart`: `StopQuiets`, from `QuietInv`,
which says that only `waitStart` sees a thread that has not run; `ServerRuns` and
`ServerNeverTerminates`, from `ServerInv`, a description of each stage of a
server that is started at most once. What the properties except is needed:
`restart` and `abandoned_client` are what happens otherwise.

`StorageClientProof`. `Refinement`: every step of a client is a step of an
`IoRunner` or leaves it alone (`StepOfRunner`). Calls and the thread conjoin the
runner's actions, so it is about the others, and `HasWork`: a handler was pending, so the
loop had work before it, and it either leaves some or was the last. Under
`Prompt`: `NoDanglingThis`, `ClientQuiets` and `ReplacedUnread`, from
`ClientInv`. It takes from the run loop (`RunnerInv`, kept by every step of an
`IoRunner`) that nothing runs after a completed `stop()` and that a loop that was
left stays stopped, and adds that on a service that is not stopped the
operations with a plain `this` are the current connection's (`Current`), that a
service that has not run has no connection unless one was just made (`Fresh`),
and that only a loop that runs is in the middle of a message (`InHandler`).
`ConnectAtRest` is the step that matters: `Connect()` replaces a connection only
after a loop that has ended, or makes the first.

`TcpServerProof`. For any connections, threads and calls: `TypeCorrect`,
`AnnouncedInOrder`, `RemovedBeforeAnnounced`, `AlwaysWatched`. The invariant
`Inv` adds who may be where (`Roles`), when the lock is held (`Lock`), that
`handle_accept` works on a connection nobody was told of (`Accepting`), that the
others find one only after `onAccepted` (`Known`), that a thread about to
announce has removed (`Told`), and that a socket is closed only when a thread is
already removing its connection (`Closing`): without it, the posted closing
could take the slots of a listed connection. `Moves` is the lemma for the steps
that only take a thread elsewhere; each other action has its own.

`Base64Proof`. `EncodeCorrectHolds`, `RoundTripHolds` and `FrameableHolds`, for
any chars, lengths and `SizeMod`. `ExactFit` says that the loop and the rest write
as much as was allocated, unless there is one char; `GroupText` which characters stand where;
`Inverse` that decoding a group of four gives its three chars, one char and bit
field at a time. For `EncodeCorrectHolds`, `CharBits` finds the bits of a char in
the stream of the definition, `ByteBits` and `TwoBytes` say what shifts and masks
make of them, and `GroupSextets` puts both together: the six bits the definition
takes for a character are those the code takes, whatever the sign of the char.

Every invariant that a run checks, and every refinement, is a theorem. Only
model-checked are the liveness properties, `EveryMessageLeaves`,
`FramesDelivered`, `EofReported`, `AudibleArrive`, `CallsReturn` of `IoRunner` and
of `StorageClient`, `AnswerArrives`, `EndedIsForgotten` and
`DisconnectCompletes`, since fairness and `ENABLED` are out of the prover's reach.

Three hypotheses of theorems are about the environment. `EarlyUse = FALSE`: `early_send` shows
what happens otherwise. `TornReads = FALSE` leaves out the data race of
`answer_race`. `Prompt`, that a new thread runs within the 30 s of `waitStart`,
is assumed by the runs too, so what a thread that runs later does to `stop()` is
not shown.

## Assumptions and what is not modelled

- Slots do not throw and do not block. A slot that throws in `handle_read`
  ends the run loop.
- Boost.Asio, the kernel and the peer are modelled from how the code uses
  them: completions come once, stream bytes arrive in order.
- Messages that `Base64::Encode` is defined for: `TcpConnection` and
  `StorageSystem` have no message of one char.
- Slots of the application call neither `disconnect` nor anything that takes
  `server_sync`: in `onAccepted` the latter would block for ever.
- The lifetime of a `tcp_server` or `StorageServer` while its handlers run;
  that of a client and its connections is `StorageClient`'s. The only program
  with a server destroys it after the run loop has ended by itself, which
  `ServesOnce` excludes.
- The server program, which starts a server and sleeps; it has no step that is
  not a call of `IoRunner`'s owner.
- Logging, formatting of JSON and of replies; the log flags; the tests, which
  have no logic of their own; the build.

## Plan

Every component that changes state has its module. What could come next:

1. What the sending half promises when it is used before `start()`: which of its
   invariants survive a reset of `sendStart`, and their proofs.
2. `StorageSystem` over `ConnectionPair`, in place of requests and replies that
   arrive whole or not at all.
3. The destruction of a `StorageServer` under a running handler, if a program
   comes to do so.
