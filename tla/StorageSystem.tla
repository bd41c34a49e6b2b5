--------------------------- MODULE StorageSystem ---------------------------
(***************************************************************************)
(* The storage server (core/src/Storage/StorageServer.cpp) and the users   *)
(* of the command line client (client/src/main.cpp, StorageClient.cpp).    *)
(*                                                                         *)
(* The client makes a new StorageClient, hence a new connection, for each  *)
(* request, so a connection carries one request; it is named by the        *)
(* request's position in `calls`.  The server's handlers run one at a time *)
(* on its io_service thread, in any order across connections.  What a      *)
(* connection does with the messages in between is TcpConnection's; here a *)
(* request arrives later or never, and answers arrive in order or not at   *)
(* all.                                                                    *)
(***************************************************************************)
EXTENDS Naturals, Sequences, StorageRequests

CONSTANTS
    User,       \* people at a client, each running main()
    Typed,      \* the requests they type
    MaxCalls,   \* bound: requests typed
    MaxPolls,   \* the MAX_COUNT of waitAnswer
    TornReads   \* may getAnswer() run while handle_read_message assigns
                \* `answer` on another thread and return neither string?

ASSUME SystemAssumption ==
    /\ Typed \subseteq Request
    /\ MaxCalls \in Nat
    /\ MaxPolls \in Nat
    /\ TornReads \in BOOLEAN

VARIABLES
    dataStorage,
    calls

vars == <<dataStorage, calls>>

\* Replies are JSON objects; their descriptions tell the error replies apart.
Description == {"request not found", "key not found", "key not in storage",
                "bad request", "parse error", "none"}
ErrorStatus(d) == [status |-> "error", value |-> Absent, description |-> d]
OkRead(v) == [status |-> "ok", value |-> v, description |-> "none"]
OkWrite == [status |-> "ok", value |-> Absent, description |-> "none"]
NoReply == [status |-> "none", value |-> Absent, description |-> "none"]
Torn == [status |-> "torn", value |-> Absent, description |-> "none"]

Reply == {ErrorStatus(d) : d \in Description \ {"none"}}
         \cup {OkRead(v) : v \in Value} \cup {OkWrite}

Call == [user : User, req : Typed,
         lost : BOOLEAN,            \* the connection failed before the request
                                    \* reached the server
         replies : Seq(Reply),      \* what the server sent for it
         received : Nat,            \* how many of them the client got
         polls : 0..MaxPolls,       \* turns of waitAnswer
         done : BOOLEAN,            \* waitAnswer returned, the client is gone
         shown : Reply \cup {NoReply, Torn}]    \* what it printed

Init ==
    /\ dataStorage = [k \in Key |-> Absent]
    /\ calls = <<>>
----------------------------------------------------------------------------
(* StorageServer::handle_read_message *)

SendReplies(n, replies) == calls' = [calls EXCEPT ![n].replies = replies]

\* The checks for missing fields do not return: each sends its error and
\* lets the access to the field fail later.
Missing(r) ==
    (IF r.request = Absent THEN <<ErrorStatus("request not found")>> ELSE <<>>)
    \o (IF r.key = Absent THEN <<ErrorStatus("key not found")>> ELSE <<>>)

\* json[...].get<string>() throws, the catch-all answers.
HandleMalformed(n) ==
    LET r == calls[n].req IN
    /\ r.request \in {Absent, NotText} \/ r.key \in {Absent, NotText}
    /\ SendReplies(n, Missing(r) \o <<ErrorStatus("parse error")>>)
    /\ UNCHANGED dataStorage

\* Mutant: readValue() alone, which answers an unknown key with a value.
HandleReadUnchecked(n) ==
    LET r == calls[n].req IN
    /\ r.request = "read" /\ r.key \in Key
    /\ SendReplies(n, <<OkRead(dataStorage[r.key])>>)
    /\ UNCHANGED dataStorage

\* keyExists() and readValue() take dataSync one after the other, but only
\* handlers use the storage, which one thread runs: nothing comes between.
HandleRead(n) ==
    LET r == calls[n].req IN
    /\ r.request = "read" /\ r.key \in Key
    /\ SendReplies(n, IF dataStorage[r.key] # Absent
                      THEN <<OkRead(dataStorage[r.key])>>
                      ELSE <<ErrorStatus("key not in storage")>>)
    /\ UNCHANGED dataStorage

HandleWrite(n) ==
    LET r == calls[n].req IN
    /\ r.request = "write" /\ r.key \in Key
    /\ r.value \in Value
    /\ dataStorage' = [dataStorage EXCEPT ![r.key] = r.value]
    /\ SendReplies(n, <<OkWrite>>)

\* Mutants: the value is stored whatever its type; a missing value is a
\* default one.
HandleWriteAnyType(n) ==
    LET r == calls[n].req IN
    /\ r.request = "write" /\ r.key \in Key
    /\ r.value \notin Value
    /\ dataStorage' = [dataStorage EXCEPT ![r.key] = r.value]
    /\ SendReplies(n, <<OkWrite>>)

HandleWriteDefault(n) ==
    LET r == calls[n].req IN
    /\ r.request = "write" /\ r.key \in Key
    /\ r.value \notin Value
    /\ \E v \in Value : dataStorage' = [dataStorage EXCEPT ![r.key] = v]
    /\ SendReplies(n, <<ErrorStatus("key not found"), OkWrite>>)

\* The reply about a missing value names the key.
HandleWriteMalformed(n) ==
    LET r == calls[n].req IN
    /\ r.request = "write" /\ r.key \in Key
    /\ r.value \notin Value
    /\ SendReplies(n,
          (IF r.value = Absent THEN <<ErrorStatus("key not found")>> ELSE <<>>)
          \o <<ErrorStatus("parse error")>>)
    /\ UNCHANGED dataStorage

HandleUnknown(n) ==
    LET r == calls[n].req IN
    /\ r.request = "other" /\ r.key \in Key
    /\ SendReplies(n, <<ErrorStatus("bad request")>>)
    /\ UNCHANGED dataStorage

HandleReadMessage(n) ==
    /\ ~calls[n].lost
    /\ calls[n].replies = <<>>
    /\ \/ HandleMalformed(n)
       \/ HandleRead(n)
       \/ HandleWrite(n) \/ HandleWriteMalformed(n)
       \/ HandleUnknown(n)
----------------------------------------------------------------------------
(* The client *)

\* main: read a line, make a client, connect, send.
SendRequest(u, r) ==
    /\ Len(calls) < MaxCalls
    /\ \A n \in DOMAIN calls : calls[n].user = u => calls[n].done
    /\ calls' = Append(calls,
          [user |-> u, req |-> r, lost |-> FALSE, replies |-> <<>>,
           received |-> 0, polls |-> 0, done |-> FALSE, shown |-> NoReply])
    /\ UNCHANGED dataStorage

\* The connection is refused or breaks, or the client goes before its write.
LoseRequest(n) ==
    /\ ~calls[n].lost
    /\ calls[n].replies = <<>>
    /\ calls' = [calls EXCEPT ![n].lost = TRUE]
    /\ UNCHANGED dataStorage

\* StorageClient::handle_read_message overwrites `answer`.
ReceiveReply(n) ==
    /\ ~calls[n].done
    /\ calls[n].received < Len(calls[n].replies)
    /\ calls' = [calls EXCEPT ![n].received = @ + 1]
    /\ UNCHANGED dataStorage

Answer(c) == IF c.received = 0 THEN NoReply ELSE c.replies[c.received]

\* One turn of waitAnswer: print the answer and return, or sleep.
PollAnswered(n) ==
    /\ ~calls[n].done
    /\ calls[n].polls < MaxPolls
    /\ \/ /\ Answer(calls[n]) # NoReply
          /\ calls' = [calls EXCEPT ![n].done = TRUE, ![n].shown = Answer(calls[n])]
       \/ /\ TornReads /\ calls[n].received < Len(calls[n].replies)
          /\ calls' = [calls EXCEPT ![n].done = TRUE, ![n].shown = Torn]
    /\ UNCHANGED dataStorage

PollAgain(n) ==
    /\ ~calls[n].done
    /\ calls[n].polls < MaxPolls
    /\ Answer(calls[n]) = NoReply
    /\ calls' = [calls EXCEPT ![n].polls = @ + 1]
    /\ UNCHANGED dataStorage

\* waitAnswer runs out of turns: nothing is printed, the client is dropped.
GiveUp(n) ==
    /\ ~calls[n].done
    /\ calls[n].polls = MaxPolls
    /\ calls' = [calls EXCEPT ![n].done = TRUE]
    /\ UNCHANGED dataStorage
----------------------------------------------------------------------------
Next ==
    \/ \E u \in User, r \in Typed : SendRequest(u, r)
    \/ \E n \in DOMAIN calls :
          \/ HandleReadMessage(n)
          \/ LoseRequest(n) \/ ReceiveReply(n)
          \/ PollAnswered(n) \/ PollAgain(n) \/ GiveUp(n)

Spec == Init /\ [][Next]_vars
----------------------------------------------------------------------------
\* Types.  The storage holds values only, never the null of a missing field.
TypeOK ==
    /\ dataStorage \in [Key -> Value \cup {Absent}]
    /\ calls \in Seq(Call)

OutcomeOf(reply) == [status |-> reply.status, value |-> reply.value]

\* A request may be answered more than once, but the answers agree, and the
\* client may print any of them.
OneVerdict ==
    \A n \in DOMAIN calls :
        \A i, j \in DOMAIN calls[n].replies :
            OutcomeOf(calls[n].replies[i]) = OutcomeOf(calls[n].replies[j])

\* A request, seen from outside.
OpOf(c) ==
    [user |-> c.user, req |-> c.req, done |-> c.done, shown |-> OutcomeOf(c.shown),
     result |-> IF c.replies = <<>> THEN Nothing
                ELSE OutcomeOf(c.replies[Len(c.replies)])]

Ops == [n \in DOMAIN calls |-> OpOf(calls[n])]

Store == INSTANCE KeyValueStore WITH store <- dataStorage, ops <- Ops

\* The system implements the key-value store: late requests, timeouts,
\* repeated and dropped answers are invisible to the users.
ImplementsStore == Store!Spec
============================================================================
