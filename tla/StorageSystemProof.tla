------------------------- MODULE StorageSystemProof -------------------------
(***************************************************************************)
(* The storage system implements KeyValueStore, for any users, keys,       *)
(* values and requests, when getAnswer() returns a string that was         *)
(* assigned (TornReads = FALSE); the other theorems do not need that.      *)
(***************************************************************************)
EXTENDS StorageSystem, SequenceTheorems, TLAPS

USE RequestAssumption, SystemAssumption
----------------------------------------------------------------------------
\* The client has received no more than was sent, and the answers to a
\* request agree: what is printed is then the request's outcome.
Agree(c) ==
    /\ c.received <= Len(c.replies)
    /\ \A i, j \in DOMAIN c.replies :
           OutcomeOf(c.replies[i]) = OutcomeOf(c.replies[j])

SystemInv == TypeOK /\ \A n \in DOMAIN calls : Agree(calls[n])

\* A step that changes one request.
LEMMA CallStep ==
    ASSUME SystemInv, NEW n \in DOMAIN calls, NEW c \in Call, Agree(c),
           calls' = [calls EXCEPT ![n] = c],
           dataStorage' \in [Key -> Value \cup {Absent}]
    PROVE  SystemInv'
<1>1. calls \in Seq(Call) /\ n \in 1..Len(calls)
    BY DEF SystemInv, TypeOK
<1>2. calls' \in Seq(Call) /\ DOMAIN calls' = DOMAIN calls
    BY <1>1, ExceptSeq
<1>3. \A m \in DOMAIN calls : calls'[m] = IF m = n THEN c ELSE calls[m]
    BY <1>1
<1> QED BY <1>2, <1>3 DEF SystemInv, TypeOK

\* What a request looks like.
LEMMA CallShape ==
    ASSUME SystemInv, NEW n \in DOMAIN calls
    PROVE  /\ calls[n] \in Call /\ Agree(calls[n])
           /\ calls[n].req \in Request
           /\ dataStorage \in [Key -> Value \cup {Absent}]
<1>1. calls \in Seq(Call)
    BY DEF SystemInv, TypeOK
<1>2. calls[n] \in Call
    BY <1>1
<1> QED BY <1>2 DEF SystemInv, TypeOK, Call

\* Every error reply is a reply, with the outcome of an error.
LEMMA ErrorReply ==
    ASSUME NEW d \in Description \ {"none"}
    PROVE  ErrorStatus(d) \in Reply /\ OutcomeOf(ErrorStatus(d)) = Error
BY DEF Reply, ErrorStatus, OutcomeOf, Error

\* Sequences of error replies, what the checks of a request send.
Errors(s) ==
    /\ s \in Seq(Reply)
    /\ \A i \in 1..Len(s) : OutcomeOf(s[i]) = Error

\* One error, or none, is a sequence of errors.
LEMMA ErrorSequences ==
    ASSUME NEW d \in Description \ {"none"}
    PROVE  Errors(<<>>) /\ Errors(<<ErrorStatus(d)>>)
BY ErrorReply DEF Errors

\* So is a sequence of errors after another.
LEMMA ErrorConcat ==
    ASSUME NEW s, NEW t, Errors(s), Errors(t)
    PROVE  Errors(s \o t) /\ Len(s \o t) = Len(s) + Len(t)
BY ConcatProperties DEF Errors

\* A sequence of errors is the answer of a rejected request.
LEMMA MissingErrors ==
    ASSUME NEW r
    PROVE  /\ Errors(Missing(r) \o <<ErrorStatus("parse error")>>)
           /\ Len(Missing(r) \o <<ErrorStatus("parse error")>>) > 0
<1> DEFINE a == IF r.request = Absent THEN <<ErrorStatus("request not found")>> ELSE <<>>
           b == IF r.key = Absent THEN <<ErrorStatus("key not found")>> ELSE <<>>
           c == <<ErrorStatus("parse error")>>
<1>1. Errors(a) /\ Errors(b)
    <2>1. /\ Errors(<<>>) /\ Errors(<<ErrorStatus("request not found")>>)
          /\ Errors(<<ErrorStatus("key not found")>>)
        <3>1. /\ "request not found" \in Description \ {"none"}
              /\ "key not found" \in Description \ {"none"}
            BY DEF Description
        <3> QED BY <3>1, ErrorSequences, Zenon
    <2>2. \/ a = <<ErrorStatus("request not found")>> \/ a = <<>>
        OBVIOUS
    <2>3. \/ b = <<ErrorStatus("key not found")>> \/ b = <<>>
        OBVIOUS
    <2> HIDE DEF a, b
    <2> QED BY <2>1, <2>2, <2>3, Zenon
<1>5. Errors(c) /\ Len(c) = 1
    BY ErrorSequences DEF Description
<1>2. Missing(r) = a \o b
    BY DEF Missing
<1> HIDE DEF a, b, c
<1>3. Errors(a \o b) /\ Len(a \o b) \in Nat
    BY <1>1, ErrorConcat DEF Errors
<1>4. Errors((a \o b) \o c) /\ Len((a \o b) \o c) = Len(a \o b) + 1
    BY <1>5, <1>3, ErrorConcat
<1>6. Errors(Missing(r) \o c) /\ Len(Missing(r) \o c) > 0
    BY <1>2, <1>3, <1>4
<1> QED BY <1>6 DEF c

\* The answers to a write without a text to store are errors.
LEMMA ValueErrors ==
    ASSUME NEW v
    PROVE  LET s == (IF v = Absent THEN <<ErrorStatus("key not found")>> ELSE <<>>)
                    \o <<ErrorStatus("parse error")>>
           IN  Errors(s) /\ Len(s) > 0
<1> DEFINE a == IF v = Absent THEN <<ErrorStatus("key not found")>> ELSE <<>>
           c == <<ErrorStatus("parse error")>>
<1>1. "key not found" \in Description \ {"none"} /\ "parse error" \in Description \ {"none"}
    BY DEF Description
<1>2. Errors(<<ErrorStatus("key not found")>>) /\ Errors(c) /\ Errors(<<>>)
    BY <1>1, ErrorSequences, Zenon
<1>3. a = <<ErrorStatus("key not found")>> \/ a = <<>>
    OBVIOUS
<1>4. Len(c) = 1
    OBVIOUS
<1> SUFFICES Errors(a \o c) /\ Len(a \o c) > 0
    OBVIOUS
<1> HIDE DEF a, c
<1>5. Errors(a) /\ Len(a) \in Nat
    <2>1. Errors(a)
        BY <1>2, <1>3, Zenon
    <2> QED BY <2>1 DEF Errors
<1>6. Errors(a \o c) /\ Len(a \o c) = Len(a) + Len(c)
    BY <1>2, <1>5, ErrorConcat
<1> QED BY <1>4, <1>5, <1>6

\* A sequence of errors agrees with itself.
LEMMA ErrorsAgree ==
    ASSUME NEW s, Errors(s)
    PROVE  s \in Seq(Reply) /\ \A i, j \in DOMAIN s : OutcomeOf(s[i]) = OutcomeOf(s[j])
<1>1. s \in Seq(Reply) /\ DOMAIN s = 1..Len(s)
    BY DEF Errors
<1> QED BY <1>1 DEF Errors

\* Sending answers that agree to an unanswered request.
LEMMA RepliesStep ==
    ASSUME SystemInv, NEW n \in DOMAIN calls, calls[n].replies = <<>>,
           NEW s \in Seq(Reply), SendReplies(n, s),
           \A i, j \in DOMAIN s : OutcomeOf(s[i]) = OutcomeOf(s[j]),
           dataStorage' \in [Key -> Value \cup {Absent}]
    PROVE  SystemInv'
<1> DEFINE c == [calls[n] EXCEPT !.replies = s]
<1>1. calls[n] \in Call /\ Agree(calls[n])
    BY CallShape
<1>2. calls[n].received = 0
    BY <1>1 DEF Agree, Call
<1>3. c \in Call
    BY <1>1 DEF Call
<1>4. c.received = 0 /\ c.replies = s
    BY <1>1, <1>2 DEF Call
<1>5. Agree(c)
    <2> HIDE DEF c
    <2>1. c.received <= Len(c.replies)
        BY <1>4
    <2> QED BY <1>4, <2>1 DEF Agree
<1>6. calls' = [calls EXCEPT ![n] = c]
    BY DEF SendReplies
<1> HIDE DEF c
<1> QED BY <1>3, <1>5, <1>6, CallStep

\* Sending one answer.
LEMMA ReplyStep ==
    ASSUME SystemInv, NEW n \in DOMAIN calls, calls[n].replies = <<>>,
           NEW x \in Reply, SendReplies(n, <<x>>),
           dataStorage' \in [Key -> Value \cup {Absent}]
    PROVE  SystemInv'
<1> DEFINE s == <<x>>
<1>1. s \in Seq(Reply) /\ DOMAIN s = {1}
    OBVIOUS
<1>2. SendReplies(n, s)
    OBVIOUS
<1> HIDE DEF s
<1>3. \A i, j \in DOMAIN s : OutcomeOf(s[i]) = OutcomeOf(s[j])
    BY <1>1
<1> QED BY <1>1, <1>2, <1>3, RepliesStep

\* Whatever branch the handler takes, its answers agree.
LEMMA HandlerReplies ==
    ASSUME SystemInv, NEW n \in DOMAIN calls, HandleReadMessage(n)
    PROVE  SystemInv'
<1>1. /\ calls[n].replies = <<>>
      /\ calls[n] \in Call /\ calls[n].req \in Request
      /\ dataStorage \in [Key -> Value \cup {Absent}]
    BY CallShape DEF HandleReadMessage
<1>2. \A d \in Description \ {"none"} : ErrorStatus(d) \in Reply
    BY ErrorReply
<1>3. CASE HandleMalformed(n)
    <2>1. SendReplies(n, Missing(calls[n].req) \o <<ErrorStatus("parse error")>>)
          /\ UNCHANGED dataStorage
        BY <1>3 DEF HandleMalformed
    <2> QED BY <1>1, <2>1, MissingErrors, ErrorsAgree, RepliesStep
<1>4. CASE HandleRead(n)
    <2> DEFINE k == calls[n].req.key
    <2>1. k \in Key /\ UNCHANGED dataStorage
        BY <1>4 DEF HandleRead
    <2>2. CASE dataStorage[k] # Absent
        <3>1. SendReplies(n, <<OkRead(dataStorage[k])>>)
            BY <1>4, <2>2 DEF HandleRead
        <3>2. OkRead(dataStorage[k]) \in Reply
            BY <1>1, <2>1, <2>2 DEF Reply
        <3> QED BY <1>1, <2>1, <3>1, <3>2, ReplyStep
    <2>3. CASE dataStorage[k] = Absent
        <3>1. SendReplies(n, <<ErrorStatus("key not in storage")>>)
            BY <1>4, <2>3 DEF HandleRead
        <3>2. ErrorStatus("key not in storage") \in Reply
            BY <1>2 DEF Description
        <3> QED BY <1>1, <2>1, <3>1, <3>2, ReplyStep
    <2> QED BY <2>2, <2>3
<1>5. CASE HandleWrite(n)
    <2>1. SendReplies(n, <<OkWrite>>) /\ dataStorage' \in [Key -> Value \cup {Absent}]
        BY <1>1, <1>5 DEF HandleWrite
    <2>2. OkWrite \in Reply
        BY DEF Reply
    <2> QED BY <1>1, <2>1, <2>2, ReplyStep
<1>6. CASE HandleWriteMalformed(n)
    <2> DEFINE s == (IF calls[n].req.value = Absent
                     THEN <<ErrorStatus("key not found")>> ELSE <<>>)
                    \o <<ErrorStatus("parse error")>>
    <2>1. SendReplies(n, s) /\ UNCHANGED dataStorage
        BY <1>6 DEF HandleWriteMalformed
    <2>2. Errors(s)
        BY ValueErrors
    <2> HIDE DEF s
    <2> QED BY <1>1, <2>1, <2>2, ErrorsAgree, RepliesStep
<1>7. CASE HandleUnknown(n)
    <2>1. SendReplies(n, <<ErrorStatus("bad request")>>) /\ UNCHANGED dataStorage
        BY <1>7 DEF HandleUnknown
    <2>2. ErrorStatus("bad request") \in Reply
        BY <1>2 DEF Description
    <2> QED BY <1>1, <2>1, <2>2, ReplyStep
<1> QED BY <1>3, <1>4, <1>5, <1>6, <1>7 DEF HandleReadMessage

\* Typing a request adds one without an answer.
LEMMA SendStep ==
    ASSUME SystemInv, NEW u \in User, NEW r \in Typed, SendRequest(u, r)
    PROVE  SystemInv'
<1> DEFINE c == [user |-> u, req |-> r, lost |-> FALSE, replies |-> <<>>,
                 received |-> 0, polls |-> 0, done |-> FALSE, shown |-> NoReply]
<1>1. calls \in Seq(Call) /\ calls' = Append(calls, c) /\ UNCHANGED dataStorage
    BY DEF SystemInv, TypeOK, SendRequest
<1>2. c \in Call
    BY DEF Call
<1>3. Agree(c)
    BY DEF Agree
<1> HIDE DEF c
<1>4. /\ calls' \in Seq(Call) /\ DOMAIN calls' = 1..(Len(calls) + 1)
      /\ \A m \in 1..Len(calls) : calls'[m] = calls[m]
      /\ calls'[Len(calls) + 1] = c
    BY <1>1, <1>2, AppendProperties
<1>5. \A m \in DOMAIN calls' : Agree(calls'[m])
    <2> TAKE m \in DOMAIN calls'
    <2>1. CASE m \in 1..Len(calls)
        BY <1>4, <2>1 DEF SystemInv, TypeOK
    <2>2. CASE m = Len(calls) + 1
        BY <1>3, <1>4, <2>2
    <2>3. Len(calls) \in Nat
        BY <1>1
    <2> QED BY <1>4, <2>1, <2>2, <2>3
<1> QED BY <1>1, <1>4, <1>5 DEF SystemInv, TypeOK

\* What the client of a request does keeps its answers.
LEMMA ClientStep ==
    ASSUME SystemInv, NEW n \in DOMAIN calls,
           \/ LoseRequest(n) \/ ReceiveReply(n)
           \/ PollAnswered(n) \/ PollAgain(n) \/ GiveUp(n)
    PROVE  SystemInv'
<1> DEFINE c == calls[n]
<1>1. c \in Call /\ Agree(c)
    BY CallShape
<1>2. Len(c.replies) \in Nat /\ c.received \in Nat /\ c.replies \in Seq(Reply)
    BY <1>1 DEF Call
<1>3. dataStorage' \in [Key -> Value \cup {Absent}]
    BY CallShape DEF LoseRequest, ReceiveReply, PollAnswered, PollAgain, GiveUp
<1>4. CASE LoseRequest(n)
    <2> DEFINE d == [c EXCEPT !.lost = TRUE]
    <2>1. calls' = [calls EXCEPT ![n] = d]
        BY <1>4 DEF LoseRequest
    <2>2. d \in Call /\ d.received = c.received /\ d.replies = c.replies
        BY <1>1 DEF Call
    <2> HIDE DEF c, d
    <2>3. Agree(d)
        BY <1>1, <2>2 DEF Agree
    <2> QED BY <1>3, <2>1, <2>2, <2>3, CallStep
<1>5. CASE ReceiveReply(n)
    <2> DEFINE d == [c EXCEPT !.received = @ + 1]
    <2>1. calls' = [calls EXCEPT ![n] = d] /\ c.received < Len(c.replies)
        BY <1>5 DEF ReceiveReply
    <2>2. d \in Call /\ d.received = c.received + 1 /\ d.replies = c.replies
        BY <1>1 DEF Call
    <2> HIDE DEF c, d
    <2>3. d.received <= Len(d.replies)
        BY <1>2, <2>1, <2>2
    <2>4. Agree(d)
        BY <1>1, <2>2, <2>3 DEF Agree
    <2> QED BY <1>3, <2>1, <2>2, <2>4, CallStep
<1>6. CASE PollAnswered(n)
    <2>1. PICK x \in {Answer(c), Torn} :
             /\ calls' = [calls EXCEPT ![n].done = TRUE, ![n].shown = x]
        BY <1>6 DEF PollAnswered
    <2> DEFINE d == [c EXCEPT !.done = TRUE, !.shown = x]
    <2>2. x \in Reply \cup {NoReply, Torn}
        BY <1>1, <1>2, <2>1 DEF Answer, Agree
    <2>3. calls' = [calls EXCEPT ![n] = d]
        BY <2>1
    <2>4. d \in Call /\ d.received = c.received /\ d.replies = c.replies
        BY <1>1, <2>2 DEF Call
    <2> HIDE DEF c, d
    <2>5. Agree(d)
        BY <1>1, <2>4 DEF Agree
    <2> QED BY <1>3, <2>3, <2>4, <2>5, CallStep
<1>7. CASE PollAgain(n)
    <2> DEFINE d == [c EXCEPT !.polls = @ + 1]
    <2>1. calls' = [calls EXCEPT ![n] = d] /\ c.polls < MaxPolls
        BY <1>7 DEF PollAgain
    <2>2. d \in Call /\ d.received = c.received /\ d.replies = c.replies
        BY <1>1, <2>1 DEF Call
    <2> HIDE DEF c, d
    <2>3. Agree(d)
        BY <1>1, <2>2 DEF Agree
    <2> QED BY <1>3, <2>1, <2>2, <2>3, CallStep
<1>8. CASE GiveUp(n)
    <2> DEFINE d == [c EXCEPT !.done = TRUE]
    <2>1. calls' = [calls EXCEPT ![n] = d]
        BY <1>8 DEF GiveUp
    <2>2. d \in Call /\ d.received = c.received /\ d.replies = c.replies
        BY <1>1 DEF Call
    <2> HIDE DEF c, d
    <2>3. Agree(d)
        BY <1>1, <2>2 DEF Agree
    <2> QED BY <1>3, <2>1, <2>2, <2>3, CallStep
<1> QED BY <1>4, <1>5, <1>6, <1>7, <1>8

\* The invariant holds in every state.
THEOREM Invariant == Spec => []SystemInv
<1>1. Init => SystemInv
    BY DEF Init, SystemInv, TypeOK
<1>2. SystemInv /\ [Next]_vars => SystemInv'
    <2> SUFFICES ASSUME SystemInv, [Next]_vars PROVE SystemInv'
        OBVIOUS
    <2>1. ASSUME NEW u \in User, NEW r \in Typed, SendRequest(u, r) PROVE SystemInv'
        BY <2>1, SendStep
    <2>2. ASSUME NEW n \in DOMAIN calls, HandleReadMessage(n) PROVE SystemInv'
        BY <2>2, HandlerReplies
    <2>3. ASSUME NEW n \in DOMAIN calls,
                 \/ LoseRequest(n) \/ ReceiveReply(n)
                 \/ PollAnswered(n) \/ PollAgain(n) \/ GiveUp(n)
          PROVE SystemInv'
        BY <2>3, ClientStep
    <2>4. CASE UNCHANGED vars
        BY <2>4 DEF vars, SystemInv, TypeOK, Agree
    <2> QED BY <2>1, <2>2, <2>3, <2>4 DEF Next
<1> QED BY <1>1, <1>2, PTL DEF Spec

\* The storage only ever holds values, and every request has its type.
THEOREM TypeCorrect == Spec => []TypeOK
<1>1. SystemInv => TypeOK
    BY DEF SystemInv
<1> QED BY <1>1, Invariant, PTL

\* The answers to a request never disagree.
THEOREM AnswersAgree == Spec => []OneVerdict
<1>1. SystemInv => OneVerdict
    BY DEF SystemInv, Agree, OneVerdict
<1> QED BY <1>1, Invariant, PTL
----------------------------------------------------------------------------
(* Refinement *)

\* A request seen from outside keeps its place.
LEMMA OpsShape ==
    ASSUME SystemInv
    PROVE  /\ DOMAIN Ops = DOMAIN calls /\ DOMAIN calls = 1..Len(calls)
           /\ Len(Ops) = Len(calls) /\ Len(calls) \in Nat
           /\ \A n \in DOMAIN calls : Ops[n] = OpOf(calls[n])
<1>1. calls \in Seq(Call)
    BY DEF SystemInv, TypeOK
<1> QED BY <1>1 DEF Ops

\* A step that changes one request changes one operation.
LEMMA OpsStep ==
    ASSUME SystemInv, NEW n \in DOMAIN calls, NEW c,
           calls' = [calls EXCEPT ![n] = c]
    PROVE  Ops' = [Ops EXCEPT ![n] = OpOf(c)]
<1>1. DOMAIN calls' = DOMAIN calls
    OBVIOUS
<1>2. Ops' = [m \in DOMAIN calls |-> OpOf(calls'[m])]
    BY <1>1 DEF Ops
<1>3. \A m \in DOMAIN calls : calls'[m] = IF m = n THEN c ELSE calls[m]
    OBVIOUS
<1>4. \A m \in DOMAIN calls : OpOf(calls'[m]) = IF m = n THEN OpOf(c) ELSE OpOf(calls[m])
    BY <1>3
<1> HIDE DEF OpOf
<1> QED BY <1>2, <1>4 DEF Ops

\* Some steps are not seen from outside.
LEMMA Unseen ==
    ASSUME SystemInv, NEW n \in DOMAIN calls, NEW c,
           calls' = [calls EXCEPT ![n] = c], OpOf(c) = OpOf(calls[n])
    PROVE  Ops' = Ops
<1>1. Ops' = [Ops EXCEPT ![n] = OpOf(calls[n])]
    BY OpsStep
<1>2. DOMAIN Ops = DOMAIN calls /\ Ops[n] = OpOf(calls[n])
    BY OpsShape
<1> HIDE DEF OpOf
<1> QED BY <1>1, <1>2 DEF Ops

\* The last answer decides: sending answers is recording their outcome.
LEMMA OpsReplies ==
    ASSUME SystemInv, NEW n \in DOMAIN calls, calls[n].replies = <<>>,
           NEW s \in Seq(Reply), Len(s) > 0, SendReplies(n, s)
    PROVE  /\ Ops[n].result = Nothing
           /\ Ops' = [Ops EXCEPT ![n].result = OutcomeOf(s[Len(s)])]
<1> DEFINE c == calls[n]
           d == [c EXCEPT !.replies = s]
<1>1. c \in Call /\ Ops[n] = OpOf(c) /\ n \in DOMAIN Ops
    BY CallShape, OpsShape
<1>2. calls' = [calls EXCEPT ![n] = d]
    BY DEF SendReplies
<1>3. OpOf(d) = [OpOf(c) EXCEPT !.result = OutcomeOf(s[Len(s)])]
    <2>1. s # <<>>
        OBVIOUS
    <2>2. /\ d.user = c.user /\ d.req = c.req /\ d.done = c.done /\ d.shown = c.shown
          /\ d.replies = s
        BY <1>1 DEF Call
    <2> HIDE DEF c, d
    <2> QED BY <2>1, <2>2 DEF OpOf
<1>4. OpOf(c).result = Nothing
    BY DEF OpOf
<1> HIDE DEF c, d
<1>5. Ops' = [Ops EXCEPT ![n] = OpOf(d)]
    BY <1>2, OpsStep
<1> QED BY <1>1, <1>3, <1>4, <1>5

\* The system starts with an empty store and no operations.
LEMMA InitRefines == Init => Store!Init
<1> SUFFICES ASSUME Init PROVE Store!Init
    OBVIOUS
<1>1. Ops = <<>>
    BY DEF Init, Ops
<1> QED BY <1>1 DEF Init, Store!Init

\* Typing a request invokes an operation.
LEMMA SendRefines ==
    ASSUME SystemInv, NEW u \in User, NEW r \in Typed, SendRequest(u, r)
    PROVE  Store!Invoke(u, r)
<1> DEFINE c == [user |-> u, req |-> r, lost |-> FALSE, replies |-> <<>>,
                 received |-> 0, polls |-> 0, done |-> FALSE, shown |-> NoReply]
           o == [user |-> u, req |-> r, result |-> Nothing, shown |-> Nothing, done |-> FALSE]
<1>1. calls \in Seq(Call) /\ calls' = Append(calls, c) /\ UNCHANGED dataStorage
      /\ Len(calls) < MaxCalls
    BY DEF SystemInv, TypeOK, SendRequest
<1>2. c \in Call
    BY DEF Call
<1>3. OpOf(c) = o
    BY DEF OpOf, NoReply, OutcomeOf, Nothing
<1>4. \A n \in DOMAIN Ops : Ops[n].user = u => Ops[n].done
    BY OpsShape DEF SendRequest, OpOf
<1> HIDE DEF c, o
<1>5. /\ DOMAIN calls' = 1..(Len(calls) + 1)
      /\ \A m \in 1..Len(calls) : calls'[m] = calls[m]
      /\ calls'[Len(calls) + 1] = c
    BY <1>1, <1>2, AppendProperties
<1>6. Ops' = Append(Ops, o)
    <2>1. DOMAIN Ops' = 1..(Len(calls) + 1) /\ Ops' = [m \in DOMAIN calls' |-> OpOf(calls'[m])]
        BY <1>5 DEF Ops
    <2>2. Len(Ops) = Len(calls) /\ Len(calls) \in Nat
          /\ \A m \in 1..Len(calls) : Ops[m] = OpOf(calls[m])
        BY OpsShape
    <2>3. Append(Ops, o) = [m \in 1..(Len(calls) + 1) |->
                               IF m = Len(calls) + 1 THEN o ELSE Ops[m]]
        <3> DEFINE S == {Ops[m] : m \in 1..Len(calls)} \cup {o}
        <3>1. Ops \in Seq(S) /\ o \in S
            <4>1. Ops = [m \in 1..Len(calls) |-> Ops[m]]
                BY OpsShape DEF Ops
            <4>2. \A m \in 1..Len(calls) : Ops[m] \in S
                OBVIOUS
            <4> HIDE DEF S
            <4>3. Ops \in [1..Len(calls) -> S]
                BY <4>1, <4>2
            <4> QED BY <2>2, <4>3 DEF S
        <3> HIDE DEF S
        <3>2. /\ Append(Ops, o) \in Seq(S) /\ Len(Append(Ops, o)) = Len(calls) + 1
              /\ \A m \in 1..Len(calls) : Append(Ops, o)[m] = Ops[m]
              /\ Append(Ops, o)[Len(calls) + 1] = o
            BY <2>2, <3>1, AppendProperties
        <3> DEFINE t == Append(Ops, o)
        <3>3. t = [m \in 1..(Len(calls) + 1) |-> t[m]]
            <4> HIDE DEF t
            <4>1. t \in Seq(S) /\ Len(t) = Len(calls) + 1
                BY <3>2 DEF t
            <4> QED BY <4>1, LenProperties
        <3>4. \A m \in 1..(Len(calls) + 1) :
                 t[m] = IF m = Len(calls) + 1 THEN o ELSE Ops[m]
            BY <2>2, <3>2
        <3> HIDE DEF t
        <3>5. t = [m \in 1..(Len(calls) + 1) |->
                      IF m = Len(calls) + 1 THEN o ELSE Ops[m]]
            BY <3>3, <3>4
        <3> QED BY <3>5 DEF t
    <2>4. \A m \in 1..(Len(calls) + 1) :
             OpOf(calls'[m]) = IF m = Len(calls) + 1 THEN o ELSE Ops[m]
        BY <1>3, <1>5, <2>2
    <2> HIDE DEF OpOf, Ops
    <2> QED BY <1>5, <2>1, <2>3, <2>4
<1> QED BY <1>1, <1>4, <1>6, OpsShape DEF Store!Invoke, Store!Nothing, Nothing, o

\* So is sending a single answer.
LEMMA OpsReply ==
    ASSUME SystemInv, NEW n \in DOMAIN calls, calls[n].replies = <<>>,
           NEW x \in Reply, SendReplies(n, <<x>>)
    PROVE  /\ Ops[n].result = Nothing
           /\ Ops' = [Ops EXCEPT ![n].result = OutcomeOf(x)]
<1> DEFINE s == <<x>>
<1>1. s \in Seq(Reply) /\ Len(s) = 1 /\ s[1] = x
    OBVIOUS
<1>2. SendReplies(n, s)
    OBVIOUS
<1> HIDE DEF s
<1>3. Len(s) > 0
    BY <1>1
<1>4. /\ Ops[n].result = Nothing
      /\ Ops' = [Ops EXCEPT ![n].result = OutcomeOf(s[Len(s)])]
    BY <1>1, <1>2, <1>3, OpsReplies
<1> QED BY <1>1, <1>4

\* A request that is answered with errors is rejected.
LEMMA RejectRefines ==
    ASSUME SystemInv, NEW n \in DOMAIN calls, calls[n].replies = <<>>,
           NEW s \in Seq(Reply), Len(s) > 0, SendReplies(n, s),
           OutcomeOf(s[Len(s)]) = Error, UNCHANGED dataStorage,
           ~IsWrite(calls[n].req),
           IsRead(calls[n].req) => dataStorage[calls[n].req.key] = Absent
    PROVE  Store!Reject(n)
<1>1. Ops[n].result = Nothing /\ Ops' = [Ops EXCEPT ![n].result = Error]
    BY OpsReplies
<1>2. Ops[n].req = calls[n].req
    BY OpsShape DEF OpOf
<1> QED BY <1>1, <1>2
        DEF Store!Reject, Store!Result, Store!IsWrite, Store!IsRead, IsWrite, IsRead,
            Store!Error, Error, Store!Nothing, Nothing

\* Handling a request is its read, its write or its rejection.
LEMMA HandlerRefines ==
    ASSUME SystemInv, NEW n \in DOMAIN calls, HandleReadMessage(n)
    PROVE  Store!Read(n) \/ Store!Write(n) \/ Store!Reject(n)
<1> DEFINE r == calls[n].req
<1>1. /\ calls[n].replies = <<>> /\ Ops[n].req = r /\ r \in Request
      /\ dataStorage \in [Key -> Value \cup {Absent}]
    BY CallShape, OpsShape DEF HandleReadMessage, OpOf
<1>2. ASSUME NEW d \in Description \ {"none"}, SendReplies(n, <<ErrorStatus(d)>>),
             UNCHANGED dataStorage, ~IsWrite(r), IsRead(r) => dataStorage[r.key] = Absent
      PROVE  Store!Reject(n)
    <2> DEFINE x == ErrorStatus(d)
    <2>1. x \in Reply /\ OutcomeOf(x) = Error
        BY ErrorReply
    <2> HIDE DEF x
    <2> DEFINE s == <<x>>
    <2>2. s \in Seq(Reply) /\ Len(s) = 1 /\ s[1] = x
        BY <2>1
    <2>3. SendReplies(n, s)
        BY <1>2 DEF x
    <2> HIDE DEF s
    <2>4. Len(s) > 0 /\ OutcomeOf(s[Len(s)]) = Error
        BY <2>1, <2>2
    <2> QED BY <1>1, <1>2, <2>2, <2>3, <2>4, RejectRefines
<1>3. CASE HandleMalformed(n)
    <2> DEFINE s == Missing(r) \o <<ErrorStatus("parse error")>>
    <2>1. SendReplies(n, s) /\ UNCHANGED dataStorage /\ ~IsWrite(r) /\ ~IsRead(r)
        BY <1>3, RequestAssumption DEF HandleMalformed, IsWrite, IsRead
    <2>2. Errors(s) /\ Len(s) > 0
        BY MissingErrors
    <2> HIDE DEF s
    <2>3. s \in Seq(Reply) /\ OutcomeOf(s[Len(s)]) = Error
        BY <2>2 DEF Errors
    <2> QED BY <1>1, <2>1, <2>2, <2>3, RejectRefines
<1>4. CASE HandleRead(n)
    <2>1. r.request = "read" /\ r.key \in Key /\ UNCHANGED dataStorage /\ ~IsWrite(r)
        BY <1>4 DEF HandleRead, IsWrite
    <2>2. CASE dataStorage[r.key] # Absent
        <3> DEFINE x == OkRead(dataStorage[r.key])
        <3>1. SendReplies(n, <<x>>)
            BY <1>4, <2>2 DEF HandleRead
        <3>2. x \in Reply /\ OutcomeOf(x) = Ok(dataStorage[r.key])
            BY <1>1, <2>1, <2>2 DEF Reply, OkRead, OutcomeOf, Ok
        <3> HIDE DEF x
        <3>4. /\ Ops[n].result = Nothing
              /\ Ops' = [Ops EXCEPT ![n].result = Ok(dataStorage[r.key])]
            BY <1>1, <3>1, <3>2, OpsReply
        <3> QED BY <1>1, <2>1, <2>2, <3>4
                DEF Store!Read, Store!Result, Store!IsRead, Store!Ok, Ok,
                    Store!Nothing, Nothing
    <2>3. CASE dataStorage[r.key] = Absent
        <3>1. SendReplies(n, <<ErrorStatus("key not in storage")>>)
            BY <1>4, <2>3 DEF HandleRead
        <3>2. "key not in storage" \in Description \ {"none"}
            BY DEF Description
        <3> QED BY <1>2, <2>1, <2>3, <3>1, <3>2
    <2> QED BY <2>2, <2>3
<1>5. CASE HandleWrite(n)
    <2>1. /\ IsWrite(r) /\ SendReplies(n, <<OkWrite>>)
          /\ dataStorage' = [dataStorage EXCEPT ![r.key] = r.value]
        BY <1>5 DEF HandleWrite, IsWrite
    <2>2. OkWrite \in Reply /\ OutcomeOf(OkWrite) = Ok(Absent)
        BY DEF Reply, OkWrite, OutcomeOf, Ok
    <2>4. /\ Ops[n].result = Nothing
          /\ Ops' = [Ops EXCEPT ![n].result = Ok(Absent)]
        BY <1>1, <2>1, <2>2, OpsReply
    <2> QED BY <1>1, <2>1, <2>4
            DEF Store!Write, Store!Result, Store!IsWrite, IsWrite, Store!Ok, Ok,
                Store!Nothing, Nothing
<1>6. CASE HandleWriteMalformed(n)
    <2> DEFINE a == IF r.value = Absent THEN <<ErrorStatus("key not found")>> ELSE <<>>
               s == a \o <<ErrorStatus("parse error")>>
    <2>1. SendReplies(n, s) /\ UNCHANGED dataStorage /\ ~IsWrite(r) /\ ~IsRead(r)
        BY <1>6 DEF HandleWriteMalformed, IsWrite, IsRead
    <2>2. Errors(s) /\ Len(s) > 0
        BY ValueErrors
    <2> HIDE DEF s
    <2>3. s \in Seq(Reply) /\ OutcomeOf(s[Len(s)]) = Error
        BY <2>2 DEF Errors
    <2> QED BY <1>1, <2>1, <2>2, <2>3, RejectRefines
<1>7. CASE HandleUnknown(n)
    <2>1. SendReplies(n, <<ErrorStatus("bad request")>>) /\ UNCHANGED dataStorage
          /\ ~IsWrite(r) /\ ~IsRead(r)
        BY <1>7 DEF HandleUnknown, IsWrite, IsRead
    <2>2. "bad request" \in Description \ {"none"}
        BY DEF Description
    <2> QED BY <1>2, <2>1, <2>2
<1> QED BY <1>3, <1>4, <1>5, <1>6, <1>7 DEF HandleReadMessage

\* A client that is done looks like before but for what it printed.
LEMMA Finished ==
    ASSUME NEW c, NEW d, d.user = c.user, d.req = c.req, d.done = TRUE,
           d.replies = c.replies
    PROVE  /\ d.shown = c.shown => OpOf(d) = [OpOf(c) EXCEPT !.done = TRUE]
           /\ OpOf(d) = [OpOf(c) EXCEPT !.done = TRUE, !.shown = OutcomeOf(d.shown)]
<1> DEFINE result == IF c.replies = <<>> THEN Nothing
                     ELSE OutcomeOf(c.replies[Len(c.replies)])
           Op(done, shown) == [user |-> c.user, req |-> c.req, done |-> done,
                               shown |-> shown, result |-> result]
           o == OpOf(c)
<1>1. o = Op(c.done, OutcomeOf(c.shown))
    BY DEF OpOf
<1>2. OpOf(d) = Op(TRUE, OutcomeOf(d.shown))
    BY DEF OpOf
<1> HIDE DEF result, o
<1>3. \A done : [o EXCEPT !.done = done] = Op(done, OutcomeOf(c.shown))
    BY <1>1
<1>4. \A done, shown : [o EXCEPT !.done = done, !.shown = shown] = Op(done, shown)
    <2> TAKE done, shown
    <2> DEFINE p == [o EXCEPT !.done = done, !.shown = shown]
    <2>1. /\ DOMAIN p = {"user", "req", "done", "shown", "result"}
          /\ p = [i \in DOMAIN p |-> p[i]]
        BY <1>1
    <2>2. /\ p.user = c.user /\ p.req = c.req /\ p.done = done
          /\ p.shown = shown /\ p.result = result
        BY <1>1
    <2> HIDE DEF p
    <2>3. p = Op(done, shown)
        BY <2>1, <2>2
    <2> QED BY <2>3 DEF p
<1> HIDE DEF Op
<1>5. d.shown = c.shown => OpOf(d) = [o EXCEPT !.done = TRUE]
    BY <1>2, <1>3, Zenon
<1>6. OpOf(d) = [o EXCEPT !.done = TRUE, !.shown = OutcomeOf(d.shown)]
    BY <1>2, <1>4, Zenon
<1> QED BY <1>5, <1>6 DEF o

\* A client that returns an answer returns the outcome of its request, even
\* when more answers follow; without an answer it gives up, and the rest of
\* what it does is not seen.
LEMMA ClientRefines ==
    ASSUME TornReads = FALSE, SystemInv, NEW n \in DOMAIN calls,
           \/ LoseRequest(n) \/ ReceiveReply(n)
           \/ PollAnswered(n) \/ PollAgain(n) \/ GiveUp(n)
    PROVE  Store!Return(n) \/ Store!GiveUp(n) \/ UNCHANGED Store!storeVars
<1> DEFINE c == calls[n]
<1>1. c \in Call /\ Agree(c) /\ Ops[n] = OpOf(c) /\ n \in DOMAIN Ops
    BY CallShape, OpsShape
<1>2. Len(c.replies) \in Nat /\ c.received \in Nat /\ c.replies \in Seq(Reply)
    BY <1>1 DEF Call
<1>3. UNCHANGED dataStorage
    BY DEF LoseRequest, ReceiveReply, PollAnswered, PollAgain, GiveUp
<1>4. ASSUME NEW d, calls' = [calls EXCEPT ![n] = d], OpOf(d) = OpOf(c)
      PROVE  UNCHANGED Store!storeVars
    BY <1>3, <1>4, Unseen DEF Store!storeVars
<1>5. CASE LoseRequest(n)
    <2> DEFINE d == [c EXCEPT !.lost = TRUE]
    <2>1. calls' = [calls EXCEPT ![n] = d]
        BY <1>5 DEF LoseRequest
    <2>2. OpOf(d) = OpOf(c)
        BY <1>1 DEF OpOf, Call
    <2> QED BY <1>4, <2>1, <2>2
<1>6. CASE ReceiveReply(n)
    <2> DEFINE d == [c EXCEPT !.received = @ + 1]
    <2>1. calls' = [calls EXCEPT ![n] = d]
        BY <1>6 DEF ReceiveReply
    <2>2. OpOf(d) = OpOf(c)
        BY <1>1 DEF OpOf, Call
    <2> QED BY <1>4, <2>1, <2>2
<1>7. CASE PollAgain(n)
    <2> DEFINE d == [c EXCEPT !.polls = @ + 1]
    <2>1. calls' = [calls EXCEPT ![n] = d]
        BY <1>7 DEF PollAgain
    <2>2. OpOf(d) = OpOf(c)
        BY <1>1 DEF OpOf, Call
    <2> QED BY <1>4, <2>1, <2>2
<1>8. CASE GiveUp(n)
    <2> DEFINE d == [c EXCEPT !.done = TRUE]
    <2>1. calls' = [calls EXCEPT ![n] = d] /\ ~c.done
        BY <1>8 DEF GiveUp
    <2>2. OpOf(d) = [OpOf(c) EXCEPT !.done = TRUE] /\ OpOf(c).done = c.done
        <3>1. /\ d.user = c.user /\ d.req = c.req /\ d.done = TRUE /\ d.shown = c.shown
              /\ d.replies = c.replies
            BY <1>1 DEF Call
        <3> HIDE DEF c, d
        <3>2. OpOf(d) = [OpOf(c) EXCEPT !.done = TRUE]
            BY <3>1, Finished
        <3>3. OpOf(c).done = c.done
            BY DEF OpOf
        <3> QED BY <3>2, <3>3
    <2> HIDE DEF c, d
    <2>3. Ops' = [Ops EXCEPT ![n] = OpOf(d)]
        BY <2>1, OpsStep
    <2> QED BY <1>1, <1>3, <2>1, <2>2, <2>3 DEF Store!GiveUp
<1>9. CASE PollAnswered(n)
    <2> DEFINE x == c.replies[c.received]
               d == [c EXCEPT !.done = TRUE, !.shown = x]
    <2>1. /\ ~c.done /\ c.received # 0
          /\ calls' = [calls EXCEPT ![n].done = TRUE, ![n].shown = x]
        BY <1>9 DEF PollAnswered, Answer
    <2>2. calls' = [calls EXCEPT ![n] = d]
        BY <2>1
    <2>3. /\ c.replies # <<>>
          /\ OutcomeOf(x) = OutcomeOf(c.replies[Len(c.replies)])
        BY <1>1, <1>2, <2>1 DEF Agree
    <2>4. OutcomeOf(x) \in Outcome
        <3>1. x \in Reply
            BY <1>1, <1>2, <2>1 DEF Agree
        <3> HIDE DEF x
        <3>2. CASE \E e \in Description \ {"none"} : x = ErrorStatus(e)
            BY <3>2, ErrorReply DEF Error, Outcome
        <3>3. CASE \E v \in Value : x = OkRead(v)
            BY <3>3 DEF OkRead, OutcomeOf, Outcome
        <3>4. CASE x = OkWrite
            BY <3>4 DEF OkWrite, OutcomeOf, Outcome
        <3> QED BY <3>1, <3>2, <3>3, <3>4 DEF Reply
    <2>5. /\ OpOf(c).result = OutcomeOf(x) /\ OpOf(c).done = c.done
          /\ OpOf(d) = [OpOf(c) EXCEPT !.done = TRUE, !.shown = OutcomeOf(x)]
        <3>1. /\ d.user = c.user /\ d.req = c.req /\ d.done = TRUE /\ d.shown = x
              /\ d.replies = c.replies
            BY <1>1 DEF Call
        <3> HIDE DEF c, d, x
        <3>2. OpOf(c).result = OutcomeOf(x)
            BY <2>3 DEF OpOf
        <3>3. OpOf(c).done = c.done
            BY DEF OpOf
        <3>4. OpOf(d) = [OpOf(c) EXCEPT !.done = TRUE, !.shown = OutcomeOf(x)]
            BY <3>1, Finished
        <3> QED BY <3>2, <3>3, <3>4
    <2>6. OutcomeOf(x) # Nothing
        BY <2>4 DEF Outcome, Nothing
    <2> HIDE DEF c, d, x
    <2>7. Ops' = [Ops EXCEPT ![n] = OpOf(d)]
        BY <2>2, OpsStep
    <2> QED BY <1>1, <1>3, <2>1, <2>5, <2>6, <2>7
            DEF Store!Return, Store!Nothing, Nothing
<1> QED BY <1>5, <1>6, <1>7, <1>8, <1>9

\* Late requests, timeouts, repeated and lost answers are invisible: the
\* server and its clients implement a key-value store in which a request
\* takes effect at most once, and what is printed is what it did.
THEOREM Refinement ==
    ASSUME TornReads = FALSE
    PROVE  Spec => ImplementsStore
<1>1. SystemInv /\ [Next]_vars => [Store!Next]_(Store!storeVars)
    <2> SUFFICES ASSUME SystemInv, [Next]_vars PROVE [Store!Next]_(Store!storeVars)
        OBVIOUS
    <2>1. ASSUME NEW u \in User, NEW r \in Typed, SendRequest(u, r) PROVE Store!Next
        BY <2>1, SendRefines DEF Store!Next
    <2>2. ASSUME NEW n \in DOMAIN calls, HandleReadMessage(n) PROVE Store!Next
        BY <2>2, HandlerRefines, OpsShape DEF Store!Next
    <2>3. ASSUME NEW n \in DOMAIN calls,
                 \/ LoseRequest(n) \/ ReceiveReply(n)
                 \/ PollAnswered(n) \/ PollAgain(n) \/ GiveUp(n)
          PROVE  Store!Next \/ UNCHANGED Store!storeVars
        BY <2>3, ClientRefines, OpsShape DEF Store!Next
    <2>4. CASE UNCHANGED vars
        BY <2>4 DEF vars, Store!storeVars, Ops
    <2> QED BY <2>1, <2>2, <2>3, <2>4 DEF Next
<1> QED BY <1>1, InitRefines, Invariant, PTL DEF Spec, ImplementsStore, Store!Spec
============================================================================
