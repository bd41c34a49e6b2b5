--------------------------- MODULE MessageChannel ---------------------------
(***************************************************************************)
(* What a connection between two programs of this library promises: the    *)
(* receiver is told the messages in the order they were sent, each once    *)
(* and none out of turn, but never an empty one, for which there is no     *)
(* frame that decode_message does not skip.  When the connection fails the *)
(* rest is lost, wherever that happens.                                    *)
(***************************************************************************)
EXTENDS Sequences, Selection

CONSTANTS
    Msg,
    Silent      \* the messages that the receiver is not told

VARIABLES
    sent,       \* messages given to the sender, in order
    told        \* messages announced by the receiver, in order

channelVars == <<sent, told>>

Audible(messages) ==
    Selection(Len(messages), {i \in DOMAIN messages : messages[i] \notin Silent}, messages)

Init ==
    /\ sent = <<>>
    /\ told = <<>>

Send ==
    /\ \E m \in Msg : sent' = Append(sent, m)
    /\ UNCHANGED told

Deliver ==
    /\ Len(told) < Len(Audible(sent))
    /\ told' = Append(told, Audible(sent)[Len(told) + 1])
    /\ UNCHANGED sent

Next == Send \/ Deliver

Spec == Init /\ [][Next]_channelVars
============================================================================
