-------------------------- MODULE ConnectionPairMC --------------------------
(* Small instances of ConnectionPair. *)
EXTENDS ConnectionPair

CONSTANTS t1, t2, empty, text

\* The empty message has an empty frame; Encode("ab") is one group.
MCSize == [m \in Msg |-> IF m = empty THEN 0 ELSE Quantum]

\* Two letters and the delimiter.
MCPeerByte == {<<1, 1>>, <<2, 1>>, <<1, 0>>}
============================================================================
