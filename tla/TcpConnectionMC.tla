-------------------------- MODULE TcpConnectionMC --------------------------
(* Small instances of TcpConnection. *)
EXTENDS TcpConnection

CONSTANTS t1, t2, empty, text

\* The empty message has an empty frame; any other here one group.
MCSize == [m \in Msg |-> IF m = empty THEN 0 ELSE Quantum]

\* A letter and the delimiter.
MCPeerByte == {<<1, 1>>, <<1, 0>>}
============================================================================
