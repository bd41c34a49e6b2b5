---------------------------- MODULE TcpServerMC ----------------------------
(* Small instances of TcpServer. *)
EXTENDS TcpServer

CONSTANTS c1, c2, a1
============================================================================
