-------------------------- MODULE StorageClientMC --------------------------
(* Small instances of StorageClient. *)
EXTENDS StorageClient

CONSTANTS c1, c2
============================================================================
