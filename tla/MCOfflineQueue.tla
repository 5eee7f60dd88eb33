--------------------------- MODULE MCOfflineQueue ---------------------------
(* Instances of OfflineQueue.                                                 *)
EXTENDS OfflineQueue, TLC
=============================================================================
