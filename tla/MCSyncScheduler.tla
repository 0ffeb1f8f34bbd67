--------------------------- MODULE MCSyncScheduler ---------------------------
(* An instance of SyncScheduler for TLC. *)
EXTENDS SyncScheduler

CONSTANTS t1, t2, t3, once, beat
=============================================================================
