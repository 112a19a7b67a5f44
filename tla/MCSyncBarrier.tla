---------------------------- MODULE MCSyncBarrier ----------------------------
(* Instances of SyncBarrier for TLC.                                       *)
EXTENDS SyncBarrier

CONSTANTS a, b
=============================================================================
