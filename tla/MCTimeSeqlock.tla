---------------------------- MODULE MCTimeSeqlock ----------------------------
(* Instances of TimeSeqlock for TLC.                                       *)
EXTENDS TimeSeqlock
=============================================================================
