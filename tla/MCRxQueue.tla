------------------------------ MODULE MCRxQueue ------------------------------
(* Instances of RxQueue for TLC.                                           *)
EXTENDS RxQueue

\* Chunks and reads whose boundaries never coincide until the end.
ChunkEnds == <<3, 4, 6, 10, 12>>
ReadSizes == <<2, 3, 0, 1, 4, 2>>

\* One chunk, too short for the only read.
ShortChunk == <<1>>
LongRead   == <<2>>
=============================================================================
