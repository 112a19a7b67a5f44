SPECIFICATION FairSpec
CONSTANTS
  Ends <- ChunkEnds
  Reads <- ReadSizes
  MayPoison = TRUE
INVARIANTS TypeOK StreamInOrder NeverCopiesEmpty
PROPERTIES ReadsAnswered
CHECK_DEADLOCK FALSE
