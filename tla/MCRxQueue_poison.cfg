SPECIFICATION FairSpec
CONSTANTS
  Ends <- ShortChunk
  Reads <- LongRead
  MayPoison = TRUE
PROPERTIES PoisonThrows
CHECK_DEADLOCK FALSE
