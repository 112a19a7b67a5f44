SPECIFICATION FairSpec
CONSTANTS
  a = a
  b = b
  Parties = {a, b}
  Rounds = 2
  Trailing = 2
  MaxLost = 2
  WithData = TRUE
INVARIANTS TypeOK Barrier FirstSyncHeard
PROPERTIES FirstSyncOpens
CHECK_DEADLOCK FALSE
