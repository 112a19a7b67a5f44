SPECIFICATION Spec
CONSTANTS
  P = 13
  L = 1
  FRACTION = 1
  NP = 3
  Prg <- SomePrg
  Jobs <- PrefixJobs
  Menu <- NoMenu
  MaxGates = 6
INVARIANTS PrefixAsTest
CHECK_DEADLOCK FALSE
